------------------------------ MODULE Template ------------------------------
(***************************************************************************)
(* The names a family of resources goes by (UriTemplate of                 *)
(* ikigai/template.py): literals and variables in turn.  A name is the     *)
(* sequence of its characters; a part is a literal or a variable; a match  *)
(* is the set of what it captured, by variable: empty, there is none.      *)
(***************************************************************************)
EXTENDS Naturals, Sequences, SequencesExt, FiniteSetsExt

OpenBrace  == 123
CloseBrace == 125

IsWordChar(c) == c \in 48 .. 57 \/ c \in 65 .. 90 \/ c \in 97 .. 122 \/ c = 95

Part(isVar, text) == [isVar |-> isVar, text |-> text]
Literal(text)     == Part(FALSE, text)
Variable(name)    == Part(TRUE, name)

Variables(parts) == {parts[i].text : i \in {i \in DOMAIN parts : parts[i].isVar}}

From(k, text) == SubSeq(text, k, Len(text))

FirstOf(c, text, k) ==
  LET at == {i \in k .. Len(text) : text[i] = c} IN IF at = {} THEN 0 ELSE Min(at)

(* The parts of a source text, as a set: empty, the text is malformed.      *)
PartsOf(source) ==
  LET partsFrom[k \in 1 .. (Len(source) + 1)] ==
        LET open   == FirstOf(OpenBrace, source, k)
            close  == FirstOf(CloseBrace, source, open)
            name   == SubSeq(source, open + 1, close - 1)
            before == SubSeq(source, k, open - 1)
        IN
        IF k > Len(source) THEN {<<>>}
        ELSE IF open = 0 THEN {<<Literal(From(k, source))>>}
        ELSE IF close = 0 \/ name = <<>> \/ \E i \in DOMAIN name : ~IsWordChar(name[i]) THEN {}
        ELSE {(IF before = <<>> THEN <<>> ELSE <<Literal(before)>>) \o <<Variable(name)>> \o rest :
                rest \in partsFrom[close + 1]}
  IN  partsFrom[1]

(* Two variables side by side are ambiguous. *)
Parse(source) ==
  {parts \in PartsOf(source) :
     \A i \in 1 .. (Len(parts) - 1) : ~(parts[i].isVar /\ parts[i + 1].isVar)}

StartsAt(text, name, pos) ==
  pos + Len(text) - 1 <= Len(name) /\ SubSeq(name, pos, pos + Len(text) - 1) = text

(* Where a text occurs in a name from a position on. *)
Occurrences(text, name, pos) == {i \in pos .. Len(name) : StartsAt(text, name, i)}

(* A later capture of the same variable wins. *)
Bind(name, value, bindings) ==
  [n \in {name} \cup DOMAIN bindings |-> IF n \in DOMAIN bindings THEN bindings[n] ELSE value]

(* Where a variable's capture ends: at the leftmost occurrence of the       *)
(* literal that follows it, or at the end of the name; never at once.       *)
Bug_CaptureGreedily(parts, i, name, pos) ==
  IF i < Len(parts) /\ ~parts[i + 1].isVar
  THEN LET at == Occurrences(parts[i + 1].text, name, pos) IN IF at = {} THEN {} ELSE {Max(at)} \ {pos}
  ELSE {Len(name) + 1} \ {pos}

CaptureEnd(parts, i, name, pos) ==
  IF i < Len(parts) /\ ~parts[i + 1].isVar
  THEN LET at == Occurrences(parts[i + 1].text, name, pos) IN IF at = {} THEN {} ELSE {Min(at)} \ {pos}
  ELSE {Len(name) + 1} \ {pos}

(* The captures of the parts from the i-th on in the name from pos on.      *)
Match(parts, name) ==
  LET captures[i \in 1 .. (Len(parts) + 1)] == [pos \in 1 .. (Len(name) + 1) |->
        IF i > Len(parts) THEN IF pos = Len(name) + 1 THEN {<<>>} ELSE {}
        ELSE IF parts[i].isVar
        THEN UNION {{Bind(parts[i].text, SubSeq(name, pos, end - 1), rest) :
                       rest \in captures[i + 1][end]} :
                      end \in CaptureEnd(parts, i, name, pos)}
        ELSE IF StartsAt(parts[i].text, name, pos)
        THEN captures[i + 1][pos + Len(parts[i].text)]
        ELSE {}]
  IN  captures[1][1]

Expand(parts, bindings) ==
  IF ~(Variables(parts) \subseteq DOMAIN bindings) THEN {}
  ELSE {FlattenSeq([i \in DOMAIN parts |->
                      IF parts[i].isVar THEN bindings[parts[i].text] ELSE parts[i].text])}

(* The template as it was written. *)
Source(parts) ==
  FlattenSeq([i \in DOMAIN parts |->
    IF parts[i].isVar THEN <<OpenBrace>> \o parts[i].text \o <<CloseBrace>> ELSE parts[i].text])
=============================================================================
