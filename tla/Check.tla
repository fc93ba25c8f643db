------------------------------- MODULE Check -------------------------------
(***************************************************************************)
(* The pre-flight check (ikigai/check.py): a contract applied to proposed  *)
(* arguments, and what a server enforces of it before a handler runs       *)
(* (Space._invoke and _preflight of ikigai/serve.py).                      *)
(*                                                                         *)
(* An action is [inputs, groups, arguments, derived], its inputs           *)
(* [name, required, binding, class, oneOf, list, needs, values], where     *)
(* oneOf is empty (any value) or one set, list a separator's word or       *)
(* "none", and values what a value needs.  A violation is its kind and the *)
(* names it is about.                                                      *)
(***************************************************************************)
EXTENDS Naturals, Sequences, FiniteSets, SequencesExt, FiniteSetsExt

Whitespace == {9, 10, 11, 12, 13, 32}
Comma      == 44

(* What a sequence has at the places to keep, in order. *)
Chosen(s, keep) == FlattenSeq([i \in DOMAIN s |-> IF i \in keep THEN <<s[i]>> ELSE <<>>])

Ink(value) == {i \in DOMAIN value : value[i] \notin Whitespace}

Trim(value) ==
  IF Ink(value) = {} THEN <<>> ELSE SubSeq(value, Min(Ink(value)), Max(Ink(value)))

(* What lies between the separators of a value, the ends included. *)
Pieces(value, separators) ==
  LET ends == {Len(value) + 1} \cup {i \in DOMAIN value : value[i] \in separators}
      End(k) == IF k = 0 THEN 0
                ELSE CHOOSE i \in ends : Cardinality({j \in ends : j <= i}) = k
  IN  [k \in 1 .. Cardinality(ends) |-> SubSeq(value, End(k - 1) + 1, End(k) - 1)]

Separators == [comma |-> {Comma}, whitespace |-> Whitespace,
               commaOrWhitespace |-> {Comma} \cup Whitespace, newline |-> {10}]
Canonical  == [comma |-> <<Comma>>, whitespace |-> <<32>>,
               commaOrWhitespace |-> <<Comma>>, newline |-> <<10>>]

(* The items of a list, trimmed, the empty ones dropped. *)
SplitList(separator, value) ==
  LET pieces == Pieces(value, Separators[separator])
      items  == [i \in DOMAIN pieces |-> Trim(pieces[i])]
  IN  Chosen(items, {i \in DOMAIN items : items[i] # <<>>})

Digits(text) == text # <<>> /\ \A i \in DOMAIN text : text[i] \in 48 .. 57

Unsigned(text) == IF text # <<>> /\ text[1] \in {43, 45} THEN Tail(text) ELSE text

True  == <<116, 114, 117, 101>>
False == <<102, 97, 108, 115, 101>>

DateLike(text) ==
  /\ Len(text) >= 10
  /\ \A i \in {1, 2, 3, 4, 6, 7, 9, 10} : text[i] \in 48 .. 57
  /\ text[5] = 45 /\ text[8] = 45

(* The range of an i64 is not reached. *)
Plausible(class, value) ==
  CASE class = "boolean" -> value \in {True, False}
    [] class = "integer" -> Digits(Unsigned(value))
    [] class = "dateTime" -> DateLike(value)
    [] OTHER             -> TRUE
-----------------------------------------------------------------------------
Violation(kind, about) == [kind |-> kind, about |-> about]

(* One violation, or none. *)
Unless(conforms, kind, about) == IF conforms THEN <<>> ELSE <<Violation(kind, about)>>

(* The values given for a name, in the order given. *)
ValuesOf(name, pairs) ==
  FlattenSeq([i \in DOMAIN pairs |-> IF pairs[i][1] = name THEN <<pairs[i][2]>> ELSE <<>>])

InputNames(action) == {action.inputs[i].name : i \in DOMAIN action.inputs}

ListOf(action, name) ==
  LET at == {i \in DOMAIN action.inputs : action.inputs[i].name = name}
  IN  IF at = {} THEN "none" ELSE action.inputs[Min(at)].list

NamesIn(pairs) == {pairs[i][1] : i \in DOMAIN pairs}

Join(values, joint) ==
  FlattenSeq([i \in DOMAIN values |-> IF i = 1 THEN values[i] ELSE joint \o values[i]])

Repeated(action, pairs) ==
  {n \in NamesIn(pairs) : Len(ValuesOf(n, pairs)) > 1 /\ ListOf(action, n) = "none"}

(* One value per name: a list argument's repeats joined, else the first.    *)
JoinRepeats(action, pairs) ==
  [n \in NamesIn(pairs) |->
     LET values == ValuesOf(n, pairs)
         list   == ListOf(action, n)
     IN  IF Len(values) > 1 /\ list # "none" THEN Join(values, Canonical[list]) ELSE Head(values)]

(* Given, for a group or a dependency: with a value that is not blank. *)
Given(effective, name) == name \in DOMAIN effective /\ Ink(effective[name]) # {}

Missing(effective, names) == {n \in names : ~Given(effective, n)}

Items(arg, value) == IF arg.list = "none" THEN <<value>> ELSE SplitList(arg.list, value)

CheckValue(arg, value) ==
  IF \E values \in arg.oneOf : value \notin values
  THEN <<Violation("not-one-of", {arg.name})>>
  ELSE Unless(Plausible(arg.class, value), "implausible", {arg.name})

(* What a value of its own needs, once for each item. *)
CheckNotes(arg, effective, items) ==
  FlattenSeq([i \in DOMAIN items |->
    IF items[i] \notin DOMAIN arg.values \/ \E j \in 1 .. (i - 1) : items[j] = items[i] THEN <<>>
    ELSE Unless(Missing(effective, arg.values[items[i]]) = {}, "needs", {arg.name})])

CheckInput(arg, effective, repeated) ==
  Unless(arg.name \notin repeated, "given-twice", {arg.name}) \o
  IF arg.name \notin DOMAIN effective
  THEN Unless(~arg.required \/ arg.binding, "missing", {arg.name})
  ELSE LET items == Items(arg, effective[arg.name]) IN
       FlattenSeq([i \in DOMAIN items |-> CheckValue(arg, items[i])])
       \o CheckNotes(arg, effective, items)
       \o Unless(Given(effective, arg.name) => Missing(effective, arg.needs) = {},
                 "needs", {arg.name})

Bug_CountPresent(group, effective) ==
  LET present == Cardinality({m \in group.members : m \in DOMAIN effective})
  IN  Unless(CASE group.kind = "exactly-one"  -> present = 1
               [] group.kind = "at-least-one" -> present > 0
               [] group.kind = "at-most-one"  -> present <= 1, group.kind, group.members)

CheckGroup(group, effective) ==
  LET present == Cardinality({m \in group.members : Given(effective, m)})
  IN  Unless(CASE group.kind = "exactly-one"  -> present = 1
               [] group.kind = "at-least-one" -> present > 0
               [] group.kind = "at-most-one"  -> present <= 1, group.kind, group.members)

(* The carrier of an envelope: a set of at most one name. *)
Carrier(action) == IF action.arguments[1] = "envelope" THEN {action.arguments[2]} ELSE {}

(* What a declaration makes sure of (Action.__init__): an input is bound by  *)
(* the name exactly when its name is a variable's, and then it is required   *)
(* and no list; a signature declares no lists; a group is of inputs.         *)
Declarable(action, variables) ==
  LET inputs == ToSet(action.inputs) IN
  /\ action.inputs \in Seq(inputs) /\ action.groups \in Seq(ToSet(action.groups))
  /\ action.derived \in BOOLEAN /\ action.arguments[1] \in {"closed", "open", "envelope"}
  /\ Carrier(action) \subseteq InputNames(action)
  /\ \A arg \in inputs :
       /\ arg.name \in Seq(0 .. 127) /\ arg.required \in BOOLEAN /\ arg.binding \in BOOLEAN
       /\ arg.list \in {"none"} \cup DOMAIN Separators
       /\ arg.binding <=> arg.name \in variables
       /\ arg.binding => arg.required
       /\ arg.binding \/ action.derived => arg.list = "none"
  /\ \A group \in ToSet(action.groups) :
       /\ group.kind \in {"exactly-one", "at-least-one", "at-most-one"}
       /\ group.members \subseteq InputNames(action)

FieldsGiven(action, effective) ==
  Carrier(action) # {} /\ \E n \in InputNames(action) \ Carrier(action) : Given(effective, n)

(* Of an envelope, the fields are checked when they are proposed, and only  *)
(* the carrier otherwise.                                                   *)
InPlay(action, effective, arg) ==
  \/ Carrier(action) = {}
  \/ FieldsGiven(action, effective) /\ arg.name \notin Carrier(action)
  \/ ~FieldsGiven(action, effective) /\ (arg.binding \/ arg.name \in Carrier(action))

Checked(action, effective) ==
  Chosen(action.inputs,
         {i \in DOMAIN action.inputs : InPlay(action, effective, action.inputs[i])})

Unknown(action, pairs) ==
  LET names == Chosen([i \in DOMAIN pairs |-> pairs[i][1]],
                      {i \in DOMAIN pairs : pairs[i][1] \notin InputNames(action)})
  IN  FlattenSeq([i \in DOMAIN names |->
        Unless(\E j \in 1 .. (i - 1) : names[j] = names[i], "unknown", {names[i]})])

(* Every rule a proposed call breaks, in the order they are reported. *)
Violations(action, pairs) ==
  LET effective == JoinRepeats(action, pairs)
      checked   == Checked(action, effective)
      repeated  == Repeated(action, pairs)
  IN
  Unless(~(FieldsGiven(action, effective) /\ \E n \in Carrier(action) : Given(effective, n)),
         "envelope", Carrier(action))
  \o FlattenSeq([i \in DOMAIN checked |-> CheckInput(checked[i], effective, repeated)])
  \o FlattenSeq([i \in DOMAIN action.groups |-> CheckGroup(action.groups[i], effective)])
  \o IF action.arguments[1] = "open" THEN <<>> ELSE Unknown(action, pairs)
-----------------------------------------------------------------------------
(* The server's side: arguments are read one by one, in the order declared, *)
(* each from the name or from the call, and then the check is made.  An     *)
(* argument is inline, as text, or comes by reference.                      *)

PlainInteger(text) ==
  LET digits == IF text # <<>> /\ text[1] = 45 THEN Tail(text) ELSE text
  IN  Digits(digits) /\ (digits[1] = 48 => text = <<48>>)

(* A value the signature's type refuses (Python's int trims its text).      *)
Uncoercible(arg, value) ==
  \/ arg.list = "none" /\ \E values \in arg.oneOf : values # {} /\ value \notin values
  \/ arg.class = "boolean" /\ value \notin {True, False}
  \/ arg.class = "integer" /\ ~Digits(Unsigned(Trim(value)))

BadBinding(arg, text) ==
  IF arg.class = "integer" /\ \A values \in arg.oneOf : values = {}
  THEN ~PlainInteger(text) ELSE Uncoercible(arg, text)

Refusal(error, about) == [error |-> error, about |-> about]

(* How reading one argument fails: at most one failure. *)
ReadArgument(action, bindings, args, arg) ==
  IF arg.binding
  THEN IF BadBinding(arg, bindings[arg.name]) THEN <<Refusal("InvalidArgument", {arg.name})>> ELSE <<>>
  ELSE IF arg.name \in DOMAIN args
  THEN IF \/ args[arg.name][1] # "Inline"
          \/ action.derived /\ Uncoercible(arg, args[arg.name][2])
       THEN <<Refusal("InvalidArgument", {arg.name})>> ELSE <<>>
  ELSE IF arg.required THEN <<Refusal("MissingArgument", {arg.name})>> ELSE <<>>

Enforced == {"exactly-one", "at-least-one", "at-most-one", "needs", "envelope", "not-one-of"}

(* The pairs the server checks: the bindings, then what came inline. *)
FromName(action, bindings) ==
  LET bound == Chosen(action.inputs, {i \in DOMAIN action.inputs : action.inputs[i].binding})
  IN  [i \in DOMAIN bound |-> <<bound[i].name, bindings[bound[i].name]>>]

Proposed(action, bindings, args) ==
  LET inline == SetToSeq({n \in DOMAIN args : args[n][1] = "Inline"})
  IN  FromName(action, bindings)
      \o [i \in DOMAIN inline |-> <<inline[i], args[inline[i]][2]>>]

Preflight(action, bindings, args) ==
  LET violations == Violations(action, Proposed(action, bindings, args))
      enforced   == Chosen(violations, {i \in DOMAIN violations : violations[i].kind \in Enforced})
  IN  [i \in DOMAIN enforced |-> Refusal("InvalidArgument", enforced[i].about)]

Bug_NoPreflight(action, bindings, args) ==
  FlattenSeq([i \in DOMAIN action.inputs |->
                ReadArgument(action, bindings, args, action.inputs[i])])

(* Everything that keeps a call from its handler; the first is answered.    *)
Refusals(action, bindings, args) ==
  FlattenSeq([i \in DOMAIN action.inputs |->
                ReadArgument(action, bindings, args, action.inputs[i])])
  \o Preflight(action, bindings, args)
-----------------------------------------------------------------------------
(* What a contract asks of a call, said without the check's order, blanks   *)
(* and joins: the meaning the rules of ikigai/check.py have for a handler.  *)

Lists(value, arg) ==
  IF arg.list = "none" THEN {value} ELSE ToSet(SplitList(arg.list, value))

Lawful(action, bindings, args) ==
  LET inputs   == ToSet(action.inputs)
      bound    == {arg.name : arg \in {arg \in inputs : arg.binding}}
      present  == bound \cup DOMAIN args
      says(n)  == IF n \in bound THEN bindings[n] ELSE IF n \in DOMAIN args THEN args[n][2] ELSE <<>>
      given(n) == \E i \in DOMAIN says(n) : says(n)[i] \notin Whitespace
      carrier  == Carrier(action)
      fields   == {n \in InputNames(action) \ carrier : given(n)}
      asked    == IF carrier = {} THEN inputs
                  ELSE IF fields # {} THEN {arg \in inputs : arg.name \notin carrier}
                  ELSE {arg \in inputs : arg.binding \/ arg.name \in carrier}
  IN
  /\ \A n \in carrier : given(n) => fields = {}
  /\ \A arg \in inputs : arg.required => arg.name \in present
  /\ \A arg \in asked :
       arg.name \in present =>
         /\ \A values \in arg.oneOf : Lists(says(arg.name), arg) \subseteq values
         /\ \A value \in Lists(says(arg.name), arg) \cap DOMAIN arg.values :
              \A n \in arg.values[value] : given(n)
         /\ given(arg.name) => \A n \in arg.needs : given(n)
  /\ \A group \in ToSet(action.groups) :
       LET chosen == {m \in group.members : given(m)} IN
       CASE group.kind = "exactly-one"  -> \E m \in group.members : chosen = {m}
         [] group.kind = "at-least-one" -> chosen # {}
         [] group.kind = "at-most-one"  -> \A m, n \in chosen : m = n
=============================================================================
