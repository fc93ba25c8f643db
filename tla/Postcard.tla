------------------------------ MODULE Postcard ------------------------------
(***************************************************************************)
(* Values to bytes and back (ikigai/postcard.py, and the helpers of        *)
(* ikigai/wire.py over it).  A string is the sequence of its characters,   *)
(* all ASCII; a mapping is a function; a variant is a tuple, its name      *)
(* first.  A layout says how a value is laid out: Put writes by one, Get   *)
(* reads by one.  Get yields what it read with the bytes left, as a set:   *)
(* empty, it has refused.                                                  *)
(***************************************************************************)
EXTENDS Messages

CONSTANTS
  Bits32,     (* the width of a u32: 32 in the code                          *)
  Bits64      (* the width of a u64: 64                                      *)

ASSUME WidthsAssumption == Bits32 \in Nat \ {0} /\ Bits64 \in Nat /\ Bits32 <= Bits64
-----------------------------------------------------------------------------
(* Varints: seven bits to a byte, the lowest first, the top bit on all but *)
(* the last.                                                               *)

(* Mutants: an operator named Bug_* is what the definition that follows it  *)
(* would be with a plausible slip; no specification uses one.               *)
RECURSIVE PutVarint(_)
PutVarint(n) ==
  IF n < 128 THEN <<n>> ELSE <<128 + (n % 128)>> \o PutVarint(n \div 128)

RECURSIVE ValueOf(_)
ValueOf(groups) ==
  IF groups = <<>> THEN 0 ELSE (Head(groups) % 128) + 128 * ValueOf(Tail(groups))

After(k, bytes) == SubSeq(bytes, k + 1, Len(bytes))

(* A stream that runs long is refused, and so is a value that is too wide. *)
GetVarint(bits, bytes) ==
  {<<ValueOf(SubSeq(bytes, 1, k)), After(k, bytes)>> :
     k \in {k \in DOMAIN bytes :
              /\ bytes[k] < 128 /\ \A j \in 1 .. (k - 1) : bytes[j] >= 128
              /\ 7 * (k - 1) < bits + 7
              /\ ValueOf(SubSeq(bytes, 1, k)) < 2 ^ bits}}

Take(n, bytes) == IF n <= Len(bytes) THEN {<<SubSeq(bytes, 1, n), After(n, bytes)>>} ELSE {}

(* A slice past the end is a short one. *)
Bug_SliceBytes(bytes) ==
  {<<SubSeq(n[2], 1, IF n[1] <= Len(n[2]) THEN n[1] ELSE Len(n[2])), After(n[1], n[2])>> :
     n \in GetVarint(Bits64, bytes)}

GetBytes(bytes) == UNION {Take(n[1], n[2]) : n \in GetVarint(Bits64, bytes)}

(* A byte past ASCII stands for what is not UTF-8. *)
GetString(bytes) == {s \in GetBytes(bytes) : \A i \in DOMAIN s[1] : s[1][i] < 128}

GetFlag(bytes) == {<<b[1][1] = 1, b[2]>> : b \in {b \in Take(1, bytes) : b[1][1] < 2}}
-----------------------------------------------------------------------------
(* The shapes a layout is made of.  Fields follow one another; a choice is *)
(* a variant's index, then its fields.                                     *)

Num(bits)      == <<"num", bits>>
Below(n)       == <<"below", n>>          \* an enumeration without fields
Str            == <<"string">>
Raw            == <<"bytes">>
Flag           == <<"flag">>
Opt(t)         == <<"option", t>>
Many(t)        == <<"many", t>>
Names          == <<"names">>             \* a set of strings
Table(t, dup)  == <<"table", t, dup>>     \* dup: what a repeated key does
Fields(ts)     == <<"fields", ts>>
Choice(c)      == <<"choice", c, {}>>
Open(c, v)     == <<"choice", c, {v}>>    \* v: what an unknown variant reads as

RECURSIVE Put(_, _), PutFields(_, _)
PutFields(ts, vs) == IF ts = <<>> THEN <<>> ELSE Put(Head(ts), Head(vs)) \o PutFields(Tail(ts), Tail(vs))

PutEach(t, vs) == PutVarint(Len(vs)) \o PutFields([i \in DOMAIN vs |-> t], vs)

(* A choice is written by the entry of the variant's name: its index and    *)
(* its fields' layouts.                                                     *)
Put(t, v) ==
  CASE t[1] \in {"num", "below"}    -> PutVarint(v)
    [] t[1] \in {"string", "bytes"} -> PutVarint(Len(v)) \o v
    [] t[1] = "flag"   -> IF v THEN <<1>> ELSE <<0>>
    [] t[1] = "option" -> IF v = <<>> THEN <<0>> ELSE <<1>> \o Put(t[2], v[1])
    [] t[1] = "many"   -> PutEach(t[2], v)
    [] t[1] = "names"  -> PutEach(Str, Sorted(v))
    [] t[1] = "table"  -> LET keys == Sorted(DOMAIN v)
                          IN  PutEach(Fields(<<Str, t[2]>>),
                                      [i \in DOMAIN keys |-> <<keys[i], v[keys[i]]>>])
    [] t[1] = "fields" -> PutFields(t[2], v)
    [] t[1] = "choice" -> LET variant == t[2][v[1]]
                          IN  PutVarint(variant[1]) \o PutFields(variant[2], Tail(v))

RECURSIVE Get(_, _), GetFields(_, _)
GetFields(ts, bytes) ==
  IF ts = <<>> THEN {<< <<>>, bytes>>}
  ELSE UNION {{<< <<f[1]>> \o rest[1], rest[2]>> : rest \in GetFields(Tail(ts), f[2])} :
                f \in Get(Head(ts), bytes)}

GetEach(t, bytes) ==
  UNION {GetFields([i \in 1 .. n[1] |-> t], n[2]) : n \in GetVarint(Bits64, bytes)}

(* The value of the last pair with this key. *)
Keyed(pairs) ==
  [key \in {pairs[i][1] : i \in DOMAIN pairs} |->
     pairs[CHOOSE i \in DOMAIN pairs :
             pairs[i][1] = key /\ \A j \in DOMAIN pairs : pairs[j][1] = key => j <= i][2]]

(* A choice is read by the entry of its index: the variant's name and its   *)
(* fields' layouts.  An index without an entry is a corrupt frame, unless   *)
(* the choice is open: then the rest of the frame is skipped.               *)
Get(t, bytes) ==
  CASE t[1] = "num"    -> GetVarint(t[2], bytes)
    [] t[1] = "below"  -> {n \in GetVarint(Bits32, bytes) : n[1] < t[2]}
    [] t[1] = "string" -> GetString(bytes)
    [] t[1] = "bytes"  -> GetBytes(bytes)
    [] t[1] = "flag"   -> GetFlag(bytes)
    [] t[1] = "option" ->
         UNION {IF some[1] THEN {<< <<v[1]>>, v[2]>> : v \in Get(t[2], some[2])}
                ELSE {<< <<>>, some[2]>>} : some \in GetFlag(bytes)}
    [] t[1] = "many"   -> GetEach(t[2], bytes)
    [] t[1] = "names"  -> {<<{vs[1][i] : i \in DOMAIN vs[1]}, vs[2]>> : vs \in GetEach(Str, bytes)}
    [] t[1] = "table"  ->
         {<<Keyed(vs[1]), vs[2]>> :
            vs \in {vs \in GetEach(Fields(<<Str, t[2]>>), bytes) :
                      t[3] = "last" \/ \A i, j \in DOMAIN vs[1] :
                                         vs[1][i][1] = vs[1][j][1] => i = j}}
    [] t[1] = "fields" -> GetFields(t[2], bytes)
    [] t[1] = "choice" ->
         UNION {IF n[1] \in DOMAIN t[2]
                THEN LET variant == t[2][n[1]]
                     IN  {<< <<variant[1]>> \o vs[1], vs[2]>> : vs \in GetFields(variant[2], n[2])}
                ELSE {<<v, <<>> >> : v \in t[3]} : n \in GetVarint(Bits32, bytes)}

(* A message is read whole: what is left over is refused. *)
Exactly(t, bytes) == {v[1] : v \in {v \in Get(t, bytes) : v[2] = <<>>}}
=============================================================================
