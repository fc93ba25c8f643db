----------------------------- MODULE MCExchange -----------------------------
(* Instances of Exchange: doors whose contracts use every rule of the check, *)
(* calls that keep and break each, every failure, and every pair of versions *)
(* of which one side is this package's.                                      *)
EXTENDS Exchange, Wire

Char(c) == <<c>>
a == Char(97)  b == Char(98)  c == Char(99)  d == Char(100)
m == Char(109) n == Char(110) x == Char(120) y == Char(121)
blank == Char(32)
colon == Char(58)

MCPeers == {p \in [client : 7 .. 9, server : 7 .. 9] : p.client = 9 \/ p.server = 9}

Free(name) == [name |-> name, required |-> FALSE, binding |-> FALSE, class |-> "any",
               oneOf |-> {}, list |-> "none", needs |-> {}, values |-> <<>>]
Needed(arg) == [arg EXCEPT !.required = TRUE]
Bound(name) == [Free(name) EXCEPT !.binding = TRUE, !.required = TRUE]

Act(inputs, groups, arguments, derived) ==
  [inputs |-> inputs, groups |-> groups, arguments |-> arguments, derived |-> derived]

(* a must be one of x, y; y needs b; b needs c; exactly one of c, d. *)
Ruled ==
  Act(<<Needed([Free(a) EXCEPT !.oneOf = {{x, y}}, !.values = (y :> {b})]),
        [Free(b) EXCEPT !.needs = {c}], Free(c), Free(d)>>,
      <<[kind |-> "exactly-one", members |-> {c, d}]>>, <<"closed">>, FALSE)

(* a list of x, y; d of nothing; at most one of b, c; at least one of a, b, c. *)
Listed ==
  Act(<<[Free(a) EXCEPT !.oneOf = {{x, y}}, !.list = "commaOrWhitespace"], Free(b), Free(c),
        [Free(d) EXCEPT !.oneOf = {{}}]>>,
      <<[kind |-> "at-most-one", members |-> {b, c}],
        [kind |-> "at-least-one", members |-> {a, b, c}]>>, <<"open", a>>, FALSE)

(* A family, its signature the contract. *)
Derived ==
  Act(<<Bound(n), Bound(m), [Free(a) EXCEPT !.class = "integer"],
        [Free(b) EXCEPT !.class = "boolean"], [Free(c) EXCEPT !.oneOf = {{y}}]>>,
      <<>>, <<"closed">>, TRUE)

Enveloped == Act(<<Free(c), Free(a), Free(b)>>, <<>>, <<"envelope", c>>, FALSE)

(* A body that is given whole as c or by its field a, both required. *)
Demanding == Act(<<Needed(Free(c)), Needed(Free(a)), Free(b)>>, <<>>, <<"envelope", c>>, FALSE)

(* The same by signature: a is refused by its type where the check passes it over. *)
Typed == Act(<<Free(c), [Free(a) EXCEPT !.oneOf = {{x, y}}]>>, <<>>, <<"envelope", c>>, TRUE)

(* A family with a body, whose name counts as a field; and one of numbers. *)
Addressed == Act(<<Bound(n), Free(c), Free(a)>>, <<>>, <<"envelope", c>>, FALSE)
Numbered  == Act(<<[Bound(n) EXCEPT !.class = "integer"], [Free(a) EXCEPT !.needs = {n}]>>,
                 <<>>, <<"closed">>, FALSE)

Plain == Act(<<Free(a)>>, <<>>, <<"closed">>, FALSE)

Flat(action) == [parts |-> <<Literal(x)>>, verb |-> 0, action |-> action]

Family == [parts |-> <<Literal(x), Variable(n), Literal(colon \o colon), Variable(m)>>,
           verb |-> 0, action |-> Derived]

Item(action) == [parts |-> <<Literal(x), Variable(n)>>, verb |-> 0, action |-> action]

Ask(kind, bindings, pairs, capability, retries, timeLeft, large) ==
  [kind |-> kind, bindings |-> bindings, pairs |-> pairs, capability |-> capability,
   retries |-> retries, timeLeft |-> timeLeft, large |-> large]

Issue(pairs)        == Ask("issue", <<>>, pairs, <<>>, <<>>, <<>>, FALSE)
Named(p, q, pairs)  == [Issue(pairs) EXCEPT !.bindings = (n :> p) @@ (m :> q)]

Scoped(scopes) == <<<<"Scoped", scopes>>>>

Simple == Issue(<<<<a, y>>>>)
Large  == [Issue(<<<<a, x \o x \o x>>>>) EXCEPT !.large = TRUE]
Second  == Ask("traced", <<>>, <<<<a, y \o y \o y \o y>>>>, Scoped({b, a}), <<1023>>, <<300>>, FALSE)

(* Every form a call may take. *)
PlainCalls ==
  {Ask(kind, <<>>, <<<<a, y>>>>, capability, <<>>, <<>>, FALSE) :
     kind \in {"issue", "traced"}, capability \in {<<>>, <<Root>>, Scoped({}), Scoped({b, a})}}
  \cup {Ask(kind, <<>>, <<>>, capability, <<0>>, <<300>>, FALSE) :
           kind \in {"issue", "traced"}, capability \in {<<>>, Scoped({a})}}
  \cup {Ask("issue", <<>>, <<>>, <<>>, <<1023>>, <<>>, FALSE),
        Ask("issue", <<>>, <<>>, <<>>, <<>>, <<32767>>, FALSE)}
  \cup {[Issue(<<>>) EXCEPT !.kind = k] : k \in {"entries", "is_cached"}}
  \cup {Simple, Large}

RuledCalls ==
  {Issue(pairs) : pairs \in {<<<<a, x>>, <<c, x>>>>, <<<<a, x>>, <<c, x>>, <<d, blank>>>>,
     <<<<a, y>>, <<d, x>>>>, <<<<a, y>>, <<b, x>>, <<d, x>>>>, <<<<a, y>>, <<b, x>>, <<c, x>>>>,
     <<<<c, x>>>>, <<<<a, a>>, <<c, x>>>>, <<<<a, x>>>>, <<<<a, x>>, <<c, blank>>>>,
     <<<<a, x>>, <<a, y>>, <<d, x>>>>, <<<<a, x>>, <<n, x>>, <<d, x>>>>}}

ListedCalls ==
  {Issue(pairs) : pairs \in {<<<<a, x>>, <<a, y>>>>, <<<<a, x \o blank \o y>>, <<b, x>>>>,
     <<<<a, blank \o x \o Char(44) \o Char(44)>>>>, <<<<a, blank>>>>, <<<<a, x \o a>>>>,
     <<<<b, x>>, <<c, y>>>>, <<<<b, blank>>, <<c, y>>>>, <<<<n, x>>>>, <<<<a, x>>, <<d, x>>>>, <<>>}}

DerivedCalls ==
  {Named(a, b, pairs) : pairs \in {<<>>, <<<<a, Char(49)>>>>, <<<<a, x>>>>, <<<<b, True>>>>,
     <<<<b, x>>>>, <<<<c, x>>>>, <<<<n, x>>>>}}
  \cup {Named(p, q, <<>>) : p \in {a \o colon, a \o colon \o colon \o b, a}, q \in {b, colon \o b}}

EnvelopedCalls ==
  {Issue(pairs) : pairs \in {<<<<c, x>>>>, <<<<a, x>>, <<b, y>>>>, <<<<c, x>>, <<a, x>>>>,
     <<<<c, x>>, <<a, blank>>>>, <<>>}}

ItemCalls ==
  {[Issue(pairs) EXCEPT !.bindings = (n :> name)] :
     name \in {Char(49), <<48, 49>>, blank}, pairs \in {<<<<a, x>>>>, <<<<c, x>>>>}}

MCDoors == {Flat(Plain), Flat(Ruled), Flat(Listed), Family, Flat(Enveloped), Flat(Demanding),
            Flat(Typed), Item(Addressed), Item(Numbered)}

MCFirstIntents ==
  [dr \in MCDoors |->
     CASE dr = Flat(Plain)  -> PlainCalls
       [] dr = Flat(Ruled)  -> RuledCalls
       [] dr = Flat(Listed) -> ListedCalls
       [] dr = Family       -> DerivedCalls
       [] dr.parts = Item(Plain).parts -> ItemCalls
       [] OTHER               -> EnvelopedCalls]

MCLaterIntents ==
  [dr \in MCDoors |->
     IF dr = Flat(Plain) THEN {Second} ELSE {}]

MCFailures ==
  {<<"Unresolved", a>>, <<"MissingArgument", a>>, <<"InvalidArgument", a, b>>, <<"Endpoint", b>>,
   <<"Denied", b>>, <<"NotFound", b>>, <<"Timeout", b>>, <<"Unavailable", b>>, <<"Conflict", b>>,
   <<"DepthExceeded", 3, a>>, <<"RetryAfter", <<>>, b>>, <<"RetryAfter", <<300>>, b>>,
   <<"OverBudget", b>>, <<"Refused", b>>, <<"Unsupported", <<>>, b>>, <<"Unsupported", <<1>>, b>>}

MCFailure == <<"Timeout", b>>
MCResult  == << <<x, <<>>, <<>>, <<"Always">> >>, 2>>

MCResults ==
  {MCResult,
   << <<x, (b :> y) @@ (a :> x), <<200, 0>>, <<"At", 300>> >>, 1>>,
   << <<x \o y, (a :> <<>>), y, <<"Never">> >>, 0>>}

(* What is combined with what: the versions and the mount modes with the    *)
(* forms of a call, the failures with the simplest call, a second call with *)
(* the simplest first one and with one written in part; a part kept to be   *)
(* written later, with one pair of versions.                                *)
Combined ==
  /\ unsent # <<>> => peers = [client |-> 9, server |-> 9]
  /\ door # Flat(Plain) => peers = [client |-> 9, server |-> 9] /\ mode = 0
  /\ mode = 1 => made = <<>>
  /\ Len(made) = 2 => made[1] \in {Simple, Large}
  /\ answered # <<>> /\ 1 \in entered =>
       \/ made[1] = Simple /\ (Len(made) = 1 \/ answered[1][2] \in {MCFailure, MCResult[1]})
       \/ answered[1][2] = MCResult[1]
=============================================================================
