------------------------------- MODULE MCSpace -------------------------------
(* Space for TLC: the doors differ in what is declared, marked and required, *)
(* the capabilities in the ways a scope is covered or is not.                *)
EXTENDS Space

CONSTANTS t1, t2, n, m, read, any, except, ann, bob, run1, run2

(* any is `urn:cap:fs:*`, read and except are held under it. *)
FsScopes == [s \in {any} |-> {any, read, except}]

Carried ==
  {[root |-> TRUE, held |-> {}]} \cup
  {[root |-> FALSE, held |-> h] : h \in {{}, {read}, {except}, {ann}, {ann, bob}}}

Asked(v, name, cap, args, r) ==
  [verb |-> v, name |-> name, cap |-> cap, args |-> args, run |-> r,
   traced |-> r # Nothing]

(* One peer makes every kind of call: plain, with a run and asking for a    *)
(* trace, and with arguments no contract admits.  The other reads and asks. *)
SomeCalls ==
  [t \in {t1, t2} |->
     IF t = t1
       THEN {Asked(v, name, cap, args, Nothing) :
               v \in Verbs, name \in Names, cap \in Carried,
               args \in {"fit", "missing", "invalid"}}
            \cup {Asked(v, n, cap, "fit", run1) : v \in Verbs, cap \in Carried}
       ELSE {Asked(v, n, cap, "fit", run2) :
               v \in {"Source", "Exists"}, cap \in Carried}]

Does(scopes, marked, cacheable) ==
  [requires |-> scopes, marked |-> marked, cacheable |-> cacheable]

Door(declared, aliased, flat, actions) ==
  [declared |-> declared, aliased |-> aliased, flat |-> flat, actions |-> actions]

(* A public page for every name, declared after what it must not hide. *)
Page == Door({n, m}, {}, TRUE, [v \in {"Source"} |-> Does({}, FALSE, TRUE)])

Vault == Door({n}, {}, FALSE,
  [v \in {"Source", "Sink"} |->
     IF v = "Source" THEN Does({read}, FALSE, TRUE) ELSE Does({ann}, TRUE, FALSE)])

Diary == Door({n}, {m}, FALSE,
  [v \in {"Source", "Delete"} |->
     IF v = "Source" THEN Does({ann}, TRUE, TRUE) ELSE Does({ann, read}, TRUE, FALSE)])

Files == Door({n}, {}, TRUE, [v \in {"Source"} |-> Does({any}, TRUE, FALSE)])

Inbox == Door({m}, {n}, FALSE,
  [v \in {"Sink", "Exists"} |->
     IF v = "Sink" THEN Does({}, FALSE, FALSE) ELSE Does({except}, TRUE, TRUE)])

SomeSpaces == {<<Vault, Page>>, <<Diary>>, <<Files, Inbox>>, <<Inbox, Diary>>}
=============================================================================
