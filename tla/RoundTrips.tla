----------------------------- MODULE RoundTrips -----------------------------
(***************************************************************************)
(* What every client of the package promises about its calls, whatever the *)
(* transport under it: calls are carried one at a time, each is handed to  *)
(* the peer at most once, or twice when it may be replayed, and none ends  *)
(* with a reply before the peer was handed it.  The clients implement this *)
(* specification; it models no code of its own.                            *)
(***************************************************************************)
EXTENDS Naturals

CONSTANTS
  Calls,      (* the calls made on one client           *)
  Replayable  (* those that may be handed over twice    *)

VARIABLES
  phase,   (* where each call is                              *)
  heard,   (* how often the peer was handed each call         *)
  replied  (* the calls that ended with a reply               *)

rtVars == <<phase, heard, replied>>

Limit(c) == IF c \in Replayable THEN 2 ELSE 1

Init ==
  /\ phase = [c \in Calls |-> "idle"]
  /\ heard = [c \in Calls |-> 0]
  /\ replied = {}

Ask(c) ==
  /\ phase[c] = "idle"
  /\ phase' = [phase EXCEPT ![c] = "waiting"]
  /\ UNCHANGED <<heard, replied>>

Hand(c) ==
  /\ heard[c] < Limit(c)
  /\ heard' = [heard EXCEPT ![c] = @ + 1]

(* The call gets the connection to itself; it may be handed over at once. *)
Begin(c) ==
  /\ phase[c] = "waiting"
  /\ \A d \in Calls : phase[d] # "active"
  /\ phase' = [phase EXCEPT ![c] = "active"]
  /\ Hand(c) \/ UNCHANGED heard
  /\ UNCHANGED replied

HandOver(c) ==
  /\ phase[c] = "active"
  /\ Hand(c)
  /\ UNCHANGED <<phase, replied>>

End(c) ==
  /\ phase[c] \in {"waiting", "active"}
  /\ phase' = [phase EXCEPT ![c] = "done"]
  /\ \/ UNCHANGED replied
     \/ /\ phase[c] = "active" /\ heard[c] > 0
        /\ replied' = replied \cup {c}
  /\ UNCHANGED heard

Next == \E c \in Calls : Ask(c) \/ Begin(c) \/ HandOver(c) \/ End(c)

Spec == Init /\ [][Next]_rtVars

(* A call that was asked for ends. *)
FairSpec == Spec /\ \A c \in Calls : WF_rtVars(End(c))
=============================================================================
