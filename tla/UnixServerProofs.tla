--------------------------- MODULE UnixServerProofs ---------------------------
(***************************************************************************)
(* Proofs about UnixServer, for every number of servers, clients and       *)
(* shutdown() calls and all version ranges: which server the path leads    *)
(* to, and the version that is agreed.                                     *)
(*                                                                         *)
(* The two do not lean on each other.  The path needs to know that at most *)
(* one server is not down, when they are Orderly; the version, that a      *)
(* client which was led away from its first server never meets it again,   *)
(* because a server binds the path once.                                   *)
(***************************************************************************)
EXTENDS UnixServer, TLAPS

(* The parts of the state the proofs need, with their types. *)
Types ==
  /\ up \in [Servers -> {"new", "cleared", "up", "failed", "crashed"}]
  /\ speaks \in [Servers -> Speaks \cup {Mine}]
  /\ path \in Servers \cup {Nobody}
  /\ closing \in [Servers -> BOOLEAN]
  /\ stop \in [Stops -> {"idle", "nudge", "close", "unlink", "done"}]
  /\ target \in [Stops -> Servers \cup {Nobody}]
  /\ client \in [Clients -> {"dial", "sent"} \cup Ended]
  /\ offered \in [Clients -> Nat]
  /\ first \in [Clients -> Servers \cup {Nobody}]
  /\ at \in [Clients -> Servers \cup {Nobody}]
  /\ answer \in [Clients -> Nat]
  /\ \A c \in Clients : client[c] = "sent" => at[c] \in Servers

LEMMA TypesInit == Init => Types
<1> USE RangesAssumption
<1> QED BY DEF Init, Types, Ended

LEMMA TypesStep == Types /\ [Next]_vars => Types'
<1> SUFFICES ASSUME Types, [Next]_vars PROVE Types'
  OBVIOUS
<1> USE SetsAssumption DEF Types, Ended, serverVars, loopVars, stopVars, clientVars, linkVars
<1>1. ASSUME NEW s \in Servers, Clear(s) PROVE Types'
  BY <1>1 DEF Clear
<1>2. ASSUME NEW s \in Servers, Bind(s) PROVE Types'
  BY <1>2 DEF Bind
<1>3. ASSUME NEW s \in Servers, ServeForever(s) \/ Serves(s) PROVE Types'
  BY <1>3 DEF ServeForever, Serves, CallAccept, Accept, Check
<1>4. ASSUME NEW s \in Servers, Crash(s) PROVE Types'
  BY <1>4 DEF Crash
<1>5. ASSUME NEW t \in Stops, NEW s \in Servers, Shutdown(t, s) PROVE Types'
  BY <1>5 DEF Shutdown
<1>6. ASSUME NEW t \in Stops, Stop(t) PROVE Types'
  BY <1>6 DEF Stop, Nudge, CloseListener, Unlink
<1>7. ASSUME NEW c \in Clients, Dials(c) PROVE Types'
  <2>1. CASE Dial(c)
    <3>1. CASE ~Reachable
      BY <2>1, <3>1 DEF Dial
    <3>2. CASE Reachable
      <4>1. path \in Servers
        BY <3>2 DEF Reachable
      <4>2. \A d \in Clients : client'[d] = "sent" => at'[d] \in Servers
        BY <2>1, <3>2, <4>1 DEF Dial
      <4>3. /\ at' = [at EXCEPT ![c] = path]
            /\ first' = [first EXCEPT ![c] = IF first[c] = Nobody THEN path ELSE first[c]]
            /\ answer' = [answer EXCEPT ![c] = 0]
            /\ client' = [client EXCEPT ![c] = "sent"]
        BY <2>1, <3>2 DEF Dial
      <4>5. first' \in [Clients -> Servers \cup {Nobody}]
        BY <4>1, <4>3
      <4>4. UNCHANGED <<serverVars, stopVars, offered>>
        BY <2>1 DEF Dial
      <4> QED BY <4>1, <4>2, <4>3, <4>4, <4>5
    <3> QED BY <3>1, <3>2
  <2>2. CASE Answered(c)
    <3>1. /\ offered' \in [Clients -> Nat]
          /\ client' \in [Clients -> {"dial", "sent"} \cup Ended]
          /\ \A d \in Clients : client'[d] = "sent" => client[d] = "sent"
      BY <2>2 DEF Answered
    <3> QED BY <2>2, <3>1 DEF Answered
  <2>3. CASE HungUp(c) \/ Silent(c)
    BY <2>3 DEF HungUp, Silent
  <2> QED BY <1>7, <2>1, <2>2, <2>3 DEF Dials
<1>8. ASSUME NEW c \in Clients, Hello(c) PROVE Types'
  <2>1. client[c] = "sent" => speaks[at[c]].newest \in Nat
    BY RangesAssumption
  <2>2. answer' \in [Clients -> Nat]
    BY <1>8, <2>1 DEF Hello
  <2> QED BY <1>8, <2>2 DEF Hello
<1>9. ASSUME NEW c \in Clients, PeerHungUp(c) \/ CloseClient(c) PROVE Types'
  BY <1>9 DEF PeerHungUp, CloseClient
<1>10. CASE UNCHANGED vars
  BY <1>10 DEF vars
<1> QED
  BY <1>1, <1>2, <1>3, <1>4, <1>5, <1>6, <1>7, <1>8, <1>9, <1>10 DEF Next

-----------------------------------------------------------------------------
(* The path. *)

(* A shutdown() under way is of a server that is up and closing; one that  *)
(* was not made has no target.                                             *)
StopInv ==
  \A t \in Stops :
    /\ stop[t] = "idle" => target[t] = Nobody
    /\ stop[t] \in {"nudge", "close", "unlink"} =>
         target[t] \in Servers /\ up[target[t]] = "up" /\ closing[target[t]]

(* Only a server that is up is closing. *)
ClosingInv == \A s \in Servers : closing[s] => up[s] = "up"

OneServes == \A s, d \in Servers : ~Down(s) /\ ~Down(d) => s = d

PathInv ==
  \A s \in Servers :
    /\ up[s] = "cleared" => path = Nobody
    /\ up[s] = "up" /\ ~closing[s] => path = s
    /\ up[s] # "failed"

OrderInv == StopInv /\ ClosingInv /\ (Orderly => OneServes /\ PathInv)

LEMMA OrderInit == Init => OrderInv
BY DEF Init, OrderInv, StopInv, ClosingInv, OneServes, PathInv, Down

LEMMA OrderStep == Types /\ OrderInv /\ [Next]_vars => OrderInv'
<1> SUFFICES ASSUME Types, OrderInv, [Next]_vars PROVE OrderInv'
  OBVIOUS
<1> USE SetsAssumption DEF serverVars, loopVars, stopVars, clientVars, linkVars
<1>1. ASSUME NEW s \in Servers, Clear(s) PROVE OrderInv'
  <2> USE <1>1 DEF Clear, Types
  <2>1. StopInv' /\ ClosingInv'
    BY DEF OrderInv, StopInv, ClosingInv
  <2>2. ASSUME Orderly PROVE OneServes'
    <3>1. \A d \in Servers \ {s} : Down(d)
      BY <2>2 DEF MayStart
    <3>2. \A d \in Servers \ {s} : Down(d)'
      BY <3>1 DEF Down
    <3> QED BY <3>2 DEF OneServes
  <2>3. ASSUME Orderly PROVE PathInv'
    <3>1. \A d \in Servers \ {s} : Down(d)
      BY <2>3 DEF MayStart
    <3>2. \A d \in Servers \ {s} : up[d] = "up" => closing[d]
      BY <3>1 DEF Down
    <3> QED BY <3>2, <2>3 DEF PathInv, OrderInv
  <2> QED BY <2>1, <2>2, <2>3 DEF OrderInv
<1>2. ASSUME NEW s \in Servers, Bind(s) PROVE OrderInv'
  <2> USE <1>2 DEF Bind, Types
  <2>1. StopInv' /\ ClosingInv'
    BY DEF OrderInv, StopInv, ClosingInv
  <2>2. ASSUME Orderly PROVE OneServes' /\ PathInv'
    <3>1. OneServes /\ PathInv
      BY <2>2 DEF OrderInv
    <3>2. ~Down(s) /\ path = Nobody
      BY <3>1 DEF PathInv, OrderInv, ClosingInv, Down
    <3>3. \A d \in Servers \ {s} : Down(d)
      BY <3>1, <3>2 DEF OneServes
    <3>4. \A d \in Servers \ {s} : Down(d)'
      BY <3>3 DEF Down
    <3>5. \A d \in Servers \ {s} : up[d] = "up" => closing[d]
      BY <3>3 DEF Down
    <3>6. \A d \in Servers \ {s} : up[d] # "cleared"
      BY <3>3, <3>1, <3>2 DEF Down, OrderInv, ClosingInv
    <3> QED BY <3>1, <3>2, <3>4, <3>5, <3>6 DEF OneServes, PathInv
  <2> QED BY <2>1, <2>2 DEF OrderInv
<1>3. ASSUME UNCHANGED <<up, path, closing, stop, target>> PROVE OrderInv'
  BY <1>3 DEF OrderInv, StopInv, ClosingInv, OneServes, PathInv, Down
<1>4. ASSUME NEW s \in Servers, Crash(s) PROVE OrderInv'
  <2> USE <1>4 DEF Crash, Types
  <2>1. StopInv' /\ ClosingInv'
    BY DEF OrderInv, StopInv, ClosingInv
  <2>2. \A d \in Servers : Down(d) => Down(d)'
    BY DEF Down
  <2>3. Down(s)'
    BY DEF Down
  <2>4. ASSUME Orderly PROVE OneServes' /\ PathInv'
    BY <2>2, <2>3, <2>4 DEF OrderInv, OneServes, PathInv
  <2> QED BY <2>1, <2>4 DEF OrderInv
<1>5. ASSUME NEW t \in Stops, NEW s \in Servers, Shutdown(t, s) PROVE OrderInv'
  <2> USE <1>5 DEF Shutdown, MayStop, Types
  <2>1. StopInv' /\ ClosingInv'
    BY DEF OrderInv, StopInv, ClosingInv
  <2>2. ASSUME Orderly PROVE OneServes'
    <3>1. ~Down(s)
      BY <2>2
    <3>2. \A d \in Servers \ {s} : Down(d)
      BY <2>2, <3>1 DEF OrderInv, OneServes
    <3>3. \A d \in Servers \ {s} : Down(d)'
      BY <3>2 DEF Down
    <3> QED BY <3>3 DEF OneServes
  <2>3. ASSUME Orderly PROVE PathInv'
    BY <2>3 DEF OrderInv, PathInv
  <2> QED BY <2>1, <2>2, <2>3 DEF OrderInv
<1>6. ASSUME NEW t \in Stops, Nudge(t) \/ CloseListener(t) PROVE OrderInv'
  <2> USE <1>6 DEF Nudge, CloseListener, Types
  <2>1. stop[t] \in {"nudge", "close"} /\ stop'[t] \in {"close", "unlink"}
        /\ UNCHANGED <<up, path, closing, target>>
        /\ \A u \in Stops \ {t} : stop'[u] = stop[u]
    OBVIOUS
  <2>2. StopInv' /\ ClosingInv'
    BY <2>1 DEF OrderInv, StopInv, ClosingInv
  <2>3. \A d \in Servers : Down(d) <=> Down(d)'
    BY <2>1 DEF Down
  <2>4. ASSUME Orderly PROVE OneServes' /\ PathInv'
    BY <2>1, <2>3, <2>4 DEF OrderInv, OneServes, PathInv
  <2> QED BY <2>2, <2>4 DEF OrderInv
<1>7. ASSUME NEW t \in Stops, Unlink(t) PROVE OrderInv'
  <2> USE <1>7 DEF Unlink, Types
  <2>1. StopInv' /\ ClosingInv'
    BY DEF OrderInv, StopInv, ClosingInv
  <2>2. \A d \in Servers : Down(d) => Down(d)'
    BY DEF Down
  <2>3. ASSUME Orderly PROVE OneServes' /\ PathInv'
    <3> DEFINE x == target[t]
    <3>1. x \in Servers /\ up[x] = "up" /\ closing[x] /\ ~Down(x)
      BY DEF OrderInv, StopInv, Down
    <3>2. \A d \in Servers : up[d] = "up" => closing[d]
      BY <3>1, <2>3 DEF OrderInv, OneServes, Down
    <3> QED BY <2>2, <3>2, <2>3 DEF OrderInv, OneServes, PathInv
  <2> QED BY <2>1, <2>3 DEF OrderInv
<1> QED
  BY <1>1, <1>2, <1>3, <1>4, <1>5, <1>6, <1>7
  DEF Next, Stop, vars, ServeForever, Serves, CallAccept, Accept, Check, Dials, Dial, Answered,
      HungUp, Silent, Hello, PeerHungUp, CloseClient

-----------------------------------------------------------------------------
(* The version. *)

(* A server that was reached has bound the path, and it binds it once. *)
Bound(s) == s \in Servers /\ up[s] \notin {"new", "cleared"}

ReachedInv ==
  /\ path # Nobody => Bound(path)
  /\ \A c \in Clients :
       /\ at[c] # Nobody <=> first[c] # Nobody
       /\ at[c] # Nobody => Bound(at[c]) /\ Bound(first[c])
       /\ at[c] # first[c] => path # first[c]

(* What an answer says of the server that gave it. *)
AnswerInv ==
  \A c \in Clients :
    /\ Mine.min <= offered[c] /\ offered[c] <= Mine.newest
    /\ first[c] = Nobody => offered[c] = Mine.newest /\ client[c] # "sent"
    /\ client[c] = "sent" /\ answer[c] # 0 =>
         \/ answer[c] = offered[c] /\ Accepts(speaks[at[c]], offered[c])
         \/ answer[c] = speaks[at[c]].newest /\ ~Accepts(speaks[at[c]], offered[c])

(* No version both sides speak was passed over. *)
BestInv ==
  \A c \in Clients :
    at[c] # Nobody /\ first[c] = at[c] =>
      \A v \in Common(speaks[at[c]]) : v <= offered[c]

VersionInv == ReachedInv /\ AnswerInv /\ BestInv /\ NegotiatesBest

LEMMA VersionInit == Init => VersionInv
<1> USE SetsAssumption, RangesAssumption
<1> SUFFICES ASSUME Init PROVE VersionInv
  OBVIOUS
<1>1. ReachedInv
  BY DEF Init, ReachedInv
<1>2. AnswerInv
  BY DEF Init, AnswerInv
<1>3. BestInv /\ NegotiatesBest
  BY DEF Init, BestInv, NegotiatesBest
<1> QED BY <1>1, <1>2, <1>3 DEF VersionInv

LEMMA ReachedStep == Types /\ ReachedInv /\ [Next]_vars => ReachedInv'
<1> SUFFICES ASSUME Types, ReachedInv, [Next]_vars PROVE ReachedInv'
  OBVIOUS
<1> USE SetsAssumption DEF serverVars, loopVars, stopVars, clientVars, linkVars
<1>1. ASSUME NEW s \in Servers, Clear(s) PROVE ReachedInv'
  BY <1>1 DEF Clear, ReachedInv, Bound, Types
<1>2. ASSUME NEW s \in Servers, Bind(s) PROVE ReachedInv'
  BY <1>2 DEF Bind, ReachedInv, Bound, Types
<1>3. ASSUME UNCHANGED <<up, path, first, at>> PROVE ReachedInv'
  BY <1>3 DEF ReachedInv, Bound
<1>4. ASSUME NEW s \in Servers, Crash(s) PROVE ReachedInv'
  BY <1>4 DEF Crash, ReachedInv, Bound, Types
<1>5. ASSUME NEW t \in Stops, Unlink(t) PROVE ReachedInv'
  BY <1>5 DEF Unlink, ReachedInv, Bound, Types
<1>6. ASSUME NEW c \in Clients, Dial(c) PROVE ReachedInv'
  BY <1>6 DEF Dial, ReachedInv, Bound, Reachable, Types
<1> QED
  BY <1>1, <1>2, <1>3, <1>4, <1>5, <1>6
  DEF Next, Stop, vars, ServeForever, Serves, CallAccept, Accept, Check, Dials, Answered, Shutdown,
      Nudge, CloseListener, HungUp, Silent, Hello, PeerHungUp, CloseClient

(* What reading an answer comes to, in numbers. *)
LEMMA Judged ==
  ASSUME NEW r \in Speaks \cup {Mine}, NEW o \in Nat, NEW a \in Nat,
         Mine.min <= o, o <= Mine.newest,
         \/ a = o /\ Accepts(r, o)
         \/ a = r.newest /\ ~Accepts(r, o)
  PROVE  /\ ConnectVersion(o, a) = "proceed" => a = o /\ (Accepts(r, o) \/ o = r.newest)
         /\ ConnectVersion(o, a) = "redial" =>
              a < o /\ Mine.min <= a /\ a <= Mine.newest /\ a = r.newest
         /\ ConnectVersion(o, a) = "refuse" /\ (\A v \in Common(r) : v <= o) => Common(r) = {}
<1> USE RangesAssumption DEF Accepts, ConnectVersion
<1>1. Mine.min \in Nat /\ Mine.newest \in Nat /\ r.min \in Nat /\ r.newest \in Nat /\ r.min <= r.newest
  OBVIOUS
<1>2. ConnectVersion(o, a) = "proceed" => a = o /\ (Accepts(r, o) \/ o = r.newest)
  OBVIOUS
<1>3. ConnectVersion(o, a) = "redial" =>
        a < o /\ Mine.min <= a /\ a <= Mine.newest /\ a = r.newest
  BY <1>1
<1>4. ASSUME ConnectVersion(o, a) = "refuse", \A v \in Common(r) : v <= o,
             NEW v \in Common(r)
      PROVE  FALSE
  <2>1. v \in Nat /\ Mine.min <= v /\ v <= Mine.newest /\ r.min <= v /\ v <= r.newest /\ v <= o
    BY <1>1, <1>4 DEF Common
  <2> QED BY <1>1, <1>4, <2>1
<1> QED BY <1>2, <1>3, <1>4

LEMMA VersionStep == Types /\ VersionInv /\ [Next]_vars => VersionInv'
<1> SUFFICES ASSUME Types, VersionInv, [Next]_vars PROVE VersionInv'
  OBVIOUS
<1> USE SetsAssumption DEF serverVars, loopVars, stopVars, clientVars, linkVars
<1>0. ReachedInv' /\ Types'
  BY ReachedStep, TypesStep DEF VersionInv
<1>1. ASSUME UNCHANGED <<client, offered, first, at, answer>>,
             \A d \in Servers : Bound(d) => speaks'[d] = speaks[d]
      PROVE  VersionInv'
  <2>1. \A c \in Clients : at[c] # Nobody => speaks'[at[c]] = speaks[at[c]]
    BY <1>1 DEF VersionInv, ReachedInv, Bound
  <2>2. AnswerInv'
    <3>1. ASSUME NEW c \in Clients, client[c] = "sent", answer[c] # 0
          PROVE  \/ answer[c] = offered[c] /\ Accepts(speaks'[at[c]], offered[c])
                 \/ answer[c] = speaks'[at[c]].newest /\ ~Accepts(speaks'[at[c]], offered[c])
      BY <2>1, <3>1 DEF VersionInv, AnswerInv, ReachedInv
    <3>2. \A c \in Clients :
            /\ Mine.min <= offered[c] /\ offered[c] <= Mine.newest
            /\ first[c] = Nobody => offered[c] = Mine.newest /\ client[c] # "sent"
      BY DEF VersionInv, AnswerInv
    <3> QED BY <1>1, <3>1, <3>2 DEF AnswerInv, Accepts
  <2>3. BestInv'
    BY <1>1, <2>1 DEF VersionInv, BestInv
  <2>4. NegotiatesBest'
    BY <1>1, <2>1 DEF VersionInv, NegotiatesBest
  <2> QED BY <1>0, <2>2, <2>3, <2>4 DEF VersionInv
<1>2. ASSUME NEW s \in Servers, Clear(s) PROVE VersionInv'
  BY <1>1, <1>2 DEF Clear, Bound, Types
<1>3. ASSUME NEW c \in Clients, Hello(c) PROVE VersionInv'
  <2> USE <1>3 DEF Hello, Types
  <2>1. UNCHANGED <<up, speaks, path, client, offered, first, at>>
    OBVIOUS
  <2>2. \A d \in Clients \ {c} : answer'[d] = answer[d]
    OBVIOUS
  <2>3. client[c] = "sent" =>
          \/ answer'[c] = offered[c] /\ Accepts(speaks[at[c]], offered[c])
          \/ answer'[c] = speaks[at[c]].newest /\ ~Accepts(speaks[at[c]], offered[c])
    OBVIOUS
  <2>4. client[c] # "sent" => answer' = answer
    OBVIOUS
  <2>5. AnswerInv'
    BY <2>1, <2>2, <2>3, <2>4 DEF VersionInv, AnswerInv
  <2>6. BestInv'
    BY <2>1 DEF VersionInv, BestInv
  <2>7. \A d \in Clients : client[d] \in {"connected", "refused"} => answer'[d] = answer[d]
    BY <2>2, <2>4
  <2>8. NegotiatesBest'
    BY <2>1, <2>7 DEF VersionInv, NegotiatesBest
  <2> QED BY <1>0, <2>5, <2>6, <2>8 DEF VersionInv
<1>4. ASSUME NEW c \in Clients, Dial(c) PROVE VersionInv'
  <2> USE <1>4 DEF Dial, Types
  <2>1. AnswerInv'
    BY DEF VersionInv, AnswerInv, Reachable, Ended
  <2>2. CASE ~Reachable
    <3>1. UNCHANGED <<speaks, at, first, offered, answer>> /\ client'[c] = "lost"
          /\ \A d \in Clients \ {c} : client'[d] = client[d]
      BY <2>2
    <3>2. BestInv'
      BY <3>1 DEF VersionInv, BestInv
    <3>3. NegotiatesBest'
      BY <3>1 DEF VersionInv, NegotiatesBest
    <3> QED BY <1>0, <2>1, <3>2, <3>3 DEF VersionInv
  <2>3. CASE Reachable
    <3>1. path # Nobody /\ at' = [at EXCEPT ![c] = path] /\ client'[c] = "sent"
          /\ first'[c] = (IF first[c] = Nobody THEN path ELSE first[c])
          /\ UNCHANGED <<speaks, offered>>
          /\ \A d \in Clients \ {c} :
               client'[d] = client[d] /\ first'[d] = first[d] /\ at'[d] = at[d] /\ answer'[d] = answer[d]
      BY <2>3 DEF Reachable
    <3>2. ASSUME first'[c] = path, NEW v \in Common(speaks[path]) PROVE v <= offered[c]
      <4>1. CASE first[c] = Nobody
        <5>1. at[c] = Nobody
          BY <4>1 DEF VersionInv, ReachedInv
        <5>2. offered[c] = Mine.newest
          BY <4>1 DEF VersionInv, AnswerInv
        <5>3. v \in Mine.min .. Mine.newest
          BY <3>2 DEF Common
        <5> QED BY <5>2, <5>3, RangesAssumption
      <4>2. CASE first[c] # Nobody
        <5>1. first[c] = path /\ at[c] # Nobody /\ at[c] = first[c]
          BY <4>2, <3>1, <3>2 DEF VersionInv, ReachedInv
        <5> QED BY <5>1, <3>2 DEF VersionInv, BestInv
      <4> QED BY <4>1, <4>2
    <3>3. BestInv'
      BY <3>1, <3>2 DEF VersionInv, BestInv
    <3>4. \A d \in Clients : client'[d] \in {"connected", "refused"} =>
            /\ client'[d] = client[d] /\ first'[d] = first[d]
            /\ at'[d] = at[d] /\ answer'[d] = answer[d]
      BY <3>1
    <3>5. NegotiatesBest'
      <4>1. ASSUME NEW d \in Clients, client'[d] \in {"connected", "refused"}, at'[d] # Nobody, first'[d] = at'[d]
            PROVE  LET common == Common(speaks[at'[d]]) IN
                   /\ client'[d] = "connected" =>
                        /\ offered[d] \in common /\ \A v \in common : v <= offered[d]
                        /\ answer'[d] = offered[d]
                   /\ client'[d] = "refused" => common = {}
        <5>1. client'[d] = client[d] /\ first'[d] = first[d] /\ at'[d] = at[d] /\ answer'[d] = answer[d]
          BY <3>4, <4>1
        <5> QED BY <4>1, <5>1 DEF VersionInv, NegotiatesBest
      <4> QED BY <3>1, <4>1 DEF NegotiatesBest
    <3> QED BY <1>0, <2>1, <3>3, <3>5 DEF VersionInv
  <2> QED BY <2>2, <2>3
<1>5. ASSUME NEW c \in Clients, Answered(c) PROVE VersionInv'
  <2> DEFINE r == speaks[at[c]]
  <2> USE <1>5 DEF Answered, Types
  <2>1. UNCHANGED <<up, speaks, path, first, at, answer>>
        /\ client[c] = "sent" /\ answer[c] # 0 /\ at[c] \in Servers
        /\ \A d \in Clients \ {c} : client'[d] = client[d] /\ offered'[d] = offered[d]
    BY DEF VersionInv, AnswerInv, ReachedInv
  <2>2. r \in Speaks \cup {Mine} /\ r.min \in Nat /\ r.newest \in Nat /\ offered[c] \in Nat /\ answer[c] \in Nat
    BY <2>1, RangesAssumption
  <2>3. /\ Mine.min <= offered[c] /\ offered[c] <= Mine.newest
        /\ \/ answer[c] = offered[c] /\ Accepts(r, offered[c])
           \/ answer[c] = r.newest /\ ~Accepts(r, offered[c])
    BY <2>1 DEF VersionInv, AnswerInv
  <2>4. first[c] = at[c] => \A v \in Common(r) : v <= offered[c]
    BY <2>1 DEF VersionInv, BestInv
  <2>5. CASE ConnectVersion(offered[c], answer[c]) = "proceed"
    <3>1. client'[c] = "connected" /\ offered' = offered /\ answer[c] = offered[c]
      BY <2>5, <2>2, <2>3, Judged
    <3>2. Accepts(r, offered[c])
      BY <2>2, <2>3, <3>1, RangesAssumption DEF Accepts
    <3>3. offered[c] \in Common(r)
      BY <2>2, <2>3, <3>2, RangesAssumption DEF Common
    <3>4. AnswerInv'
      BY <2>1, <3>1 DEF VersionInv, AnswerInv
    <3>5. BestInv'
      BY <2>1, <3>1 DEF VersionInv, BestInv
    <3>6. NegotiatesBest'
      BY <2>1, <2>4, <3>1, <3>3 DEF VersionInv, NegotiatesBest
    <3> QED BY <1>0, <3>4, <3>5, <3>6 DEF VersionInv
  <2>6. CASE ConnectVersion(offered[c], answer[c]) = "redial"
    <3>1. client'[c] = "dial" /\ offered'[c] = answer[c]
      BY <2>6
    <3>2. Mine.min <= answer[c] /\ answer[c] <= Mine.newest /\ answer[c] = r.newest
      BY <2>6, <2>2, <2>3, Judged
    <3>3. \A v \in Common(r) : v <= answer[c]
      BY <2>2, <3>2, RangesAssumption DEF Common, Accepts
    <3>4. AnswerInv'
      BY <2>1, <3>1, <3>2 DEF VersionInv, AnswerInv
    <3>5. BestInv'
      BY <2>1, <3>1, <3>3 DEF VersionInv, BestInv
    <3>6. NegotiatesBest'
      BY <2>1, <3>1 DEF VersionInv, NegotiatesBest
    <3> QED BY <1>0, <3>4, <3>5, <3>6 DEF VersionInv
  <2>7. CASE ConnectVersion(offered[c], answer[c]) = "refuse"
    <3>1. client'[c] = "refused" /\ offered' = offered
      BY <2>7
    <3>2. first[c] = at[c] => Common(r) = {}
      BY <2>7, <2>2, <2>3, <2>4, Judged
    <3>4. AnswerInv'
      BY <2>1, <3>1 DEF VersionInv, AnswerInv
    <3>5. BestInv'
      BY <2>1, <3>1 DEF VersionInv, BestInv
    <3>6. NegotiatesBest'
      BY <2>1, <3>1, <3>2 DEF VersionInv, NegotiatesBest
    <3> QED BY <1>0, <3>4, <3>5, <3>6 DEF VersionInv
  <2> QED BY <2>5, <2>6, <2>7
<1>6. ASSUME NEW c \in Clients, HungUp(c) \/ Silent(c) \/ CloseClient(c) PROVE VersionInv'
  <2> USE <1>6 DEF HungUp, Silent, CloseClient, Types
  <2>1. UNCHANGED <<speaks, offered, first, at, answer>>
        /\ client'[c] \in {"hungup", "lost", "closed"}
        /\ \A d \in Clients \ {c} : client'[d] = client[d]
    OBVIOUS
  <2>2. AnswerInv'
    BY <2>1 DEF VersionInv, AnswerInv
  <2>3. BestInv'
    BY <2>1 DEF VersionInv, BestInv
  <2>4. NegotiatesBest'
    BY <2>1 DEF VersionInv, NegotiatesBest
  <2> QED BY <1>0, <2>2, <2>3, <2>4 DEF VersionInv
<1> QED
  BY <1>1, <1>2, <1>3, <1>4, <1>5, <1>6
  DEF Next, Stop, vars, ServeForever, Serves, CallAccept, Accept, Check, Dials, Shutdown, Bind,
      Crash, Nudge, CloseListener, Unlink, PeerHungUp

-----------------------------------------------------------------------------
(* What follows, of every behaviour. *)

IInv == Types /\ OrderInv /\ VersionInv

LEMMA Invariance == Spec => []IInv
<1>1. Init => IInv
  BY TypesInit, OrderInit, VersionInit DEF IInv
<1>2. IInv /\ [Next]_vars => IInv'
  BY TypesStep, OrderStep, VersionStep DEF IInv
<1> QED BY <1>1, <1>2, PTL DEF Spec

(* A server that is up and was not shut down is the one the path names, if *)
(* servers start and are shut down in order, whenever any of them crashes. *)
THEOREM UpLeadsThere == Spec => []UpIsReachable
<1>1. IInv => UpIsReachable
  BY DEF IInv, OrderInv, PathInv, UpIsReachable
<1> QED BY <1>1, Invariance, PTL

(* Such a server comes up over whatever was left at the path (__init__). *)
THEOREM StartsOverLeftovers == Spec => []LeftoverReplaced
<1>1. IInv => LeftoverReplaced
  BY DEF IInv, OrderInv, PathInv, LeftoverReplaced
<1> QED BY <1>1, Invariance, PTL

(* connect() ends on the best version both sides speak, or says that there *)
(* is none only when there is none, unless it was led to another server.   *)
THEOREM BestVersion == Spec => []NegotiatesBest
<1>1. IInv => NegotiatesBest
  BY DEF IInv, VersionInv
<1> QED BY <1>1, Invariance, PTL

(* Every redial offers an older version, and none older than this package  *)
(* speaks (connect_version).                                               *)
THEOREM OffersStepDown == Spec => OfferStepsDown
<1>1. ASSUME IInv, [Next]_vars
      PROVE  [\A c \in Clients : offered'[c] # offered[c] =>
                /\ offered'[c] < offered[c] /\ offered'[c] >= Mine.min
                /\ client'[c] = "dial"]_vars
  <2> USE DEF serverVars, loopVars, stopVars, clientVars, linkVars
  <2>1. ASSUME NEW c \in Clients, offered'[c] # offered[c], Answered(c)
        PROVE  /\ offered'[c] < offered[c] /\ offered'[c] >= Mine.min
               /\ client'[c] = "dial"
    BY <1>1, <2>1, RangesAssumption DEF IInv, Types, Answered, ConnectVersion, Accepts
  <2>2. ASSUME NEW c \in Clients, offered'[c] # offered[c] PROVE Answered(c)
    BY <1>1, <2>2 DEF IInv, Types, Next, Stop, vars, Clear, Bind, Crash, Shutdown, ServeForever, Serves, CallAccept,
      Accept, Check, Nudge, CloseListener, Unlink, Dials, Dial, Answered, HungUp, Silent, Hello,
      PeerHungUp, CloseClient
  <2> QED BY <2>1, <2>2
<1> QED BY <1>1, Invariance, PTL DEF Spec, OfferStepsDown
=============================================================================
