--------------------------- MODULE QuicWireProofs ---------------------------
(***************************************************************************)
(* What QuicWire's invariants rest on, and their proofs; what its steps    *)
(* may never do; and that it implements RoundTrips: for any calls, any     *)
(* number of connections and addresses, and either Python.                 *)
(***************************************************************************)
EXTENDS QuicWire, SequenceTheorems, TLAPS

(* The lock: a task inside it is alone there. *)
LockInv == OneAtATime

(* Only a task inside the lock dials, and the wire holds no connection then. *)
DialOwned ==
  /\ dialing # NoConn => \E c \in Calls : Dialing(c)
  /\ (\E c \in Calls : Dialing(c)) => protocol = NoConn

(* Connections are opened in order, so that the next one is new. *)
ConnsInOrder ==
  /\ dialing <= dials /\ protocol <= dials
  /\ \A k \in Conns : k > dials => st[k] = "none"
  /\ \A s \in Streams : conn[s] <= dials

(* One being dialed was opened, is not closed, and carries no stream yet. *)
DialUnused ==
  dialing # NoConn => /\ st[dialing] \notin {"none", "closing"}
                      /\ \A s \in Streams : conn[s] # dialing

(* The wire's connection was ready once, and was not closed by the client. *)
HeldWasReady ==
  protocol # NoConn => st[protocol] \notin {"none", "dialing", "closing"}

DialInv == DialOwned /\ ConnsInOrder /\ DialUnused /\ HeldWasReady

(***************************************************************************)
(* How often a call was handed over, read off where its task is; a second  *)
(* attempt is made only of a call whose first reply was lost.              *)
(***************************************************************************)
SendOf(c) ==
  /\ pc[c] \in {"idle", "queued"} => attempt[c] = 1 /\ sends[c] = 0
  /\ Dialing(c) => sends[c] = attempt[c] - 1
  /\ pc[c] = "wait" => /\ sends[c] = attempt[c]
                       /\ conn[Stream(c)] # NoConn /\ fut[Stream(c)] # "none"
  /\ sends[c] <= attempt[c]
  /\ attempt[c] = 2 => /\ c \in Replayable
                       /\ fut[<<c, 1>>] = "lost" /\ conn[<<c, 1>>] # NoConn
  /\ sends[c] = 2 => conn[<<c, 2>>] # conn[<<c, 1>>]

SendInv == \A c \in Calls : SendOf(c)

(* Streams whose reply is awaited are on connections that have not ended. *)
PendingInv ==
  \A s \in Streams :
    fut[s] = "pending" => conn[s] # NoConn /\ ~Ended(conn[s])

(* A call has an outcome only when it is done. *)
DoneInv == \A c \in Calls : pc[c] # "done" => outcome[c] = "none"

IInv ==
  /\ TypeOK
  /\ LockInv
  /\ DialInv
  /\ SendInv
  /\ PendingInv
  /\ DoneInv
  /\ NoConnectionLeaks
  /\ PingedWhileOpen

-----------------------------------------------------------------------------
(* Removing a cancelled task from the queue leaves a queue. *)
LEMMA RemoveAtType ==
  ASSUME NEW S, NEW q \in Seq(S), NEW i \in 1 .. Len(q)
  PROVE  RemoveAt(q, i) \in Seq(S)
  <1>1. SubSeq(q, 1, i - 1) \in Seq(S)
    <2>1. \A j \in 1 .. i - 1 : q[j] \in S
      OBVIOUS
    <2> QED
      BY <2>1, SubSeqProperties
  <1>2. SubSeq(q, i + 1, Len(q)) \in Seq(S)
    <2>1. \A j \in i + 1 .. Len(q) : q[j] \in S
      OBVIOUS
    <2> QED
      BY <2>1, SubSeqProperties
  <1> QED
    BY <1>1, <1>2, ConcatProperties DEF RemoveAt

(* What healing leaves in the variables it changes. *)
LEMMA HealType ==
  ASSUME TypeOK, NEW c \in Calls, NEW k \in Conns \cup {NoConn},
         NEW label \in {"heal", "reheal"}, Heal(c, k, label)
  PROVE  /\ pc' \in [Calls -> {"idle", "queued", "done"} \cup Suspended]
         /\ outcome' \in [Calls -> {"none", "reply", "cancelled"} \cup Failures]
         /\ protocol' \in Conns \cup {NoConn}
         /\ dialing' = NoConn /\ addr' = 0
         /\ st' \in [Conns -> {"none", "dialing", "up", "closing"} \cup Failures]
  <1> USE DEF TypeOK, Suspended, Failures
  <1>1. CASE TrustRefused(k)
    BY <1>1 DEF Heal, Finish
  <1>2. CASE ~TrustRefused(k)
    BY <1>2 DEF Heal, Closing
  <1> QED
    BY <1>1, <1>2

LEMMA StreamType == ASSUME TypeOK, NEW c \in Calls PROVE Stream(c) \in Streams
  BY DEF TypeOK, Streams, Stream

(* What sending leaves in the variables it changes. *)
LEMMA SendType ==
  ASSUME TypeOK, NEW c \in Calls, NEW k \in Conns, NEW f \in Forms,
         Send(c, k, f)
  PROVE  /\ pc' \in [Calls -> {"idle", "queued", "done"} \cup Suspended]
         /\ conn' \in [Streams -> Conns \cup {NoConn}]
         /\ form' \in [Streams -> Forms]
         /\ fut' \in [Streams -> {"none", "pending", "reply", "dropped"} \cup Failures]
         /\ sends' \in [Calls -> Nat]
  BY StreamType DEF TypeOK, Suspended, Send

LEMMA EncodeType ==
  ASSUME NEW c \in Calls, NEW k \in Conns PROVE Encode(c, k) \in Forms
  BY DEF Encode, Forms

LEMMA StartDialType ==
  ASSUME TypeOK, NEW a \in 1 .. Addresses, StartDial(a)
  PROVE  /\ dials' \in Conns /\ dialing' \in Conns /\ dials' = dials + 1
         /\ addr' \in 0 .. Addresses
  BY NumbersAssumption DEF TypeOK, Conns, StartDial

(* Every step keeps every variable in its type. *)
LEMMA TypeStep == TypeOK /\ [Next]_vars => TypeOK'
  <1> SUFFICES ASSUME TypeOK, [Next]_vars PROVE TypeOK'
    OBVIOUS
  <1>1. ASSUME NEW c \in Calls, Issue(c)
       PROVE  TypeOK'
    BY <1>1 DEF Issue, Forms, TypeOK, Suspended, Failures, taskVars, wireVars, connVars,
                 streamVars
  <1>2. ASSUME NEW c \in Calls, Acquire(c)
       PROVE  TypeOK'
    <2>1. lockq' \in Seq(Calls)
      BY <1>2, HeadTailProperties DEF Acquire, TypeOK
    <2>2. protocol \in Conns \cup {NoConn}
      BY DEF TypeOK
    <2>3. CASE ~Usable
      <3>1. Heal(c, protocol, "heal")
        BY <1>2, <2>3 DEF Acquire
      <3>2. /\ pc' \in [Calls -> {"idle", "queued", "done"} \cup Suspended]
            /\ outcome' \in [Calls -> {"none", "reply", "cancelled"} \cup Failures]
            /\ protocol' \in Conns \cup {NoConn}
            /\ dialing' = NoConn /\ addr' = 0
            /\ st' \in [Conns -> {"none", "dialing", "up", "closing"} \cup Failures]
        BY <2>2, <3>1, HealType
      <3> QED
        BY <1>2, <2>1, <2>3, <3>2, NumbersAssumption
        DEF Acquire, TypeOK, streamVars
    <2>4. CASE Usable
      <3> DEFINE f == Encode(c, protocol)
      <3>1. protocol \in Conns /\ f \in Forms
        BY <2>2, <2>4, EncodeType DEF Usable
      <3>2. Send(c, protocol, f) /\ payload' = [payload EXCEPT ![c] = f]
        BY <1>2, <2>4 DEF Acquire
      <3> HIDE DEF f
      <3>3. /\ pc' \in [Calls -> {"idle", "queued", "done"} \cup Suspended]
            /\ conn' \in [Streams -> Conns \cup {NoConn}]
            /\ form' \in [Streams -> Forms]
            /\ fut' \in [Streams -> {"none", "pending", "reply", "dropped"} \cup Failures]
            /\ sends' \in [Calls -> Nat]
        BY <3>1, <3>2, SendType
      <3> QED
        BY <1>2, <2>1, <2>4, <3>1, <3>2, <3>3 DEF Acquire, TypeOK
    <2> QED
      BY <2>3, <2>4
  <1>3. ASSUME NEW c \in Calls, Resolved(c)
       PROVE  TypeOK'
    <2>1. /\ dials' \in Conns /\ dialing' \in Conns /\ dials' = dials + 1
          /\ addr' \in 0 .. Addresses
      BY <1>3, StartDialType, NumbersAssumption DEF Resolved
    <2> QED
      BY <1>3, <2>1 DEF Resolved, TypeOK, Suspended, Failures, taskVars, wireVars, connVars,
                 streamVars
  <1>4. ASSUME NEW c \in Calls, ResolveFails(c)
       PROVE  TypeOK'
    BY <1>4 DEF ResolveFails, Finish, TypeOK, Suspended, Failures, taskVars, wireVars, connVars,
                 streamVars
  <1>5. ASSUME NEW c \in Calls, AddressFails(c)
       PROVE  TypeOK'
    <2>1. CASE addr < Addresses /\ StartDial(addr + 1)
      <3>1. addr + 1 \in 1 .. Addresses
        BY <2>1, NumbersAssumption DEF TypeOK
      <3>2. /\ dials' \in Conns /\ dialing' \in Conns /\ dials' = dials + 1
            /\ addr' \in 0 .. Addresses
        BY <2>1, <3>1, StartDialType
      <3>3. st' = [st EXCEPT ![dialing] = "lost", ![dials + 1] = "dialing"]
            /\ UNCHANGED <<pc, outcome>>
        BY <1>5, <2>1 DEF AddressFails, TypeOK
      <3> QED
        BY <1>5, <3>2, <3>3 DEF AddressFails, TypeOK, Failures, wireVars, streamVars
    <2>2. CASE addr = Addresses
      <3>1. /\ Finish(c, "lost") /\ st' = [st EXCEPT ![dialing] = "lost"]
            /\ dialing' = NoConn /\ UNCHANGED <<dials, addr>>
        BY <1>5, <2>2, NumbersAssumption DEF AddressFails
      <3> QED
        BY <1>5, <3>1 DEF AddressFails, Finish, TypeOK, Failures, wireVars, streamVars
    <2> QED
      BY <1>5, <2>1, <2>2 DEF AddressFails
  <1>6. ASSUME NEW c \in Calls, NEW why \in {"trust", "protocol"}, DialRefused(c, why)
       PROVE  TypeOK'
    BY <1>6 DEF DialRefused, Finish, TypeOK, Suspended, Failures, taskVars, wireVars, connVars,
                 streamVars
  <1>7. ASSUME NEW c \in Calls, NEW v \in DoorVersions, DialReady(c, v)
       PROVE  TypeOK'
    BY <1>7 DEF DialReady, TypeOK, Suspended, Failures, taskVars, wireVars, connVars,
                 streamVars
  <1>8. ASSUME NEW c \in Calls, Redialed(c)
       PROVE  TypeOK'
    <2> DEFINE f == IF pc[c] = "heal" THEN Encode(c, dialing) ELSE payload[c]
    <2>1. dialing \in Conns
      BY <1>8 DEF Redialed, TypeOK
    <2>2. f \in Forms
      BY <2>1, EncodeType DEF TypeOK
    <2>3. payload' = [payload EXCEPT ![c] = f]
      BY <1>8 DEF Redialed
    <2>a. payload' \in [Calls -> Forms] /\ 0 \in 0 .. Addresses
      BY <2>2, <2>3, NumbersAssumption DEF TypeOK
    <2>4. \/ /\ Send(c, dialing, f)
             /\ protocol' = dialing /\ dialing' = NoConn /\ addr' = 0
             /\ UNCHANGED <<st, outcome>>
          \/ Heal(c, dialing, "reheal") /\ UNCHANGED streamVars
          \/ /\ Ended(dialing) /\ Finish(c, st[dialing])
             /\ protocol' = dialing /\ dialing' = NoConn /\ addr' = 0
             /\ UNCHANGED <<st, streamVars>>
      BY <1>8 DEF Redialed
    <2>5. /\ stale' = FALSE /\ pinger' = TRUE
          /\ UNCHANGED <<attempt, built, lockq, serverVersion, closed, ver, dials>>
      BY <1>8 DEF Redialed
    <2> HIDE DEF f
    <2>6. CASE /\ Send(c, dialing, f)
               /\ protocol' = dialing /\ dialing' = NoConn /\ addr' = 0
               /\ UNCHANGED <<st, outcome>>
      <3>1. /\ pc' \in [Calls -> {"idle", "queued", "done"} \cup Suspended]
            /\ conn' \in [Streams -> Conns \cup {NoConn}]
            /\ form' \in [Streams -> Forms]
            /\ fut' \in [Streams -> {"none", "pending", "reply", "dropped"} \cup Failures]
            /\ sends' \in [Calls -> Nat]
        BY <2>1, <2>2, <2>6, SendType
      <3> QED
        BY <2>1, <2>a, <2>5, <2>6, <3>1 DEF TypeOK
    <2>7. CASE Heal(c, dialing, "reheal") /\ UNCHANGED streamVars
      <3>1. /\ pc' \in [Calls -> {"idle", "queued", "done"} \cup Suspended]
            /\ outcome' \in [Calls -> {"none", "reply", "cancelled"} \cup Failures]
            /\ protocol' \in Conns \cup {NoConn}
            /\ dialing' = NoConn /\ addr' = 0
            /\ st' \in [Conns -> {"none", "dialing", "up", "closing"} \cup Failures]
        BY <2>1, <2>7, HealType
      <3> QED
        BY <2>a, <2>5, <2>7, <3>1 DEF TypeOK, streamVars
    <2>8. CASE /\ Ended(dialing) /\ Finish(c, st[dialing])
               /\ protocol' = dialing /\ dialing' = NoConn /\ addr' = 0
               /\ UNCHANGED <<st, streamVars>>
      BY <2>1, <2>a, <2>5, <2>8 DEF Finish, Ended, TypeOK, Failures, streamVars
    <2> QED
      BY <2>4, <2>6, <2>7, <2>8
  <1>9. ASSUME NEW s \in Streams, NEW r \in {"reply", "protocol", "lost"}, Resumes(s, r)
       PROVE  TypeOK'
    BY <1>9 DEF Resumes, TypeOK, Suspended, Failures, taskVars, wireVars, connVars,
                 streamVars
  <1>10. ASSUME NEW k \in Conns, NEW why \in Failures, ConnEnds(k, why)
       PROVE  TypeOK'
    BY <1>10 DEF ConnEnds, FailAll, TypeOK, Suspended, Failures, taskVars, wireVars, connVars,
                 streamVars
  <1>11. ASSUME NEW c \in Calls, Answered(c)
       PROVE  TypeOK'
    BY <1>11 DEF Answered, Finish, TypeOK, Suspended, Failures, taskVars, wireVars, connVars,
                 streamVars
  <1>12. ASSUME NEW c \in Calls, Refused(c)
       PROVE  TypeOK'
    BY <1>12 DEF Refused, Finish, TypeOK, Suspended, Failures, taskVars, wireVars, connVars,
                 streamVars
  <1>13. ASSUME NEW c \in Calls, ReplyLost(c)
       PROVE  TypeOK'
    <2>1. CASE ~MayReplay(c)
      BY <1>13, <2>1 DEF ReplyLost, Finish, TypeOK, Suspended, Failures, taskVars, wireVars, connVars,
                 streamVars
    <2>2. CASE MayReplay(c)
      <3>1. Heal(c, protocol, "heal") /\ attempt' = [attempt EXCEPT ![c] = 2]
        BY <1>13, <2>2 DEF ReplyLost
      <3>2. /\ pc' \in [Calls -> {"idle", "queued", "done"} \cup Suspended]
            /\ outcome' \in [Calls -> {"none", "reply", "cancelled"} \cup Failures]
            /\ protocol' \in Conns \cup {NoConn}
            /\ dialing' = NoConn /\ addr' = 0
            /\ st' \in [Conns -> {"none", "dialing", "up", "closing"} \cup Failures]
        <4>1. protocol \in Conns \cup {NoConn}
          BY DEF TypeOK
        <4> QED
          BY <3>1, <4>1, HealType
      <3> QED
        <4>1. attempt' \in [Calls -> {1, 2}] /\ 0 \in 0 .. Addresses
          BY <3>1, NumbersAssumption DEF TypeOK
        <4> QED
          BY <1>13, <3>2, <4>1 DEF ReplyLost, TypeOK, streamVars
    <2> QED
      BY <2>1, <2>2
  <1>14. ASSUME NEW c \in Calls, TimesOut(c)
       PROVE  TypeOK'
    BY <1>14 DEF TimesOut, Finish, TypeOK, Suspended, Failures, taskVars, wireVars, connVars,
                 streamVars
  <1>15. ASSUME NEW c \in Calls, CancelQueued(c)
       PROVE  TypeOK'
    <2>1. lockq' \in Seq(Calls)
      BY <1>15, RemoveAtType DEF CancelQueued, TypeOK
    <2> QED
      BY <1>15, <2>1 DEF CancelQueued, Finish, TypeOK, Suspended, Failures, taskVars, wireVars, connVars,
                 streamVars
  <1>16. ASSUME NEW c \in Calls, CancelDial(c)
       PROVE  TypeOK'
    BY <1>16 DEF CancelDial, Finish, TypeOK, Suspended, Failures, taskVars, wireVars, connVars,
                 streamVars
  <1>17. ASSUME NEW c \in Calls, CancelWait(c)
       PROVE  TypeOK'
    BY <1>17 DEF CancelWait, Finish, TypeOK, Suspended, Failures, taskVars, wireVars, connVars,
                 streamVars
  <1>18. ASSUME Close
       PROVE  TypeOK'
    BY <1>18 DEF Close, Closing, TypeOK, Suspended, Failures, taskVars, wireVars, connVars,
                 streamVars
  <1>19. CASE UNCHANGED vars
    BY <1>19 DEF vars, TypeOK, Suspended, Failures, taskVars, wireVars, connVars,
                 streamVars
  <1> QED
    BY <1>1, <1>2, <1>3, <1>4, <1>5, <1>6, <1>7, <1>8, <1>9, <1>10, <1>11,
       <1>12, <1>13, <1>14, <1>15, <1>16, <1>17, <1>18, <1>19
    DEF Next, Runs, Cancel, ReplyArrives, ReplyTooLarge, StreamReset

(* The lock is taken only when it is free, and kept by the task that has it. *)
LEMMA LockStep == TypeOK /\ LockInv /\ [Next]_vars => LockInv'
  <1> SUFFICES ASSUME TypeOK, LockInv, [Next]_vars PROVE LockInv'
    OBVIOUS
  <1>1. ASSUME NEW c \in Calls, Issue(c)
       PROVE  LockInv'
    BY <1>1 DEF Issue, LockInv, OneAtATime, TypeOK, Suspended, taskVars
  <1>2. ASSUME NEW c \in Calls, Acquire(c)
       PROVE  LockInv'
    BY <1>2 DEF Acquire, LockFree, Send, Heal, Finish, LockInv, OneAtATime, TypeOK, Suspended, taskVars
  <1>3. ASSUME NEW c \in Calls, Resolved(c)
       PROVE  LockInv'
    BY <1>3 DEF Resolved, LockInv, OneAtATime, TypeOK, Suspended, taskVars
  <1>4. ASSUME NEW c \in Calls, ResolveFails(c)
       PROVE  LockInv'
    BY <1>4 DEF ResolveFails, Finish, Dialing, LockInv, OneAtATime, TypeOK, Suspended, taskVars
  <1>5. ASSUME NEW c \in Calls, AddressFails(c)
       PROVE  LockInv'
    BY <1>5 DEF AddressFails, Finish, Dialing, LockInv, OneAtATime, TypeOK, Suspended, taskVars
  <1>6. ASSUME NEW c \in Calls, NEW why \in {"trust", "protocol"}, DialRefused(c, why)
       PROVE  LockInv'
    BY <1>6 DEF DialRefused, Finish, Dialing, LockInv, OneAtATime, TypeOK, Suspended, taskVars
  <1>7. ASSUME NEW c \in Calls, NEW v \in DoorVersions, DialReady(c, v)
       PROVE  LockInv'
    BY <1>7 DEF DialReady, LockInv, OneAtATime, TypeOK, Suspended, taskVars
  <1>8. ASSUME NEW c \in Calls, Redialed(c)
       PROVE  LockInv'
    BY <1>8 DEF Redialed, Send, Heal, Finish, Dialing, LockInv, OneAtATime, TypeOK, Suspended, taskVars
  <1>9. ASSUME NEW s \in Streams, NEW r \in {"reply", "protocol", "lost"}, Resumes(s, r)
       PROVE  LockInv'
    BY <1>9 DEF Resumes, LockInv, OneAtATime, TypeOK, Suspended, taskVars
  <1>10. ASSUME NEW k \in Conns, NEW why \in Failures, ConnEnds(k, why)
       PROVE  LockInv'
    BY <1>10 DEF ConnEnds, LockInv, OneAtATime, TypeOK, Suspended, taskVars
  <1>11. ASSUME NEW c \in Calls, Answered(c)
       PROVE  LockInv'
    BY <1>11 DEF Answered, Finish, LockInv, OneAtATime, TypeOK, Suspended, taskVars
  <1>12. ASSUME NEW c \in Calls, Refused(c)
       PROVE  LockInv'
    BY <1>12 DEF Refused, Finish, LockInv, OneAtATime, TypeOK, Suspended, taskVars
  <1>13. ASSUME NEW c \in Calls, ReplyLost(c)
       PROVE  LockInv'
    BY <1>13 DEF ReplyLost, Heal, Finish, LockInv, OneAtATime, TypeOK, Suspended, taskVars
  <1>14. ASSUME NEW c \in Calls, TimesOut(c)
       PROVE  LockInv'
    BY <1>14 DEF TimesOut, Finish, LockInv, OneAtATime, TypeOK, Suspended, taskVars
  <1>15. ASSUME NEW c \in Calls, CancelQueued(c)
       PROVE  LockInv'
    BY <1>15 DEF CancelQueued, Finish, LockInv, OneAtATime, TypeOK, Suspended, taskVars
  <1>16. ASSUME NEW c \in Calls, CancelDial(c)
       PROVE  LockInv'
    BY <1>16 DEF CancelDial, Finish, LockInv, OneAtATime, TypeOK, Suspended, taskVars
  <1>17. ASSUME NEW c \in Calls, CancelWait(c)
       PROVE  LockInv'
    BY <1>17 DEF CancelWait, Finish, LockInv, OneAtATime, TypeOK, Suspended, taskVars
  <1>18. ASSUME Close
       PROVE  LockInv'
    BY <1>18 DEF Close, LockInv, OneAtATime, TypeOK, Suspended, taskVars
  <1>19. CASE UNCHANGED vars
    BY <1>19 DEF vars, LockInv, OneAtATime, TypeOK, Suspended, taskVars
  <1> QED
    BY <1>1, <1>2, <1>3, <1>4, <1>5, <1>6, <1>7, <1>8, <1>9, <1>10, <1>11,
       <1>12, <1>13, <1>14, <1>15, <1>16, <1>17, <1>18, <1>19
    DEF Next, Runs, Cancel, ReplyArrives, ReplyTooLarge, StreamReset

(* Each redial starts the ping task, and close() drops the connection. *)
LEMMA PingStep == TypeOK /\ PingedWhileOpen /\ [Next]_vars => PingedWhileOpen'
  <1> SUFFICES ASSUME TypeOK, PingedWhileOpen, [Next]_vars PROVE PingedWhileOpen'
    OBVIOUS
  <1>1. ASSUME NEW c \in Calls, Issue(c)
       PROVE  PingedWhileOpen'
    BY <1>1 DEF Issue, PingedWhileOpen, NoConn, wireVars
  <1>2. ASSUME NEW c \in Calls, Acquire(c)
       PROVE  PingedWhileOpen'
    BY <1>2 DEF Acquire, Heal, PingedWhileOpen, NoConn, wireVars
  <1>3. ASSUME NEW c \in Calls, Resolved(c)
       PROVE  PingedWhileOpen'
    BY <1>3 DEF Resolved, PingedWhileOpen, NoConn, wireVars
  <1>4. ASSUME NEW c \in Calls, ResolveFails(c)
       PROVE  PingedWhileOpen'
    BY <1>4 DEF ResolveFails, PingedWhileOpen, NoConn, wireVars
  <1>5. ASSUME NEW c \in Calls, AddressFails(c)
       PROVE  PingedWhileOpen'
    BY <1>5 DEF AddressFails, PingedWhileOpen, NoConn, wireVars
  <1>6. ASSUME NEW c \in Calls, NEW why \in {"trust", "protocol"}, DialRefused(c, why)
       PROVE  PingedWhileOpen'
    BY <1>6 DEF DialRefused, PingedWhileOpen, NoConn, wireVars
  <1>7. ASSUME NEW c \in Calls, NEW v \in DoorVersions, DialReady(c, v)
       PROVE  PingedWhileOpen'
    BY <1>7 DEF DialReady, PingedWhileOpen, NoConn, wireVars
  <1>8. ASSUME NEW c \in Calls, Redialed(c)
       PROVE  PingedWhileOpen'
    BY <1>8 DEF Redialed, PingedWhileOpen, NoConn, wireVars
  <1>9. ASSUME NEW s \in Streams, NEW r \in {"reply", "protocol", "lost"}, Resumes(s, r)
       PROVE  PingedWhileOpen'
    BY <1>9 DEF Resumes, PingedWhileOpen, NoConn, wireVars
  <1>10. ASSUME NEW k \in Conns, NEW why \in Failures, ConnEnds(k, why)
       PROVE  PingedWhileOpen'
    BY <1>10 DEF ConnEnds, PingedWhileOpen, NoConn, wireVars
  <1>11. ASSUME NEW c \in Calls, Answered(c)
       PROVE  PingedWhileOpen'
    BY <1>11 DEF Answered, PingedWhileOpen, NoConn, wireVars
  <1>12. ASSUME NEW c \in Calls, Refused(c)
       PROVE  PingedWhileOpen'
    BY <1>12 DEF Refused, PingedWhileOpen, NoConn, wireVars
  <1>13. ASSUME NEW c \in Calls, ReplyLost(c)
       PROVE  PingedWhileOpen'
    BY <1>13 DEF ReplyLost, Heal, PingedWhileOpen, NoConn, wireVars
  <1>14. ASSUME NEW c \in Calls, TimesOut(c)
       PROVE  PingedWhileOpen'
    BY <1>14 DEF TimesOut, PingedWhileOpen, NoConn, wireVars
  <1>15. ASSUME NEW c \in Calls, CancelQueued(c)
       PROVE  PingedWhileOpen'
    BY <1>15 DEF CancelQueued, PingedWhileOpen, NoConn, wireVars
  <1>16. ASSUME NEW c \in Calls, CancelDial(c)
       PROVE  PingedWhileOpen'
    BY <1>16 DEF CancelDial, PingedWhileOpen, NoConn, wireVars
  <1>17. ASSUME NEW c \in Calls, CancelWait(c)
       PROVE  PingedWhileOpen'
    BY <1>17 DEF CancelWait, PingedWhileOpen, NoConn, wireVars
  <1>18. ASSUME Close
       PROVE  PingedWhileOpen'
    BY <1>18 DEF Close, PingedWhileOpen, NoConn, wireVars
  <1>19. CASE UNCHANGED vars
    BY <1>19 DEF vars, PingedWhileOpen, NoConn, wireVars
  <1> QED
    BY <1>1, <1>2, <1>3, <1>4, <1>5, <1>6, <1>7, <1>8, <1>9, <1>10, <1>11,
       <1>12, <1>13, <1>14, <1>15, <1>16, <1>17, <1>18, <1>19
    DEF Next, Runs, Cancel, ReplyArrives, ReplyTooLarge, StreamReset

(* What the helpers do to each connection and stream. *)
LEMMA Numbers ==
  ASSUME TypeOK
  PROVE  /\ dials \in Nat /\ protocol \in Nat /\ dialing \in Nat
         /\ \A s \in Streams : conn[s] \in Nat
         /\ \A k \in Conns : k \in Nat /\ k # NoConn
         /\ dialing # NoConn => dialing \in Conns
         /\ protocol # NoConn => protocol \in Conns
  BY NumbersAssumption DEF TypeOK, Conns, NoConn

LEMMA HealEffect ==
  ASSUME TypeOK, NEW c \in Calls, NEW k \in Conns \cup {NoConn},
         NEW label \in {"heal", "reheal"}, Heal(c, k, label)
  PROVE  /\ dialing' = NoConn
         /\ protocol' # NoConn => protocol' = k /\ st[k] = "trust" /\ st' = st
         /\ \A j \in Conns : \/ st'[j] = st[j]
                             \/ j = k /\ st[j] = "up" /\ st'[j] = "closing"
         /\ \A j \in Conns : j = k => st'[j] # "up" \/ protocol' = k
  <1>1. CASE TrustRefused(k)
    <2>1. st' = st /\ protocol' = k /\ dialing' = NoConn
      BY <1>1 DEF Heal
    <2>2. st[k] = "trust"
      BY <1>1 DEF TrustRefused
    <2> QED
      BY <2>1, <2>2
  <1>2. CASE ~TrustRefused(k)
    <2>1. st' = Closing(k) /\ protocol' = NoConn /\ dialing' = NoConn
      BY <1>2 DEF Heal
    <2>2. \A j \in Conns :
            st'[j] = IF j = k /\ st[j] = "up" THEN "closing" ELSE st[j]
      BY <2>1 DEF Closing
    <2> QED
      BY <2>1, <2>2
  <1> QED
    BY <1>1, <1>2

LEMMA SendEffect ==
  ASSUME TypeOK, NEW c \in Calls, NEW k \in Conns, NEW f, Send(c, k, f)
  PROVE  /\ conn'[Stream(c)] = k /\ fut'[Stream(c)] = "pending"
         /\ \A s \in Streams : s # Stream(c) =>
              conn'[s] = conn[s] /\ fut'[s] = fut[s] /\ form'[s] = form[s]
         /\ sends'[c] = sends[c] + 1 /\ pc'[c] = "wait"
         /\ \A d \in Calls : d # c => sends'[d] = sends[d] /\ pc'[d] = pc[d]
  BY StreamType DEF Send, TypeOK

LEMMA StartDialEffect ==
  ASSUME TypeOK, ConnsInOrder, NEW a \in 1 .. Addresses, StartDial(a)
  PROVE  /\ dials' = dials + 1 /\ dialing' = dials' /\ dialing' \in Conns
         /\ st[dialing'] = "none" /\ dialing' # dialing /\ protocol # dialing'
         /\ \A s \in Streams : conn[s] # dialing'
  BY Numbers, StartDialType DEF StartDial, ConnsInOrder

(* A dial belongs to the task that holds the lock, and is on a new connection. *)
LEMMA DialStep == TypeOK /\ LockInv /\ DialInv /\ [Next]_vars => DialInv'
  <1> SUFFICES ASSUME TypeOK, LockInv, DialInv, [Next]_vars PROVE DialInv'
    OBVIOUS
  <1>1. ASSUME NEW c \in Calls, Issue(c)
       PROVE  DialInv'
    BY <1>1 DEF Issue, TypeOK, DialInv, DialOwned, ConnsInOrder, DialUnused, HeldWasReady, LockInv, OneAtATime, Conns, NoConn, Failures, Suspended, Dialing, taskVars, wireVars, connVars, streamVars
  <1>2. ASSUME NEW c \in Calls, Acquire(c)
       PROVE  DialInv'
    <2>1. DialOwned'
      BY <1>2 DEF Acquire, LockFree, Send, Heal, Finish, Usable, DialInv,
                  DialOwned, Suspended, Dialing, TypeOK, NoConn
    <2>2. CASE ~Usable
      <3>1. Heal(c, protocol, "heal") /\ UNCHANGED <<conn, dials>>
        BY <1>2, <2>2 DEF Acquire, streamVars
      <3>2. protocol \in Conns \cup {NoConn}
        BY DEF TypeOK
      <3> QED
        BY <2>1, <3>1, <3>2, HealEffect, Numbers
        DEF DialInv, ConnsInOrder, DialUnused, HeldWasReady, NoConn
    <2>3. CASE Usable
      <3>1. /\ Send(c, protocol, Encode(c, protocol))
            /\ UNCHANGED <<protocol, st, dialing, dials>>
        BY <1>2, <2>3 DEF Acquire
      <3>2. protocol \in Conns
        BY <2>3, Numbers DEF Usable
      <3>3. dialing = NoConn
        BY <3>2, Numbers DEF DialInv, DialOwned
      <3> QED
        BY <2>1, <3>1, <3>2, <3>3, SendEffect, Numbers
        DEF DialInv, ConnsInOrder, DialUnused, HeldWasReady
    <2> QED
      BY <2>2, <2>3
  <1>3. ASSUME NEW c \in Calls, Resolved(c)
       PROVE  DialInv'
    <2>1. Dialing(c) /\ StartDial(1) /\ 1 \in 1 .. Addresses
      BY <1>3, NumbersAssumption DEF Resolved
    <2>2. /\ st' = [st EXCEPT ![dials + 1] = "dialing"]
          /\ UNCHANGED <<pc, protocol, conn>>
      BY <1>3 DEF Resolved, taskVars, wireVars, streamVars
    <2>3. \A j \in Conns : st'[j] = IF j = dials + 1 THEN "dialing" ELSE st[j]
      BY <2>2 DEF TypeOK
    <2>4. protocol = NoConn
      BY <2>1 DEF DialInv, DialOwned
    <2> QED
      BY <2>1, <2>2, <2>3, <2>4, StartDialEffect, Numbers
      DEF DialInv, DialOwned, ConnsInOrder, DialUnused, HeldWasReady, Dialing
  <1>4. ASSUME NEW c \in Calls, ResolveFails(c)
       PROVE  DialInv'
    BY <1>4 DEF ResolveFails, Finish, TypeOK, DialInv, DialOwned, ConnsInOrder, DialUnused, HeldWasReady, LockInv, OneAtATime, Conns, NoConn, Failures, Suspended, Dialing, taskVars, wireVars, connVars, streamVars
  <1>5. ASSUME NEW c \in Calls, AddressFails(c)
       PROVE  DialInv'
    <2>1. Dialing(c) /\ dialing \in Conns /\ UNCHANGED <<protocol, conn>>
      BY <1>5, Numbers DEF AddressFails, wireVars, streamVars
    <2>2. protocol = NoConn
      BY <2>1 DEF DialInv, DialOwned
    <2>3. CASE addr < Addresses /\ StartDial(addr + 1)
      <3>1. addr + 1 \in 1 .. Addresses
        BY <2>3, NumbersAssumption DEF TypeOK
      <3>2. /\ st' = [st EXCEPT ![dialing] = "lost", ![dials + 1] = "dialing"]
            /\ UNCHANGED pc
        BY <1>5, <2>3 DEF AddressFails, TypeOK
      <3>3. \A j \in Conns : st'[j] = IF j = dials + 1 THEN "dialing"
                               ELSE IF j = dialing THEN "lost" ELSE st[j]
        BY <3>2 DEF TypeOK
      <3> QED
        <4>1. /\ dials' = dials + 1 /\ dialing' = dials' /\ dialing' \in Conns
              /\ st[dialing'] = "none" /\ \A s \in Streams : conn[s] # dialing'
          BY <2>3, <3>1, StartDialEffect DEF DialInv
        <4>2. DialOwned'
          BY <2>1, <2>2, <3>2 DEF DialOwned, Dialing
        <4>3. ConnsInOrder'
          BY <2>1, <2>2, <3>3, <4>1, Numbers DEF DialInv, ConnsInOrder
        <4>4. DialUnused'
          BY <2>1, <3>3, <4>1 DEF DialUnused
        <4>5. HeldWasReady'
          BY <2>1, <2>2 DEF HeldWasReady
        <4> QED
          BY <4>2, <4>3, <4>4, <4>5 DEF DialInv
    <2>4. CASE addr = Addresses
      <3>1. /\ Finish(c, "lost") /\ st' = [st EXCEPT ![dialing] = "lost"]
            /\ dialing' = NoConn /\ dials' = dials
        BY <1>5, <2>4, NumbersAssumption DEF AddressFails
      <3>2. \A j \in Conns : st'[j] = IF j = dialing THEN "lost" ELSE st[j]
        BY <3>1 DEF TypeOK
      <3> QED
        BY <2>1, <2>2, <3>1, <3>2, Numbers
        DEF DialInv, DialOwned, ConnsInOrder, DialUnused, HeldWasReady
    <2> QED
      BY <1>5, <2>3, <2>4 DEF AddressFails
  <1>6. ASSUME NEW c \in Calls, NEW why \in {"trust", "protocol"}, DialRefused(c, why)
       PROVE  DialInv'
    BY <1>6 DEF DialRefused, Finish, TypeOK, DialInv, DialOwned, ConnsInOrder, DialUnused, HeldWasReady, LockInv, OneAtATime, Conns, NoConn, Failures, Suspended, Dialing, taskVars, wireVars, connVars, streamVars
  <1>7. ASSUME NEW c \in Calls, NEW v \in DoorVersions, DialReady(c, v)
       PROVE  DialInv'
    BY <1>7 DEF DialReady, TypeOK, DialInv, DialOwned, ConnsInOrder, DialUnused, HeldWasReady, LockInv, OneAtATime, Conns, NoConn, Failures, Suspended, Dialing, taskVars, wireVars, connVars, streamVars
  <1>8. ASSUME NEW c \in Calls, Redialed(c)
       PROVE  DialInv'
    <2> DEFINE k == dialing
               f == IF pc[c] = "heal" THEN Encode(c, k) ELSE payload[c]
    <2>1. Dialing(c) /\ k \in Conns /\ st[k] # "dialing" /\ dials' = dials
      BY <1>8, Numbers DEF Redialed
    <2>2. \A d \in Calls : Dialing(d) => d = c
      BY <2>1 DEF LockInv, OneAtATime, Dialing, Suspended
    <2>3. CASE /\ ~Ended(k) /\ Send(c, k, f) /\ UNCHANGED st
               /\ protocol' = k /\ dialing' = NoConn
      <3>1. st[k] = "up"
        BY <2>1, <2>3, Numbers DEF Ended, DialInv, DialUnused, TypeOK, Failures
      <3>2. \A d \in Calls : ~(Dialing(d)')
        BY <2>1, <2>2, <2>3, SendEffect DEF Dialing
      <3> QED
        BY <2>1, <2>3, <3>1, <3>2, SendEffect, Numbers
        DEF DialInv, DialOwned, ConnsInOrder, DialUnused, HeldWasReady
    <2>4. CASE Ended(k) /\ Heal(c, k, "reheal") /\ UNCHANGED conn
      <3>1. \A d \in Calls : d # c => pc'[d] = pc[d]
        BY <2>4 DEF Heal, Finish, TypeOK
      <3>2. \A d \in Calls : Dialing(d)' => d = c /\ protocol' = NoConn
        BY <2>1, <2>2, <2>4, <3>1 DEF Dialing, Heal, Finish, TypeOK
      <3> QED
        BY <2>1, <2>4, <3>2, HealEffect, Numbers
        DEF DialInv, DialOwned, ConnsInOrder, DialUnused, HeldWasReady
    <2>5. CASE /\ Ended(k) /\ Finish(c, st[k]) /\ UNCHANGED <<st, conn>>
               /\ protocol' = k /\ dialing' = NoConn
      <3>1. \A d \in Calls : ~(Dialing(d)')
        BY <2>1, <2>2, <2>5 DEF Dialing, Finish, TypeOK
      <3> QED
        BY <2>1, <2>5, <3>1, Numbers
        DEF DialInv, DialOwned, ConnsInOrder, DialUnused, HeldWasReady, Ended,
            Failures
    <2> QED
      BY <1>8, <2>3, <2>4, <2>5 DEF Redialed, streamVars
  <1>9. ASSUME NEW s \in Streams, NEW r \in {"reply", "protocol", "lost"}, Resumes(s, r)
       PROVE  DialInv'
    BY <1>9 DEF Resumes, TypeOK, DialInv, DialOwned, ConnsInOrder, DialUnused, HeldWasReady, LockInv, OneAtATime, Conns, NoConn, Failures, Suspended, Dialing, taskVars, wireVars, connVars, streamVars
  <1>10. ASSUME NEW k \in Conns, NEW why \in Failures, ConnEnds(k, why)
       PROVE  DialInv'
    BY <1>10 DEF ConnEnds, TypeOK, DialInv, DialOwned, ConnsInOrder, DialUnused, HeldWasReady, LockInv, OneAtATime, Conns, NoConn, Failures, Suspended, Dialing, taskVars, wireVars, connVars, streamVars
  <1>11. ASSUME NEW c \in Calls, Answered(c)
       PROVE  DialInv'
    BY <1>11 DEF Answered, Finish, TypeOK, DialInv, DialOwned, ConnsInOrder, DialUnused, HeldWasReady, LockInv, OneAtATime, Conns, NoConn, Failures, Suspended, Dialing, taskVars, wireVars, connVars, streamVars
  <1>12. ASSUME NEW c \in Calls, Refused(c)
       PROVE  DialInv'
    BY <1>12 DEF Refused, Finish, TypeOK, DialInv, DialOwned, ConnsInOrder, DialUnused, HeldWasReady, LockInv, OneAtATime, Conns, NoConn, Failures, Suspended, Dialing, taskVars, wireVars, connVars, streamVars
  <1>13. ASSUME NEW c \in Calls, ReplyLost(c)
       PROVE  DialInv'
    <2>1. pc[c] = "wait" /\ UNCHANGED <<conn, dials>>
      BY <1>13 DEF ReplyLost, streamVars
    <2>2. \A d \in Calls : ~Dialing(d)
      BY <2>1 DEF LockInv, OneAtATime, Dialing, Suspended
    <2>3. CASE Finish(c, "lost") /\ UNCHANGED <<protocol, st, dialing>>
      <3>1. \A d \in Calls : ~(Dialing(d)')
        BY <2>2, <2>3 DEF Dialing, Finish, TypeOK
      <3> QED
        BY <2>1, <2>2, <2>3, <3>1
        DEF DialInv, DialOwned, ConnsInOrder, DialUnused, HeldWasReady
    <2>4. CASE Heal(c, protocol, "heal")
      <3>1. protocol \in Conns \cup {NoConn}
        BY DEF TypeOK
      <3>2. \A d \in Calls : Dialing(d)' => protocol' = NoConn
        BY <2>1, <2>2, <2>4 DEF Dialing, Heal, Finish, TypeOK
      <3> QED
        BY <2>1, <2>4, <3>1, <3>2, HealEffect, Numbers
        DEF DialInv, DialOwned, ConnsInOrder, DialUnused, HeldWasReady
    <2> QED
      BY <1>13, <2>3, <2>4 DEF ReplyLost
  <1>14. ASSUME NEW c \in Calls, TimesOut(c)
       PROVE  DialInv'
    BY <1>14 DEF TimesOut, Finish, StillAwaiting, TypeOK, DialInv, DialOwned, ConnsInOrder, DialUnused, HeldWasReady, LockInv, OneAtATime, Conns, NoConn, Failures, Suspended, Dialing, taskVars, wireVars, connVars, streamVars
  <1>15. ASSUME NEW c \in Calls, CancelQueued(c)
       PROVE  DialInv'
    BY <1>15 DEF CancelQueued, Finish, TypeOK, DialInv, DialOwned, ConnsInOrder, DialUnused, HeldWasReady, LockInv, OneAtATime, Conns, NoConn, Failures, Suspended, Dialing, taskVars, wireVars, connVars, streamVars
  <1>16. ASSUME NEW c \in Calls, CancelDial(c)
       PROVE  DialInv'
    BY <1>16 DEF CancelDial, Finish, TypeOK, DialInv, DialOwned, ConnsInOrder, DialUnused, HeldWasReady, LockInv, OneAtATime, Conns, NoConn, Failures, Suspended, Dialing, taskVars, wireVars, connVars, streamVars
  <1>17. ASSUME NEW c \in Calls, CancelWait(c)
       PROVE  DialInv'
    BY <1>17 DEF CancelWait, Finish, StillAwaiting, TypeOK, DialInv, DialOwned, ConnsInOrder, DialUnused, HeldWasReady, LockInv, OneAtATime, Conns, NoConn, Failures, Suspended, Dialing, taskVars, wireVars, connVars, streamVars
  <1>18. ASSUME Close
       PROVE  DialInv'
    BY <1>18 DEF Close, Closing, TypeOK, DialInv, DialOwned, ConnsInOrder, DialUnused, HeldWasReady, LockInv, OneAtATime, Conns, NoConn, Failures, Suspended, Dialing, taskVars, wireVars, connVars, streamVars
  <1>19. CASE UNCHANGED vars
    BY <1>19 DEF vars, TypeOK, DialInv, DialOwned, ConnsInOrder, DialUnused, HeldWasReady, LockInv, OneAtATime, Conns, NoConn, Failures, Suspended, Dialing, taskVars, wireVars, connVars, streamVars
  <1> QED
    BY <1>1, <1>2, <1>3, <1>4, <1>5, <1>6, <1>7, <1>8, <1>9, <1>10, <1>11,
       <1>12, <1>13, <1>14, <1>15, <1>16, <1>17, <1>18, <1>19
    DEF Next, Runs, Cancel, ReplyArrives, ReplyTooLarge, StreamReset

(* A connection is let go only closed, dropped or ended. *)
LEMMA LeakStep == TypeOK /\ LockInv /\ DialInv /\ NoConnectionLeaks /\ [Next]_vars => NoConnectionLeaks'
  <1> SUFFICES ASSUME TypeOK, LockInv, DialInv, NoConnectionLeaks, [Next]_vars PROVE NoConnectionLeaks'
    OBVIOUS
  <1>1. ASSUME NEW c \in Calls, Issue(c)
       PROVE  NoConnectionLeaks'
    BY <1>1 DEF Issue, NoConnectionLeaks, TypeOK, taskVars, wireVars, connVars, streamVars
  <1>2. ASSUME NEW c \in Calls, Acquire(c)
       PROVE  NoConnectionLeaks'
    <2>1. protocol \in Conns \cup {NoConn}
      BY DEF TypeOK
    <2>2. dialing = NoConn
      BY <1>2 DEF Acquire, LockFree, DialInv, DialOwned, Dialing, Suspended
    <2>3. CASE Heal(c, protocol, "heal")
      BY <2>1, <2>2, <2>3, HealEffect, Numbers
      DEF NoConnectionLeaks, DialInv, HeldWasReady
    <2>4. CASE UNCHANGED <<protocol, st, dialing>>
      BY <2>4 DEF NoConnectionLeaks
    <2> QED
      BY <1>2, <2>3, <2>4 DEF Acquire
  <1>3. ASSUME NEW c \in Calls, Resolved(c)
       PROVE  NoConnectionLeaks'
    <2>1. /\ dialing = NoConn /\ dialing' = dials + 1 /\ protocol' = protocol
          /\ st' = [st EXCEPT ![dials + 1] = "dialing"]
      BY <1>3 DEF Resolved, StartDial, wireVars
    <2>2. \A j \in Conns : j # dials + 1 => st'[j] = st[j]
      BY <2>1 DEF TypeOK
    <2> QED
      BY <2>1, <2>2, Numbers DEF NoConnectionLeaks
  <1>4. ASSUME NEW c \in Calls, ResolveFails(c)
       PROVE  NoConnectionLeaks'
    BY <1>4 DEF ResolveFails, NoConnectionLeaks, TypeOK, taskVars, wireVars, connVars, streamVars
  <1>5. ASSUME NEW c \in Calls, AddressFails(c)
       PROVE  NoConnectionLeaks'
    <2>1. dialing \in Conns /\ protocol' = protocol
      BY <1>5, Numbers DEF AddressFails, wireVars
    <2>2. \/ /\ st' = [st EXCEPT ![dialing] = "lost", ![dials + 1] = "dialing"]
             /\ dialing' = dials + 1
          \/ st' = [st EXCEPT ![dialing] = "lost"]
      BY <1>5 DEF AddressFails, StartDial
    <2>3. \A j \in Conns : st'[j] \in {"dialing", "up"} =>
            \/ j = dialing'
            \/ j # dialing /\ st'[j] = st[j]
      BY <2>1, <2>2 DEF TypeOK
    <2> QED
      BY <2>1, <2>3 DEF NoConnectionLeaks
  <1>6. ASSUME NEW c \in Calls, NEW why \in {"trust", "protocol"}, DialRefused(c, why)
       PROVE  NoConnectionLeaks'
    BY <1>6 DEF DialRefused, NoConn, NoConnectionLeaks, TypeOK, taskVars, wireVars, connVars, streamVars
  <1>7. ASSUME NEW c \in Calls, NEW v \in DoorVersions, DialReady(c, v)
       PROVE  NoConnectionLeaks'
    BY <1>7 DEF DialReady, NoConnectionLeaks, TypeOK, taskVars, wireVars, connVars, streamVars
  <1>8. ASSUME NEW c \in Calls, Redialed(c)
       PROVE  NoConnectionLeaks'
    <2>1. dialing \in Conns /\ dialing # NoConn /\ Dialing(c)
      BY <1>8, Numbers DEF Redialed
    <2>2. protocol = NoConn
      BY <2>1 DEF DialInv, DialOwned
    <2>3. CASE protocol' = dialing /\ UNCHANGED st
      BY <2>2, <2>3, Numbers DEF NoConnectionLeaks
    <2>4. CASE Ended(dialing) /\ Heal(c, dialing, "reheal")
      BY <2>1, <2>2, <2>4, HealEffect, Numbers
      DEF NoConnectionLeaks, Ended, Failures
    <2> QED
      BY <1>8, <2>3, <2>4 DEF Redialed
  <1>9. ASSUME NEW s \in Streams, NEW r \in {"reply", "protocol", "lost"}, Resumes(s, r)
       PROVE  NoConnectionLeaks'
    BY <1>9 DEF Resumes, NoConnectionLeaks, TypeOK, taskVars, wireVars, connVars, streamVars
  <1>10. ASSUME NEW k \in Conns, NEW why \in Failures, ConnEnds(k, why)
       PROVE  NoConnectionLeaks'
    BY <1>10 DEF ConnEnds, Failures, NoConnectionLeaks, TypeOK, taskVars, wireVars, connVars, streamVars
  <1>11. ASSUME NEW c \in Calls, Answered(c)
       PROVE  NoConnectionLeaks'
    BY <1>11 DEF Answered, NoConnectionLeaks, TypeOK, taskVars, wireVars, connVars, streamVars
  <1>12. ASSUME NEW c \in Calls, Refused(c)
       PROVE  NoConnectionLeaks'
    BY <1>12 DEF Refused, NoConnectionLeaks, TypeOK, taskVars, wireVars, connVars, streamVars
  <1>13. ASSUME NEW c \in Calls, ReplyLost(c)
       PROVE  NoConnectionLeaks'
    <2>1. protocol \in Conns \cup {NoConn}
      BY DEF TypeOK
    <2>2. dialing = NoConn
      BY <1>13 DEF ReplyLost, DialInv, DialOwned, Dialing, LockInv, OneAtATime, Suspended
    <2>3. CASE Heal(c, protocol, "heal")
      BY <2>1, <2>2, <2>3, HealEffect, Numbers
      DEF NoConnectionLeaks, DialInv, HeldWasReady
    <2>4. CASE UNCHANGED <<protocol, st, dialing>>
      BY <2>4 DEF NoConnectionLeaks
    <2> QED
      BY <1>13, <2>3, <2>4 DEF ReplyLost
  <1>14. ASSUME NEW c \in Calls, TimesOut(c)
       PROVE  NoConnectionLeaks'
    BY <1>14 DEF TimesOut, NoConnectionLeaks, TypeOK, taskVars, wireVars, connVars, streamVars
  <1>15. ASSUME NEW c \in Calls, CancelQueued(c)
       PROVE  NoConnectionLeaks'
    BY <1>15 DEF CancelQueued, NoConnectionLeaks, TypeOK, taskVars, wireVars, connVars, streamVars
  <1>16. ASSUME NEW c \in Calls, CancelDial(c)
       PROVE  NoConnectionLeaks'
    BY <1>16 DEF CancelDial, NoConn, NoConnectionLeaks, TypeOK, taskVars, wireVars, connVars, streamVars
  <1>17. ASSUME NEW c \in Calls, CancelWait(c)
       PROVE  NoConnectionLeaks'
    BY <1>17 DEF CancelWait, NoConnectionLeaks, TypeOK, taskVars, wireVars, connVars, streamVars
  <1>18. ASSUME Close
       PROVE  NoConnectionLeaks'
    <2>1. st' = Closing(protocol) /\ dialing' = dialing
      BY <1>18 DEF Close
    <2>2. \A j \in Conns : st'[j] = IF j = protocol /\ st[j] = "up" THEN "closing" ELSE st[j]
      BY <2>1 DEF Closing
    <2> QED
      BY <2>1, <2>2, Numbers DEF NoConnectionLeaks, DialInv, HeldWasReady
  <1>19. CASE UNCHANGED vars
    BY <1>19 DEF vars, NoConnectionLeaks, TypeOK, taskVars, wireVars, connVars, streamVars
  <1> QED
    BY <1>1, <1>2, <1>3, <1>4, <1>5, <1>6, <1>7, <1>8, <1>9, <1>10, <1>11,
       <1>12, <1>13, <1>14, <1>15, <1>16, <1>17, <1>18, <1>19
    DEF Next, Runs, Cancel, ReplyArrives, ReplyTooLarge, StreamReset

(* A connection that ends takes every awaited reply with it. *)
LEMMA PendingStep == TypeOK /\ DialInv /\ PendingInv /\ [Next]_vars => PendingInv'
  <1> SUFFICES ASSUME TypeOK, DialInv, PendingInv, [Next]_vars PROVE PendingInv'
    OBVIOUS
  <1>1. ASSUME NEW c \in Calls, Issue(c)
       PROVE  PendingInv'
    BY <1>1 DEF Issue, PendingInv, Ended, TypeOK, taskVars, wireVars, connVars, streamVars
  <1>2. ASSUME NEW c \in Calls, Acquire(c)
       PROVE  PendingInv'
    <2>1. protocol \in Conns \cup {NoConn}
      BY DEF TypeOK
    <2>2. CASE Heal(c, protocol, "heal") /\ UNCHANGED streamVars
      BY <2>1, <2>2, HealEffect DEF PendingInv, Ended, TypeOK, Failures, streamVars
    <2>3. CASE Usable /\ Send(c, protocol, Encode(c, protocol)) /\ UNCHANGED st
      BY <2>1, <2>3, SendEffect DEF PendingInv, Usable, Ended
    <2> QED
      BY <1>2, <2>2, <2>3 DEF Acquire
  <1>3. ASSUME NEW c \in Calls, Resolved(c)
       PROVE  PendingInv'
    <2>1. /\ st' = [st EXCEPT ![dials + 1] = "dialing"] /\ UNCHANGED streamVars
      BY <1>3 DEF Resolved
    <2> QED
      BY <2>1 DEF PendingInv, Ended, TypeOK, Failures, streamVars
  <1>4. ASSUME NEW c \in Calls, ResolveFails(c)
       PROVE  PendingInv'
    BY <1>4 DEF ResolveFails, PendingInv, Ended, TypeOK, taskVars, wireVars, connVars, streamVars
  <1>5. ASSUME NEW c \in Calls, AddressFails(c)
       PROVE  PendingInv'
    <2>1. dialing \in Conns /\ dialing # NoConn /\ UNCHANGED streamVars
      BY <1>5, Numbers DEF AddressFails
    <2>2. \/ st' = [st EXCEPT ![dialing] = "lost", ![dials + 1] = "dialing"]
          \/ st' = [st EXCEPT ![dialing] = "lost"]
      BY <1>5 DEF AddressFails
    <2>3. \A j \in Conns : j # dialing => st'[j] = st[j] \/ st'[j] = "dialing"
      BY <2>1, <2>2 DEF TypeOK
    <2>4. \A s \in Streams : conn[s] # dialing
      BY <2>1 DEF DialInv, DialUnused
    <2> QED
      BY <2>1, <2>3, <2>4 DEF PendingInv, Ended, TypeOK, Failures, streamVars
  <1>6. ASSUME NEW c \in Calls, NEW why \in {"trust", "protocol"}, DialRefused(c, why)
       PROVE  PendingInv'
    <2>1. dialing \in Conns /\ dialing # NoConn /\ UNCHANGED streamVars
      BY <1>6, Numbers DEF DialRefused
    <2>2. \A j \in Conns : j # dialing => st'[j] = st[j]
      BY <1>6 DEF DialRefused, TypeOK
    <2>3. \A s \in Streams : conn[s] # dialing
      BY <2>1 DEF DialInv, DialUnused
    <2> QED
      BY <2>1, <2>2, <2>3 DEF PendingInv, Ended, TypeOK, streamVars
  <1>7. ASSUME NEW c \in Calls, NEW v \in DoorVersions, DialReady(c, v)
       PROVE  PendingInv'
    BY <1>7 DEF DialReady, Failures, PendingInv, Ended, TypeOK, taskVars, wireVars, connVars, streamVars
  <1>8. ASSUME NEW c \in Calls, Redialed(c)
       PROVE  PendingInv'
    <2>1. dialing \in Conns
      BY <1>8, Numbers DEF Redialed
    <2>2. CASE ~Ended(dialing) /\ UNCHANGED st /\ \E f : Send(c, dialing, f)
      BY <2>1, <2>2, SendEffect, Numbers DEF PendingInv, Ended
    <2>3. CASE Heal(c, dialing, "reheal") /\ UNCHANGED streamVars
      BY <2>1, <2>3, HealEffect DEF PendingInv, Ended, TypeOK, Failures, streamVars
    <2>4. CASE UNCHANGED <<st, streamVars>>
      BY <2>4 DEF PendingInv, Ended, streamVars
    <2> QED
      BY <1>8, <2>2, <2>3, <2>4 DEF Redialed
  <1>9. ASSUME NEW s \in Streams, NEW r \in {"reply", "protocol", "lost"}, Resumes(s, r)
       PROVE  PendingInv'
    BY <1>9 DEF Resumes, PendingInv, Ended, TypeOK, taskVars, wireVars, connVars, streamVars
  <1>10. ASSUME NEW k \in Conns, NEW why \in Failures, ConnEnds(k, why)
       PROVE  PendingInv'
    BY <1>10 DEF ConnEnds, FailAll, Failures, PendingInv, Ended, TypeOK, taskVars, wireVars, connVars, streamVars
  <1>11. ASSUME NEW c \in Calls, Answered(c)
       PROVE  PendingInv'
    BY <1>11 DEF Answered, PendingInv, Ended, TypeOK, taskVars, wireVars, connVars, streamVars
  <1>12. ASSUME NEW c \in Calls, Refused(c)
       PROVE  PendingInv'
    BY <1>12 DEF Refused, PendingInv, Ended, TypeOK, taskVars, wireVars, connVars, streamVars
  <1>13. ASSUME NEW c \in Calls, ReplyLost(c)
       PROVE  PendingInv'
    <2>1. protocol \in Conns \cup {NoConn} /\ UNCHANGED streamVars
      BY <1>13 DEF ReplyLost, TypeOK
    <2>2. CASE Heal(c, protocol, "heal")
      BY <2>1, <2>2, HealEffect DEF PendingInv, Ended, TypeOK, Failures, streamVars
    <2>3. CASE UNCHANGED st
      BY <2>1, <2>3 DEF PendingInv, Ended, streamVars
    <2> QED
      BY <1>13, <2>2, <2>3 DEF ReplyLost
  <1>14. ASSUME NEW c \in Calls, TimesOut(c)
       PROVE  PendingInv'
    BY <1>14 DEF TimesOut, PendingInv, Ended, TypeOK, taskVars, wireVars, connVars, streamVars
  <1>15. ASSUME NEW c \in Calls, CancelQueued(c)
       PROVE  PendingInv'
    BY <1>15 DEF CancelQueued, PendingInv, Ended, TypeOK, taskVars, wireVars, connVars, streamVars
  <1>16. ASSUME NEW c \in Calls, CancelDial(c)
       PROVE  PendingInv'
    <2>1. UNCHANGED streamVars /\ \A j \in Conns : j # dialing => st'[j] = st[j]
      BY <1>16 DEF CancelDial
    <2>2. dialing # NoConn => \A s \in Streams : conn[s] # dialing
      BY DEF DialInv, DialUnused
    <2> QED
      BY <2>1, <2>2, Numbers DEF PendingInv, Ended, TypeOK, streamVars
  <1>17. ASSUME NEW c \in Calls, CancelWait(c)
       PROVE  PendingInv'
    BY <1>17 DEF CancelWait, PendingInv, Ended, TypeOK, taskVars, wireVars, connVars, streamVars
  <1>18. ASSUME Close
       PROVE  PendingInv'
    BY <1>18 DEF Close, Closing, Failures, PendingInv, Ended, TypeOK, taskVars, wireVars, connVars, streamVars
  <1>19. CASE UNCHANGED vars
    BY <1>19 DEF vars, PendingInv, Ended, TypeOK, taskVars, wireVars, connVars, streamVars
  <1> QED
    BY <1>1, <1>2, <1>3, <1>4, <1>5, <1>6, <1>7, <1>8, <1>9, <1>10, <1>11,
       <1>12, <1>13, <1>14, <1>15, <1>16, <1>17, <1>18, <1>19
    DEF Next, Runs, Cancel, ReplyArrives, ReplyTooLarge, StreamReset

(* A call another task's step leaves alone. *)
LEMMA SendKept ==
  ASSUME NEW d \in Calls, SendOf(d),
         pc'[d] = pc[d], attempt'[d] = attempt[d], sends'[d] = sends[d],
         \A i \in {1, 2} : conn'[<<d, i>>] = conn[<<d, i>>]
                         /\ fut'[<<d, i>>] = fut[<<d, i>>],
         attempt[d] \in {1, 2}
  PROVE  SendOf(d)'
  BY DEF SendOf, Dialing, Stream

(* A call that ends. *)
LEMMA SendEnded ==
  ASSUME NEW d \in Calls, SendOf(d), pc'[d] = "done",
         attempt'[d] = attempt[d], sends'[d] = sends[d],
         \A i \in {1, 2} : conn'[<<d, i>>] = conn[<<d, i>>],
         attempt[d] = 2 => fut'[<<d, 1>>] = fut[<<d, 1>>]
  PROVE  SendOf(d)'
  BY DEF SendOf, Dialing

(* A call that starts to dial, for its first attempt or for its replay. *)
LEMMA SendDials ==
  ASSUME NEW d \in Calls, SendOf(d), pc'[d] \in {"heal", "reheal", "done"},
         sends'[d] = sends[d], sends[d] \in Nat,
         attempt'[d] \in {1, 2}, attempt'[d] = sends[d] + 1,
         UNCHANGED <<conn, fut>>,
         attempt'[d] = 2 => /\ d \in Replayable
                            /\ fut[<<d, 1>>] = "lost" /\ conn[<<d, 1>>] # NoConn
  PROVE  SendOf(d)'
  BY DEF SendOf, Dialing

(* A call that is handed to a connection. *)
LEMMA SendSent ==
  ASSUME TypeOK, NEW d \in Calls, SendOf(d), NEW k \in Conns, NEW f,
         Send(d, k, f), attempt'[d] = attempt[d], sends[d] = attempt[d] - 1,
         attempt[d] = 2 => conn[<<d, 1>>] # k
  PROVE  SendOf(d)'
  <1>1. attempt[d] \in {1, 2} /\ sends[d] \in Nat /\ k # NoConn
    BY Numbers DEF TypeOK
  <1>2. /\ conn'[Stream(d)] = k /\ fut'[Stream(d)] = "pending"
        /\ sends'[d] = attempt[d] /\ pc'[d] = "wait"
    BY <1>1, SendEffect
  <1>3. Stream(d)' = Stream(d) /\ <<d, 1>> \in Streams
    BY DEF Stream, Streams
  <1>4. attempt[d] = 2 => /\ <<d, 1>> # Stream(d) /\ <<d, 2>> = Stream(d)
                          /\ conn'[<<d, 1>>] = conn[<<d, 1>>]
                          /\ fut'[<<d, 1>>] = fut[<<d, 1>>]
    <2> SUFFICES ASSUME attempt[d] = 2
                 PROVE  /\ <<d, 1>> # Stream(d) /\ <<d, 2>> = Stream(d)
                        /\ conn'[<<d, 1>>] = conn[<<d, 1>>]
                        /\ fut'[<<d, 1>>] = fut[<<d, 1>>]
      OBVIOUS
    <2>1. <<d, 1>> # Stream(d) /\ <<d, 2>> = Stream(d)
      BY DEF Stream
    <2> QED
      BY <1>3, <2>1, SendEffect
  <1> QED
    BY <1>1, <1>2, <1>3, <1>4 DEF SendOf, Dialing

(* A call is handed over once an attempt, the second on a new connection. *)
LEMMA SendStep == TypeOK /\ DialInv /\ SendInv /\ [Next]_vars => SendInv'
  <1> SUFFICES ASSUME TypeOK, DialInv, SendInv, [Next]_vars PROVE SendInv'
    OBVIOUS
  <1>1. ASSUME NEW c \in Calls, Issue(c)
       PROVE  SendInv'
    BY <1>1 DEF Issue, SendInv, SendOf, Dialing, Stream, Streams, TypeOK, taskVars, wireVars, connVars, streamVars
  <1>2. ASSUME NEW c \in Calls, Acquire(c)
       PROVE  SendInv'
    <2>1. /\ SendOf(c) /\ attempt' = attempt /\ sends[c] = attempt[c] - 1
          /\ attempt[c] \in {1, 2} /\ attempt[c] # 2 /\ sends[c] \in Nat
      BY <1>2 DEF Acquire, SendInv, SendOf
    <2>2. ASSUME NEW d \in Calls, d # c,
                 pc'[d] = pc[d], attempt'[d] = attempt[d], UNCHANGED streamVars
          PROVE  SendOf(d)'
      BY <2>2, SendKept DEF SendInv, TypeOK, streamVars
    <2>3. ASSUME NEW d \in Calls, d # c, NEW k \in Conns, NEW f, Send(c, k, f),
                 UNCHANGED attempt
          PROVE  SendOf(d)'
      <3>1. \A i \in {1, 2} : <<d, i>> \in Streams /\ <<d, i>> # Stream(c)
        BY <2>3 DEF Streams, Stream
      <3>2. \A i \in {1, 2} : conn'[<<d, i>>] = conn[<<d, i>>]
                            /\ fut'[<<d, i>>] = fut[<<d, i>>]
        BY <2>3, <3>1, SendEffect
      <3>3. sends'[d] = sends[d] /\ pc'[d] = pc[d]
        BY <2>3, SendEffect
      <3> QED
        BY <2>3, <3>2, <3>3, SendKept DEF SendInv, TypeOK
    <2>4. CASE ~Usable
      <3>1. Heal(c, protocol, "heal") /\ UNCHANGED streamVars
        BY <1>2, <2>4 DEF Acquire
      <3>2. /\ pc'[c] \in {"heal", "done"}
            /\ \A d \in Calls : d # c => pc'[d] = pc[d]
        BY <3>1 DEF Heal, Finish, TypeOK
      <3>3. SendOf(c)'
        BY <2>1, <3>1, <3>2, SendDials DEF SendOf, streamVars
      <3> QED
        BY <2>1, <2>2, <3>1, <3>2, <3>3 DEF SendInv
    <2>5. CASE Usable
      <3>1. protocol \in Conns /\ Send(c, protocol, Encode(c, protocol))
        BY <1>2, <2>5, Numbers DEF Acquire, Usable
      <3>2. SendOf(c)'
        BY <2>1, <3>1, SendSent
      <3> QED
        BY <2>1, <2>3, <3>1, <3>2 DEF SendInv
    <2> QED
      BY <2>4, <2>5
  <1>3. ASSUME NEW c \in Calls, Resolved(c)
       PROVE  SendInv'
    BY <1>3 DEF Resolved, SendInv, SendOf, Dialing, Stream, Streams, TypeOK, taskVars, wireVars, connVars, streamVars
  <1>4. ASSUME NEW c \in Calls, ResolveFails(c)
       PROVE  SendInv'
    BY <1>4 DEF ResolveFails, Finish, SendInv, SendOf, Dialing, Stream, Streams, TypeOK, taskVars, wireVars, connVars, streamVars
  <1>5. ASSUME NEW c \in Calls, AddressFails(c)
       PROVE  SendInv'
    <2>1. /\ Dialing(c) /\ UNCHANGED <<attempt, streamVars>>
          /\ UNCHANGED pc \/ Finish(c, "lost")
      BY <1>5 DEF AddressFails
    <2>2. CASE UNCHANGED pc
      BY <2>1, <2>2 DEF SendInv, SendOf, Dialing, Stream, streamVars
    <2>3. CASE Finish(c, "lost")
      BY <2>1, <2>3 DEF Finish, SendInv, SendOf, Dialing, Stream, TypeOK, streamVars
    <2> QED
      BY <2>1, <2>2, <2>3
  <1>6. ASSUME NEW c \in Calls, NEW why \in {"trust", "protocol"}, DialRefused(c, why)
       PROVE  SendInv'
    BY <1>6 DEF DialRefused, Finish, SendInv, SendOf, Dialing, Stream, Streams, TypeOK, taskVars, wireVars, connVars, streamVars
  <1>7. ASSUME NEW c \in Calls, NEW v \in DoorVersions, DialReady(c, v)
       PROVE  SendInv'
    BY <1>7 DEF DialReady, SendInv, SendOf, Dialing, Stream, Streams, TypeOK, taskVars, wireVars, connVars, streamVars
  <1>8. ASSUME NEW c \in Calls, Redialed(c)
       PROVE  SendInv'
    <2> DEFINE k == dialing
               f == IF pc[c] = "heal" THEN Encode(c, k) ELSE payload[c]
    <2>1. /\ SendOf(c) /\ Dialing(c) /\ k \in Conns /\ k # NoConn
          /\ attempt' = attempt /\ sends[c] = attempt[c] - 1
          /\ attempt[c] \in {1, 2} /\ sends[c] \in Nat
      BY <1>8, Numbers DEF Redialed, SendInv, SendOf, TypeOK
    <2>2. ASSUME NEW d \in Calls, d # c,
                 pc'[d] = pc[d], attempt'[d] = attempt[d], UNCHANGED streamVars
          PROVE  SendOf(d)'
      BY <2>2, SendKept DEF SendInv, TypeOK, streamVars
    <2>3. ASSUME NEW d \in Calls, d # c, NEW j \in Conns, NEW g, Send(c, j, g),
                 UNCHANGED attempt
          PROVE  SendOf(d)'
      <3>1. \A i \in {1, 2} : <<d, i>> \in Streams /\ <<d, i>> # Stream(c)
        BY <2>3 DEF Streams, Stream
      <3>2. \A i \in {1, 2} : conn'[<<d, i>>] = conn[<<d, i>>]
                            /\ fut'[<<d, i>>] = fut[<<d, i>>]
        BY <2>3, <3>1, SendEffect
      <3>3. sends'[d] = sends[d] /\ pc'[d] = pc[d]
        BY <2>3, SendEffect
      <3> QED
        BY <2>3, <3>2, <3>3, SendKept DEF SendInv, TypeOK
    <2>4. CASE Send(c, k, f)
      <3>1. <<c, 1>> \in Streams
        BY DEF Streams
      <3>2. conn[<<c, 1>>] # k
        BY <2>1, <3>1 DEF DialInv, DialUnused
      <3>3. SendOf(c)'
        BY <2>1, <2>4, <3>2, SendSent
      <3> QED
        BY <2>1, <2>3, <2>4, <3>3 DEF SendInv
    <2>5. CASE Heal(c, k, "reheal") /\ UNCHANGED streamVars
      <3>1. /\ pc'[c] \in {"reheal", "done"}
            /\ \A d \in Calls : d # c => pc'[d] = pc[d]
        BY <2>5 DEF Heal, Finish, TypeOK
      <3>2. SendOf(c)'
        BY <2>1, <2>5, <3>1, SendDials DEF SendOf, streamVars
      <3> QED
        BY <2>1, <2>2, <2>5, <3>1, <3>2 DEF SendInv
    <2>6. CASE Finish(c, st[k]) /\ UNCHANGED streamVars
      <3>1. pc'[c] = "done" /\ \A d \in Calls : d # c => pc'[d] = pc[d]
        BY <2>6 DEF Finish, TypeOK
      <3>2. SendOf(c)'
        BY <2>1, <2>6, <3>1, SendEnded DEF streamVars
      <3> QED
        BY <2>1, <2>2, <2>6, <3>1, <3>2 DEF SendInv
    <2> QED
      BY <1>8, <2>4, <2>5, <2>6 DEF Redialed
  <1>9. ASSUME NEW s \in Streams, NEW r \in {"reply", "protocol", "lost"}, Resumes(s, r)
       PROVE  SendInv'
    BY <1>9 DEF Resumes, SendInv, SendOf, Dialing, Stream, Streams, TypeOK, taskVars, wireVars, connVars, streamVars
  <1>10. ASSUME NEW k \in Conns, NEW why \in Failures, ConnEnds(k, why)
       PROVE  SendInv'
    BY <1>10 DEF ConnEnds, FailAll, Failures, SendInv, SendOf, Dialing, Stream, Streams, TypeOK, taskVars, wireVars, connVars, streamVars
  <1>11. ASSUME NEW c \in Calls, Answered(c)
       PROVE  SendInv'
    BY <1>11 DEF Answered, Finish, SendInv, SendOf, Dialing, Stream, Streams, TypeOK, taskVars, wireVars, connVars, streamVars
  <1>12. ASSUME NEW c \in Calls, Refused(c)
       PROVE  SendInv'
    BY <1>12 DEF Refused, Finish, SendInv, SendOf, Dialing, Stream, Streams, TypeOK, taskVars, wireVars, connVars, streamVars
  <1>13. ASSUME NEW c \in Calls, ReplyLost(c)
       PROVE  SendInv'
    <2>1. /\ pc[c] = "wait" /\ fut[Stream(c)] = "lost" /\ SendOf(c)
          /\ attempt[c] \in {1, 2} /\ UNCHANGED streamVars
      BY <1>13 DEF ReplyLost, SendInv, TypeOK
    <2>2. ASSUME NEW d \in Calls, d # c,
                 pc'[d] = pc[d], attempt'[d] = attempt[d], UNCHANGED streamVars
          PROVE  SendOf(d)'
      BY <2>2, SendKept DEF SendInv, TypeOK, streamVars
    <2>3. CASE Finish(c, "lost") /\ UNCHANGED attempt
      <3>1. pc'[c] = "done" /\ \A d \in Calls : d # c => pc'[d] = pc[d]
        BY <2>3 DEF Finish, TypeOK
      <3>2. SendOf(c)'
        BY <2>1, <2>3, <3>1, SendEnded DEF streamVars
      <3> QED
        BY <2>1, <2>2, <2>3, <3>1, <3>2 DEF SendInv
    <2>4. CASE MayReplay(c) /\ attempt' = [attempt EXCEPT ![c] = 2]
               /\ Heal(c, protocol, "heal")
      <3>1. /\ pc'[c] \in {"heal", "done"} /\ attempt'[c] = 2
            /\ \A d \in Calls : d # c => pc'[d] = pc[d] /\ attempt'[d] = attempt[d]
        BY <2>4 DEF Heal, Finish, TypeOK
      <3>2. c \in Replayable /\ Stream(c) = <<c, 1>> /\ sends[c] = 1
        BY <2>1, <2>4 DEF MayReplay, Stream, SendOf
      <3>3. SendOf(c)'
        BY <2>1, <3>1, <3>2, SendDials DEF SendOf, streamVars
      <3> QED
        BY <2>1, <2>2, <3>1, <3>3 DEF SendInv
    <2> QED
      BY <1>13, <2>3, <2>4 DEF ReplyLost
  <1>14. ASSUME NEW c \in Calls, TimesOut(c)
       PROVE  SendInv'
    <2>1. /\ pc[c] = "wait" /\ Finish(c, outcome'[c])
          /\ fut' = [fut EXCEPT ![Stream(c)] = "dropped"]
          /\ UNCHANGED <<attempt, conn, sends>>
      BY <1>14 DEF TimesOut, StillAwaiting, Finish, TypeOK
    <2>2. \A d \in Calls, i \in {1, 2} : <<d, i>> \in Streams
      BY DEF Streams
    <2>3. SendOf(c)'
      <3>1. attempt[c] = 2 => fut'[<<c, 1>>] = fut[<<c, 1>>]
        BY <2>1, <2>2 DEF TypeOK, Stream
      <3>2. pc'[c] = "done"
        BY <2>1 DEF Finish, TypeOK
      <3> QED
        BY <2>1, <3>1, <3>2, SendEnded DEF SendInv
    <2>4. ASSUME NEW d \in Calls, d # c PROVE SendOf(d)'
      <3>1. \A i \in {1, 2} : fut'[<<d, i>>] = fut[<<d, i>>]
        BY <2>1, <2>2, <2>4 DEF TypeOK, Stream
      <3>2. pc'[d] = pc[d] /\ attempt[d] \in {1, 2}
        BY <2>1, <2>4 DEF Finish, TypeOK
      <3> QED
        BY <2>1, <3>1, <3>2, SendKept DEF SendInv
    <2> QED
      BY <2>3, <2>4 DEF SendInv
  <1>15. ASSUME NEW c \in Calls, CancelQueued(c)
       PROVE  SendInv'
    BY <1>15 DEF CancelQueued, Finish, SendInv, SendOf, Dialing, Stream, Streams, TypeOK, taskVars, wireVars, connVars, streamVars
  <1>16. ASSUME NEW c \in Calls, CancelDial(c)
       PROVE  SendInv'
    BY <1>16 DEF CancelDial, Finish, SendInv, SendOf, Dialing, Stream, Streams, TypeOK, taskVars, wireVars, connVars, streamVars
  <1>17. ASSUME NEW c \in Calls, CancelWait(c)
       PROVE  SendInv'
    <2>1. /\ pc[c] = "wait" /\ Finish(c, outcome'[c])
          /\ fut' = [fut EXCEPT ![Stream(c)] = "dropped"]
          /\ UNCHANGED <<attempt, conn, sends>>
      BY <1>17 DEF CancelWait, StillAwaiting, Finish, TypeOK
    <2>2. \A d \in Calls, i \in {1, 2} : <<d, i>> \in Streams
      BY DEF Streams
    <2>3. SendOf(c)'
      <3>1. attempt[c] = 2 => fut'[<<c, 1>>] = fut[<<c, 1>>]
        BY <2>1, <2>2 DEF TypeOK, Stream
      <3>2. pc'[c] = "done"
        BY <2>1 DEF Finish, TypeOK
      <3> QED
        BY <2>1, <3>1, <3>2, SendEnded DEF SendInv
    <2>4. ASSUME NEW d \in Calls, d # c PROVE SendOf(d)'
      <3>1. \A i \in {1, 2} : fut'[<<d, i>>] = fut[<<d, i>>]
        BY <2>1, <2>2, <2>4 DEF TypeOK, Stream
      <3>2. pc'[d] = pc[d] /\ attempt[d] \in {1, 2}
        BY <2>1, <2>4 DEF Finish, TypeOK
      <3> QED
        BY <2>1, <3>1, <3>2, SendKept DEF SendInv
    <2> QED
      BY <2>3, <2>4 DEF SendInv
  <1>18. ASSUME Close
       PROVE  SendInv'
    BY <1>18 DEF Close, SendInv, SendOf, Dialing, Stream, Streams, TypeOK, taskVars, wireVars, connVars, streamVars
  <1>19. CASE UNCHANGED vars
    BY <1>19 DEF vars, SendInv, SendOf, Dialing, Stream, Streams, TypeOK, taskVars, wireVars, connVars, streamVars
  <1> QED
    BY <1>1, <1>2, <1>3, <1>4, <1>5, <1>6, <1>7, <1>8, <1>9, <1>10, <1>11,
       <1>12, <1>13, <1>14, <1>15, <1>16, <1>17, <1>18, <1>19
    DEF Next, Runs, Cancel, ReplyArrives, ReplyTooLarge, StreamReset

(* A call is given its outcome by the step that ends it. *)
LEMMA DoneStep == TypeOK /\ DoneInv /\ [Next]_vars => DoneInv'
  <1> SUFFICES ASSUME TypeOK, DoneInv, [Next]_vars PROVE DoneInv'
    OBVIOUS
  <1>1. ASSUME NEW c \in Calls, Issue(c)
       PROVE  DoneInv'
    BY <1>1 DEF Issue, DoneInv, TypeOK, taskVars
  <1>2. ASSUME NEW c \in Calls, Acquire(c)
       PROVE  DoneInv'
    BY <1>2 DEF Acquire, Send, Heal, Finish, DoneInv, TypeOK, taskVars
  <1>3. ASSUME NEW c \in Calls, Resolved(c)
       PROVE  DoneInv'
    BY <1>3 DEF Resolved, DoneInv, TypeOK, taskVars
  <1>4. ASSUME NEW c \in Calls, ResolveFails(c)
       PROVE  DoneInv'
    BY <1>4 DEF ResolveFails, Finish, DoneInv, TypeOK, taskVars
  <1>5. ASSUME NEW c \in Calls, AddressFails(c)
       PROVE  DoneInv'
    BY <1>5 DEF AddressFails, Finish, DoneInv, TypeOK, taskVars
  <1>6. ASSUME NEW c \in Calls, NEW why \in {"trust", "protocol"}, DialRefused(c, why)
       PROVE  DoneInv'
    BY <1>6 DEF DialRefused, Finish, DoneInv, TypeOK, taskVars
  <1>7. ASSUME NEW c \in Calls, NEW v \in DoorVersions, DialReady(c, v)
       PROVE  DoneInv'
    BY <1>7 DEF DialReady, DoneInv, TypeOK, taskVars
  <1>8. ASSUME NEW c \in Calls, Redialed(c)
       PROVE  DoneInv'
    BY <1>8 DEF Redialed, Dialing, Send, Heal, Finish, DoneInv, TypeOK
  <1>9. ASSUME NEW s \in Streams, NEW r \in {"reply", "protocol", "lost"}, Resumes(s, r)
       PROVE  DoneInv'
    BY <1>9 DEF Resumes, DoneInv, TypeOK, taskVars
  <1>10. ASSUME NEW k \in Conns, NEW why \in Failures, ConnEnds(k, why)
       PROVE  DoneInv'
    BY <1>10 DEF ConnEnds, DoneInv, TypeOK, taskVars
  <1>11. ASSUME NEW c \in Calls, Answered(c)
       PROVE  DoneInv'
    BY <1>11 DEF Answered, Finish, DoneInv, TypeOK, taskVars
  <1>12. ASSUME NEW c \in Calls, Refused(c)
       PROVE  DoneInv'
    BY <1>12 DEF Refused, Finish, DoneInv, TypeOK, taskVars
  <1>13. ASSUME NEW c \in Calls, ReplyLost(c)
       PROVE  DoneInv'
    BY <1>13 DEF ReplyLost, Heal, Finish, DoneInv, TypeOK, taskVars
  <1>14. ASSUME NEW c \in Calls, TimesOut(c)
       PROVE  DoneInv'
    BY <1>14 DEF TimesOut, Finish, StillAwaiting, DoneInv, TypeOK, taskVars
  <1>15. ASSUME NEW c \in Calls, CancelQueued(c)
       PROVE  DoneInv'
    BY <1>15 DEF CancelQueued, Finish, DoneInv, TypeOK, taskVars
  <1>16. ASSUME NEW c \in Calls, CancelDial(c)
       PROVE  DoneInv'
    BY <1>16 DEF CancelDial, Finish, DoneInv, TypeOK, taskVars
  <1>17. ASSUME NEW c \in Calls, CancelWait(c)
       PROVE  DoneInv'
    BY <1>17 DEF CancelWait, Finish, StillAwaiting, DoneInv, TypeOK, taskVars
  <1>18. ASSUME Close
       PROVE  DoneInv'
    BY <1>18 DEF Close, DoneInv, TypeOK, taskVars
  <1>19. CASE UNCHANGED vars
    BY <1>19 DEF vars, DoneInv, TypeOK, taskVars
  <1> QED
    BY <1>1, <1>2, <1>3, <1>4, <1>5, <1>6, <1>7, <1>8, <1>9, <1>10, <1>11,
       <1>12, <1>13, <1>14, <1>15, <1>16, <1>17, <1>18, <1>19
    DEF Next, Runs, Cancel, ReplyArrives, ReplyTooLarge, StreamReset
-----------------------------------------------------------------------------
LEMMA InitIInv == Init => IInv
  <1> SUFFICES ASSUME Init PROVE IInv
    OBVIOUS
  <1>1. TypeOK
    <2>1. 1 \in Conns /\ 0 \in 0 .. Addresses /\ 0 \in Nat
      BY NumbersAssumption DEF Conns
    <2>2. PICK v \in DoorVersions : ver = [k \in Conns |-> v] /\ serverVersion = v
      BY DEF Init
    <2>3. /\ pc \in [Calls -> {"idle", "queued", "done"} \cup Suspended]
          /\ attempt \in [Calls -> {1, 2}] /\ sends \in [Calls -> Nat]
          /\ outcome \in [Calls -> {"none", "reply", "cancelled"} \cup Failures]
          /\ built \in [Calls -> Forms] /\ payload \in [Calls -> Forms]
          /\ lockq \in Seq(Calls)
      BY DEF Init, Forms
    <2>4. /\ conn \in [Streams -> Conns \cup {NoConn}]
          /\ form \in [Streams -> Forms]
          /\ fut \in [Streams -> {"none", "pending", "reply", "dropped"} \cup Failures]
          /\ st \in [Conns -> {"none", "dialing", "up", "closing"} \cup Failures]
      BY DEF Init, Forms
    <2> QED
      BY <2>1, <2>2, <2>3, <2>4 DEF Init, TypeOK
  <1>2. LockInv /\ DoneInv
    BY DEF Init, LockInv, OneAtATime, Suspended, DoneInv
  <1>3. DialInv
    BY <1>1, Numbers, NumbersAssumption
    DEF Init, DialInv, DialOwned, ConnsInOrder, DialUnused, HeldWasReady,
        Dialing, Conns, NoConn
  <1>4. SendInv /\ PendingInv
    BY DEF Init, SendInv, SendOf, Dialing, PendingInv
  <1>5. NoConnectionLeaks /\ PingedWhileOpen
    BY DEF Init, NoConnectionLeaks, PingedWhileOpen
  <1> QED
    BY <1>1, <1>2, <1>3, <1>4, <1>5 DEF IInv

LEMMA StepIInv == IInv /\ [Next]_vars => IInv'
  BY TypeStep, LockStep, DialStep, SendStep, PendingStep, DoneStep, LeakStep,
     PingStep DEF IInv

LEMMA Invariance == Spec => []IInv
  BY InitIInv, StepIInv, PTL DEF Spec

(***************************************************************************)
(* Every variable keeps its type, in every state of every client.          *)
(***************************************************************************)
THEOREM TypeCorrect == Spec => []TypeOK
  <1>1. IInv => TypeOK
    BY DEF IInv
  <1> QED
    BY <1>1, Invariance, PTL

(***************************************************************************)
(* A write is handed to a door at most once, a read at most twice and the  *)
(* second time only because its first reply was lost, on another           *)
(* connection: whatever the calls, doors, losses and cancellations         *)
(* (round_trip).                                                           *)
(***************************************************************************)
THEOREM AtMostOnceForWrites == Spec => []SentAgainOnlyIfLost
  <1>1. IInv => SentAgainOnlyIfLost
    <2> SUFFICES ASSUME IInv, NEW c \in Calls
                 PROVE  /\ sends[c] <= IF c \in Replayable THEN 2 ELSE 1
                        /\ sends[c] = 2 => /\ fut[<<c, 1>>] = "lost"
                                           /\ conn[<<c, 2>>] # conn[<<c, 1>>]
      BY DEF SentAgainOnlyIfLost
    <2>1. SendOf(c) /\ attempt[c] \in {1, 2} /\ sends[c] \in Nat
      BY DEF IInv, SendInv, TypeOK
    <2> QED
      BY <2>1 DEF SendOf
  <1> QED
    BY <1>1, Invariance, PTL

(* No two calls are inside the lock: dials, sends and waits never overlap. *)
THEOREM CallsSentOneAtATime == Spec => []OneAtATime
  <1>1. IInv => OneAtATime
    BY DEF IInv, LockInv
  <1> QED
    BY <1>1, Invariance, PTL

(* No future stays pending on a connection that has ended (_terminated).   *)
THEOREM NothingAwaitedFromTheDead == Spec => []EndedConnectionOwesNothing
  <1>1. IInv => EndedConnectionOwesNothing
    BY DEF IInv, PendingInv, EndedConnectionOwesNothing
  <1> QED
    BY <1>1, Invariance, PTL

(* Every open connection is the wire's or the dial's: none leaks (_drop,   *)
(* _dial_one, _redial).                                                    *)
THEOREM ConnectionsKept == Spec => []NoConnectionLeaks
  <1>1. IInv => NoConnectionLeaks
    BY DEF IInv
  <1> QED
    BY <1>1, Invariance, PTL

(* An open connection of the wire's is pinged until close() (_redial and   *)
(* close).                                                                 *)
THEOREM PingedUntilClosed == Spec => []PingedWhileOpen
  <1>1. IInv => PingedWhileOpen
    BY DEF IInv
  <1> QED
    BY <1>1, Invariance, PTL
-----------------------------------------------------------------------------
(* What a step of QuicWire may never do, and that every client is one       *)
(* RoundTrips describes.                                                    *)

(***************************************************************************)
(* Which steps hand a call over: Acquire on the wire's own connection, and *)
(* Redialed on the connection it dialed.                                   *)
(***************************************************************************)
LEMMA WhoSends ==
  ASSUME IInv, [Next]_vars, sends' # sends
  PROVE  \E c \in Calls :
           /\ pc[c] # "done" /\ pc' = [pc EXCEPT ![c] = "wait"]
           /\ outcome' = outcome
           /\ sends' = [sends EXCEPT ![c] = @ + 1]
           /\ \/ /\ pc[c] = "queued" /\ LockFree /\ Usable /\ protocol' = protocol
                 /\ Send(c, protocol, Encode(c, protocol)) /\ UNCHANGED <<st, ver>>
              \/ /\ Dialing(c) /\ dialing # NoConn
                 /\ st[dialing] # "dialing" /\ ~Ended(dialing)
                 /\ Send(c, dialing,
                         IF pc[c] = "heal" THEN Encode(c, dialing) ELSE payload[c])
                 /\ protocol' = dialing /\ UNCHANGED <<st, ver>>
  <1> USE DEF streamVars
  <1>1. ASSUME NEW c \in Calls, Issue(c) PROVE FALSE
    BY <1>1 DEF Issue
  <1>2. ASSUME NEW c \in Calls, Acquire(c)
        PROVE  /\ pc[c] = "queued" /\ LockFree /\ Usable /\ UNCHANGED <<protocol, outcome>>
               /\ Send(c, protocol, Encode(c, protocol)) /\ UNCHANGED <<st, ver>>
    BY <1>2 DEF Acquire
  <1>3. ASSUME NEW c \in Calls, Redialed(c)
        PROVE  /\ Dialing(c) /\ dialing # NoConn
               /\ st[dialing] # "dialing" /\ ~Ended(dialing)
               /\ Send(c, dialing,
                       IF pc[c] = "heal" THEN Encode(c, dialing) ELSE payload[c])
               /\ protocol' = dialing /\ UNCHANGED <<st, ver, outcome>>
    BY <1>3 DEF Redialed
  <1>4. \E c \in Calls : Acquire(c) \/ Redialed(c)
    BY DEF Next, Runs, Cancel, Issue, Resolved, ResolveFails, AddressFails,
           DialRefused, DialReady, ReplyArrives, ReplyTooLarge, StreamReset,
           Resumes, ConnEnds, Answered, Refused, ReplyLost, TimesOut,
           CancelQueued, CancelDial, CancelWait, Close, vars
  <1>5. PICK c \in Calls : Acquire(c) \/ Redialed(c)
    BY <1>4
  <1>6. CASE Acquire(c)
    BY <1>2, <1>6 DEF Send
  <1>7. CASE Redialed(c)
    BY <1>3, <1>7 DEF Send, Dialing
  <1> QED
    BY <1>5, <1>6, <1>7

(***************************************************************************)
(* A connection whose door could not describe itself in time carries no    *)
(* further call: whatever is sent next is sent on a connection of its own  *)
(* (round_trip, _attempt).                                                 *)
(***************************************************************************)
THEOREM StaleNeverReused == Spec => StaleConnectionNeverReused
  <1>1. ASSUME IInv, [Next]_vars
        PROVE  [stale /\ sends' # sends
                 => \E s \in Streams : fut'[s] = "pending" /\ st[conn'[s]] = "up"
                             /\ conn'[s] \notin {conn[t] : t \in Streams}]_vars
    <2> SUFFICES ASSUME stale, sends' # sends
                 PROVE  \E s \in Streams : fut'[s] = "pending" /\ st[conn'[s]] = "up"
                             /\ conn'[s] \notin {conn[t] : t \in Streams}
      OBVIOUS
    <2>1. PICK c \in Calls :
            /\ Dialing(c) /\ dialing # NoConn
            /\ st[dialing] # "dialing" /\ ~Ended(dialing)
            /\ \E f : Send(c, dialing, f)
      BY <1>1, WhoSends DEF Usable
    <2>2. Stream(c) \in Streams /\ dialing \in Conns
      BY <1>1, <2>1, StreamType, Numbers DEF IInv
    <2>3. conn'[Stream(c)] = dialing /\ fut'[Stream(c)] = "pending"
      BY <1>1, <2>1, <2>2, SendEffect DEF IInv
    <2>4. st[dialing] = "up" /\ dialing \notin {conn[t] : t \in Streams}
      BY <1>1, <2>1, <2>2 DEF IInv, DialInv, DialUnused, Ended, TypeOK, Failures
    <2> QED
      BY <2>2, <2>3, <2>4
  <1> QED
    BY <1>1, Invariance, PTL DEF Spec, StaleConnectionNeverReused

(***************************************************************************)
(* While the wire holds a connection refused on trust, nothing is dialed   *)
(* and nothing is sent: every call meets the same refusal, until close()   *)
(* (_heal).                                                                *)
(***************************************************************************)
THEOREM TrustSticks == Spec => TrustRefusalSticks
  <1>1. ASSUME IInv, [Next]_vars
        PROVE  [protocol # NoConn /\ st[protocol] = "trust"
                  => UNCHANGED <<dials, sends>> /\ (protocol' = protocol \/ Close)]_vars
    <2> SUFFICES ASSUME protocol # NoConn, st[protocol] = "trust"
                 PROVE  UNCHANGED <<dials, sends>> /\ (protocol' = protocol \/ Close)
      OBVIOUS
    <2>1. TrustRefused(protocol) /\ ~Usable
      BY DEF TrustRefused, Usable, Ended, Failures
    <2>2. \A c \in Calls : ~Dialing(c)
      BY <1>1 DEF IInv, DialInv, DialOwned
    <2>3. sends' = sends
      BY <1>1, <2>1, <2>2, WhoSends
    <2>4. dials' = dials
      BY <1>1, <2>2
      DEF Next, Runs, Cancel, Issue, Acquire, Resolved, ResolveFails,
          AddressFails, DialRefused, DialReady, Redialed, ReplyArrives,
          ReplyTooLarge, StreamReset, Resumes, ConnEnds, Answered, Refused,
          ReplyLost, TimesOut, CancelQueued, CancelDial, CancelWait, Close,
          vars, connVars
    <2>5. protocol' = protocol \/ Close
      BY <1>1, <2>1, <2>2
      DEF Next, Runs, Cancel, Issue, Acquire, Heal, Resolved, ResolveFails,
          AddressFails, DialRefused, DialReady, Redialed, ReplyArrives,
          ReplyTooLarge, StreamReset, Resumes, ConnEnds, Answered, Refused,
          ReplyLost, TimesOut, CancelQueued, CancelDial, CancelWait,
          vars, wireVars
    <2> QED
      BY <2>3, <2>4, <2>5
  <1> QED
    BY <1>1, Invariance, PTL DEF Spec, TrustRefusalSticks
-----------------------------------------------------------------------------
(***************************************************************************)
(* Before Python 3.12 the dial is a task of its own, and what it dialed    *)
(* may end before the call resumes.  Without that, no call is healed a     *)
(* second time, and each is encoded for the connection it is sent on.      *)
(***************************************************************************)
HealedOnce ==
  /\ dialing # NoConn => ~Ended(dialing)
  /\ \A c \in Calls : pc[c] # "reheal"

HeardByNew ==
  \A s \in Streams :
    form[s] = "with" => conn[s] \in Conns /\ ver[conn[s]] >= IssueWithSince


(* With no task of its own, a dial that returns is used before it can end. *)
LEMMA HealedOnceStep == ~Python311 /\ TypeOK /\ DialInv /\ HealedOnce /\ [Next]_vars => HealedOnce'
  <1> SUFFICES ASSUME ~Python311, TypeOK, DialInv, HealedOnce, [Next]_vars PROVE HealedOnce'
    OBVIOUS
  <1>1. ASSUME NEW c \in Calls, Issue(c)
       PROVE  HealedOnce'
    BY <1>1 DEF Issue, HealedOnce, Ended, NoConn, TypeOK, taskVars, wireVars, connVars
  <1>2. ASSUME NEW c \in Calls, Acquire(c)
       PROVE  HealedOnce'
    <2>1. \A d \in Calls : pc'[d] # "reheal"
      BY <1>2 DEF Acquire, Send, Heal, Finish, HealedOnce, TypeOK
    <2>2. dialing' = NoConn \/ UNCHANGED <<dialing, st>>
      BY <1>2 DEF Acquire, Heal
    <2> QED
      BY <2>1, <2>2 DEF HealedOnce, Ended
  <1>3. ASSUME NEW c \in Calls, Resolved(c)
       PROVE  HealedOnce'
    <2>1. /\ StartDial(1) /\ st' = [st EXCEPT ![dials + 1] = "dialing"]
          /\ UNCHANGED pc
      BY <1>3 DEF Resolved, taskVars
    <2>2. dials + 1 \in Conns
      BY <2>1, NumbersAssumption DEF StartDial, TypeOK, Conns
    <2>3. st'[dialing'] = "dialing"
      BY <2>1, <2>2 DEF StartDial, TypeOK
    <2> QED
      BY <2>1, <2>3 DEF HealedOnce, Ended, Failures
  <1>4. ASSUME NEW c \in Calls, ResolveFails(c)
       PROVE  HealedOnce'
    BY <1>4 DEF ResolveFails, Finish, HealedOnce, Ended, NoConn, TypeOK, taskVars, wireVars, connVars
  <1>5. ASSUME NEW c \in Calls, AddressFails(c)
       PROVE  HealedOnce'
    <2>1. \A d \in Calls : pc'[d] # "reheal"
      BY <1>5 DEF AddressFails, Finish, HealedOnce, TypeOK
    <2>2. CASE StartDial(addr + 1) /\ st' = [st EXCEPT ![dialing] = "lost", ![dials + 1] = "dialing"]
      <3>1. dials + 1 \in Conns
        BY <2>2, NumbersAssumption DEF StartDial, TypeOK, Conns
      <3>2. st'[dialing'] = "dialing"
        BY <2>2, <3>1 DEF StartDial, TypeOK
      <3> QED
        BY <2>1, <3>2 DEF HealedOnce, Ended, Failures
    <2>3. CASE dialing' = NoConn
      BY <2>1, <2>3 DEF HealedOnce
    <2> QED
      BY <1>5, <2>2, <2>3 DEF AddressFails
  <1>6. ASSUME NEW c \in Calls, NEW why \in {"trust", "protocol"}, DialRefused(c, why)
       PROVE  HealedOnce'
    BY <1>6 DEF DialRefused, Finish, HealedOnce, Ended, NoConn, TypeOK, taskVars, wireVars, connVars
  <1>7. ASSUME NEW c \in Calls, NEW v \in DoorVersions, DialReady(c, v)
       PROVE  HealedOnce'
    BY <1>7 DEF DialReady, Failures, Conns, HealedOnce, Ended, NoConn, TypeOK, taskVars, wireVars, connVars
  <1>8. ASSUME NEW c \in Calls, Redialed(c)
       PROVE  HealedOnce'
    BY <1>8 DEF Redialed, Send, Heal, Finish, HealedOnce, Ended, NoConn, TypeOK, taskVars, wireVars, connVars
  <1>9. ASSUME NEW s \in Streams, NEW r \in {"reply", "protocol", "lost"}, Resumes(s, r)
       PROVE  HealedOnce'
    BY <1>9 DEF Resumes, HealedOnce, Ended, NoConn, TypeOK, taskVars, wireVars, connVars
  <1>10. ASSUME NEW k \in Conns, NEW why \in Failures, ConnEnds(k, why)
       PROVE  HealedOnce'
    <2>1. k # dialing /\ st' = [st EXCEPT ![k] = why] /\ UNCHANGED <<pc, dialing>>
      BY <1>10, Numbers DEF ConnEnds, DialInv, DialUnused, taskVars, NoConn
    <2> QED
      BY <2>1, Numbers DEF HealedOnce, Ended, TypeOK
  <1>11. ASSUME NEW c \in Calls, Answered(c)
       PROVE  HealedOnce'
    BY <1>11 DEF Answered, Finish, HealedOnce, Ended, NoConn, TypeOK, taskVars, wireVars, connVars
  <1>12. ASSUME NEW c \in Calls, Refused(c)
       PROVE  HealedOnce'
    BY <1>12 DEF Refused, Finish, HealedOnce, Ended, NoConn, TypeOK, taskVars, wireVars, connVars
  <1>13. ASSUME NEW c \in Calls, ReplyLost(c)
       PROVE  HealedOnce'
    <2>1. \A d \in Calls : pc'[d] # "reheal"
      BY <1>13 DEF ReplyLost, Heal, Finish, HealedOnce, TypeOK
    <2>2. dialing' = NoConn \/ UNCHANGED <<dialing, st>>
      BY <1>13 DEF ReplyLost, Heal
    <2> QED
      BY <2>1, <2>2 DEF HealedOnce, Ended
  <1>14. ASSUME NEW c \in Calls, TimesOut(c)
       PROVE  HealedOnce'
    BY <1>14 DEF TimesOut, Finish, HealedOnce, Ended, NoConn, TypeOK, taskVars, wireVars, connVars
  <1>15. ASSUME NEW c \in Calls, CancelQueued(c)
       PROVE  HealedOnce'
    BY <1>15 DEF CancelQueued, Finish, HealedOnce, Ended, NoConn, TypeOK, taskVars, wireVars, connVars
  <1>16. ASSUME NEW c \in Calls, CancelDial(c)
       PROVE  HealedOnce'
    BY <1>16 DEF CancelDial, Finish, HealedOnce, Ended, NoConn, TypeOK, taskVars, wireVars, connVars
  <1>17. ASSUME NEW c \in Calls, CancelWait(c)
       PROVE  HealedOnce'
    BY <1>17 DEF CancelWait, Finish, HealedOnce, Ended, NoConn, TypeOK, taskVars, wireVars, connVars
  <1>18. ASSUME Close
       PROVE  HealedOnce'
    <2>1. st' = Closing(protocol) /\ UNCHANGED <<pc, dialing>>
      BY <1>18 DEF Close, taskVars
    <2> QED
      BY <2>1, Numbers DEF Closing, HealedOnce, Ended, Failures
  <1>19. CASE UNCHANGED vars
    BY <1>19 DEF vars, HealedOnce, Ended, NoConn, TypeOK, taskVars, wireVars, connVars
  <1> QED
    BY <1>1, <1>2, <1>3, <1>4, <1>5, <1>6, <1>7, <1>8, <1>9, <1>10, <1>11,
       <1>12, <1>13, <1>14, <1>15, <1>16, <1>17, <1>18, <1>19
    DEF Next, Runs, Cancel, ReplyArrives, ReplyTooLarge, StreamReset

LEMMA HeardByNewStep ==
  ~Python311 /\ IInv /\ HealedOnce /\ HeardByNew /\ [Next]_vars => HeardByNew'
  <1> SUFFICES ASSUME ~Python311, IInv, HealedOnce, HeardByNew, [Next]_vars
               PROVE  HeardByNew'
    OBVIOUS
  <1>1. CASE sends' # sends
    <2>1. PICK c \in Calls, k \in Conns :
            Send(c, k, Encode(c, k)) /\ UNCHANGED ver
      <3>1. PICK c \in Calls :
              \/ Usable /\ Send(c, protocol, Encode(c, protocol)) /\ UNCHANGED ver
              \/ /\ Dialing(c) /\ dialing # NoConn /\ UNCHANGED ver
                 /\ Send(c, dialing,
                         IF pc[c] = "heal" THEN Encode(c, dialing) ELSE payload[c])
        BY <1>1, WhoSends
      <3>2. CASE Usable /\ Send(c, protocol, Encode(c, protocol)) /\ UNCHANGED ver
        BY <3>2, Numbers DEF IInv, Usable
      <3>3. CASE /\ Dialing(c) /\ dialing # NoConn /\ UNCHANGED ver
                 /\ Send(c, dialing,
                         IF pc[c] = "heal" THEN Encode(c, dialing) ELSE payload[c])
        BY <3>3, Numbers DEF IInv, HealedOnce, Dialing
      <3> QED
        BY <3>1, <3>2, <3>3
    <2>2. \A s \in Streams : s # Stream(c) => conn'[s] = conn[s] /\ form'[s] = form[s]
      BY <2>1, SendEffect DEF IInv
    <2>3. conn'[Stream(c)] = k /\ form'[Stream(c)] = Encode(c, k)
      BY <2>1, StreamType DEF IInv, TypeOK, Send
    <2> QED
      BY <2>1, <2>2, <2>3 DEF HeardByNew, Encode
  <1>2. CASE sends' = sends
    <2>1. UNCHANGED <<conn, form>>
      <3>1. ASSUME NEW c \in Calls, NEW k, NEW f, Send(c, k, f) PROVE FALSE
        BY <1>2, <3>1 DEF Send, IInv, TypeOK
      <3> QED
        BY <3>1
        DEF Next, Runs, Cancel, Issue, Acquire, Resolved, ResolveFails,
            AddressFails, DialRefused, DialReady, Redialed, ReplyArrives,
            ReplyTooLarge, StreamReset, Resumes, ConnEnds, Answered, Refused,
            ReplyLost, TimesOut, CancelQueued, CancelDial, CancelWait, Close,
            vars, streamVars
    <2>2. \A s \in Streams : conn[s] \in Conns => ver'[conn[s]] = ver[conn[s]]
      <3>1. CASE UNCHANGED ver
        BY <3>1
      <3>2. CASE \E c \in Calls, v \in DoorVersions : DialReady(c, v)
        <4>1. dialing # NoConn /\ \E v : ver' = [ver EXCEPT ![dialing] = v]
          BY <3>2 DEF DialReady
        <4>2. \A s \in Streams : conn[s] # dialing
          BY <4>1 DEF IInv, DialInv, DialUnused
        <4> QED
          BY <4>1, <4>2 DEF IInv, TypeOK
      <3> QED
        BY <3>1, <3>2
        DEF Next, Runs, Cancel, Issue, Acquire, Resolved, ResolveFails,
            AddressFails, DialRefused, Redialed, ReplyArrives,
            ReplyTooLarge, StreamReset, Resumes, ConnEnds, Answered, Refused,
            ReplyLost, TimesOut, CancelQueued, CancelDial, CancelWait, Close,
            vars, connVars
    <2> QED
      BY <2>1, <2>2 DEF HeardByNew
  <1> QED
    BY <1>1, <1>2

(***************************************************************************)
(* From Python 3.12 a door that negotiated a version before 9 never hears  *)
(* an IssueWith, whichever doors replace one another (_payload).           *)
(***************************************************************************)
THEOREM OldDoorsSpared ==
  ASSUME ~Python311
  PROVE  Spec => []OldDoorHearsNoIssueWith
  <1>1. Init => HealedOnce /\ HeardByNew
    BY DEF Init, HealedOnce, HeardByNew
  <1>2. IInv /\ HealedOnce /\ HeardByNew /\ [Next]_vars
          => HealedOnce' /\ HeardByNew'
    BY HealedOnceStep, HeardByNewStep DEF IInv
  <1>3. HeardByNew => OldDoorHearsNoIssueWith
    BY DEF HeardByNew, OldDoorHearsNoIssueWith
  <1> QED
    BY <1>1, <1>2, <1>3, Invariance, PTL DEF Spec
-----------------------------------------------------------------------------
(* RoundTrips' view of the calls. *)
phases  == [c \in Calls |-> Phase(c)]
replies == {c \in Calls : outcome[c] = "reply"}

LEMMA PhaseOf ==
  ASSUME TypeOK, NEW c \in Calls
  PROVE  /\ phases[c] = Phase(c)
         /\ Phase(c) = "idle" <=> pc[c] = "idle"
         /\ Phase(c) = "waiting" <=> pc[c] = "queued"
         /\ Phase(c) = "done" <=> pc[c] = "done"
         /\ Phase(c) = "active" <=> pc[c] \in Suspended
  BY DEF TypeOK, phases, Phase, Suspended

(* A step that moves one call's task changes its phase alone. *)
LEMMA PhaseStep ==
  ASSUME TypeOK, TypeOK', NEW c \in Calls,
         \A d \in Calls : d # c => pc'[d] = pc[d]
  PROVE  phases' = [phases EXCEPT ![c] = Phase(c)']
  BY DEF phases, Phase, TypeOK

LEMMA PhaseKept ==
  ASSUME TypeOK, TypeOK', NEW c \in Calls,
         pc[c] \in Suspended, pc'[c] \in Suspended,
         \A d \in Calls : d # c => pc'[d] = pc[d]
  PROVE  phases' = phases
  BY DEF phases, Phase, TypeOK, Suspended

(* A call that ends without a reply. *)
LEMMA EndsUnanswered ==
  ASSUME IInv, TypeOK', NEW c \in Calls, pc[c] \notin {"idle", "done"},
         NEW why, why # "reply", Finish(c, why), UNCHANGED sends
  PROVE  RT!End(c)
  <1>1. pc'[c] = "done" /\ \A d \in Calls : d # c => pc'[d] = pc[d]
    BY DEF Finish, IInv, TypeOK
  <1>2. phases' = [phases EXCEPT ![c] = "done"]
    BY <1>1, PhaseStep DEF Phase, IInv
  <1>3. replies' = replies
    BY DEF Finish, replies, IInv, DoneInv, TypeOK
  <1>4. phases[c] \in {"waiting", "active"}
    BY PhaseOf DEF IInv, TypeOK
  <1> QED
    BY <1>2, <1>3, <1>4 DEF RT!End, phases, replies

(* A call that is handed over. *)
LEMMA HandsOver ==
  ASSUME IInv, NEW c \in Calls, sends[c] = attempt[c] - 1,
         sends' = [sends EXCEPT ![c] = @ + 1]
  PROVE  RT!Hand(c)
  <1>1. SendOf(c) /\ attempt[c] \in {1, 2} /\ sends[c] \in Nat
    BY DEF IInv, SendInv, TypeOK
  <1>2. sends[c] < IF c \in Replayable THEN 2 ELSE 1
    BY <1>1 DEF SendOf
  <1> QED
    BY <1>2 DEF RT!Hand, RT!Limit

(* A step of the task that leaves it inside the lock, having sent nothing. *)
LEMMA StillInside ==
  ASSUME IInv, TypeOK', NEW c \in Calls,
         pc[c] \in Suspended, pc'[c] \in Suspended,
         \A d \in Calls : d # c => pc'[d] = pc[d],
         UNCHANGED <<outcome, sends>>
  PROVE  UNCHANGED RT!rtVars
  BY PhaseKept DEF IInv, RT!rtVars, phases, replies

LEMMA HealIs ==
  ASSUME TypeOK, NEW c \in Calls, NEW k, NEW label \in {"heal", "reheal"},
         Heal(c, k, label)
  PROVE  \/ Finish(c, "trust")
         \/ /\ pc'[c] \in Suspended /\ UNCHANGED outcome
            /\ \A d \in Calls : d # c => pc'[d] = pc[d]
  BY DEF Heal, TypeOK, Suspended

LEMMA RTStep == IInv /\ [Next]_vars => [RT!Next]_(RT!rtVars)
  <1> SUFFICES ASSUME IInv, [Next]_vars PROVE [RT!Next]_(RT!rtVars)
    OBVIOUS
  <1>0. TypeOK /\ TypeOK'
    BY TypeStep DEF IInv
  <1>1. ASSUME NEW c \in Calls, Issue(c)
        PROVE  RT!Ask(c)
    <2>1. pc'[c] = "queued" /\ \A d \in Calls : d # c => pc'[d] = pc[d]
      BY <1>0, <1>1 DEF Issue, TypeOK
    <2>2. phases' = [phases EXCEPT ![c] = "waiting"] /\ phases[c] = "idle"
      BY <1>0, <1>1, <2>1, PhaseStep, PhaseOf DEF Phase, Issue
    <2> QED
      BY <1>1, <2>2 DEF RT!Ask, Issue, phases, streamVars
  <1>2. ASSUME NEW c \in Calls, Acquire(c)
        PROVE  RT!Begin(c) \/ RT!End(c)
    <2>1. pc[c] = "queued" /\ \A d \in Calls : phases[d] # "active"
      BY <1>0, <1>2, PhaseOf DEF Acquire, LockFree
    <2>2. ASSUME pc'[c] \in Suspended, \A d \in Calls : d # c => pc'[d] = pc[d]
          PROVE  phases' = [phases EXCEPT ![c] = "active"]
      BY <1>0, <2>2, PhaseStep DEF Phase, Suspended
    <2>3. CASE Heal(c, protocol, "heal") /\ UNCHANGED streamVars
      <3>1. CASE Finish(c, "trust")
        BY <1>0, <2>1, <2>3, <3>1, EndsUnanswered DEF streamVars
      <3>2. CASE /\ pc'[c] \in Suspended /\ UNCHANGED outcome
                 /\ \A d \in Calls : d # c => pc'[d] = pc[d]
        <4>1. phases[c] = "waiting"
          BY <1>0, <2>1, PhaseOf
        <4> QED
          BY <2>1, <2>2, <2>3, <3>2, <4>1
          DEF RT!Begin, phases, streamVars
      <3> QED
        BY <1>0, <2>3, <3>1, <3>2, HealIs
    <2>4. CASE Send(c, protocol, Encode(c, protocol)) /\ UNCHANGED outcome
      <3>1. /\ pc'[c] \in Suspended /\ \A d \in Calls : d # c => pc'[d] = pc[d]
            /\ sends' = [sends EXCEPT ![c] = @ + 1]
        BY <1>0, <2>4 DEF Send, TypeOK, Suspended
      <3>2. sends[c] = attempt[c] - 1
        <4>1. SendOf(c)
          BY DEF IInv, SendInv
        <4> QED
          BY <2>1, <4>1 DEF SendOf
      <3>3. RT!Hand(c) /\ phases[c] = "waiting"
        BY <1>0, <2>1, <3>1, <3>2, HandsOver, PhaseOf
      <3> QED
        BY <2>1, <2>2, <2>4, <3>1, <3>3 DEF RT!Begin, phases
    <2> QED
      BY <1>2, <2>3, <2>4 DEF Acquire
  <1>3. ASSUME NEW c \in Calls, Redialed(c)
        PROVE  RT!HandOver(c) \/ RT!End(c) \/ UNCHANGED RT!rtVars
    <2>1. Dialing(c) /\ pc[c] \in Suspended /\ sends[c] = attempt[c] - 1
      BY <1>3 DEF Redialed, Dialing, Suspended, IInv, SendInv, SendOf
    <2>2. CASE UNCHANGED outcome /\ \E k, f : Send(c, k, f)
      <3>1. /\ pc'[c] \in Suspended /\ \A d \in Calls : d # c => pc'[d] = pc[d]
            /\ sends' = [sends EXCEPT ![c] = @ + 1]
        BY <1>0, <2>2 DEF Send, TypeOK, Suspended
      <3>2. RT!Hand(c) /\ phases[c] = "active" /\ phases' = phases
        BY <1>0, <2>1, <3>1, HandsOver, PhaseOf, PhaseKept
      <3> QED
        BY <2>2, <3>2 DEF RT!HandOver, phases
    <2>3. CASE Heal(c, dialing, "reheal") /\ UNCHANGED streamVars
      <3>1. CASE Finish(c, "trust")
        BY <1>0, <2>1, <2>3, <3>1, EndsUnanswered DEF streamVars, Suspended
      <3>2. CASE /\ pc'[c] \in Suspended /\ UNCHANGED outcome
                 /\ \A d \in Calls : d # c => pc'[d] = pc[d]
        BY <1>0, <2>1, <2>3, <3>2, StillInside DEF streamVars
      <3> QED
        BY <1>0, <2>3, <3>1, <3>2, HealIs
    <2>4. CASE /\ Ended(dialing) /\ Finish(c, st[dialing])
               /\ UNCHANGED streamVars
      <3>1. st[dialing] # "reply"
        BY <2>4 DEF Ended, Failures
      <3> QED
        BY <1>0, <2>1, <2>4, <3>1, EndsUnanswered DEF streamVars, Suspended
    <2> QED
      BY <1>3, <2>2, <2>3, <2>4 DEF Redialed
  <1>4. ASSUME NEW c \in Calls, Answered(c)
        PROVE  RT!End(c)
    <2>1. /\ pc[c] = "wait" /\ pc'[c] = "done" /\ UNCHANGED sends
          /\ \A d \in Calls : d # c => pc'[d] = pc[d]
      BY <1>0, <1>4 DEF Answered, Finish, TypeOK, streamVars
    <2>2. phases[c] = "active" /\ phases' = [phases EXCEPT ![c] = "done"]
      BY <1>0, <2>1, PhaseStep, PhaseOf DEF Phase, Suspended
    <2>3. sends[c] > 0
      <3>1. SendOf(c) /\ attempt[c] \in {1, 2}
        BY DEF IInv, SendInv, TypeOK
      <3> QED
        BY <2>1, <3>1 DEF SendOf
    <2>4. replies' = replies \cup {c}
      BY <1>0, <1>4 DEF Answered, Finish, replies, TypeOK
    <2> QED
      BY <2>1, <2>2, <2>3, <2>4 DEF RT!End, phases, replies
  <1>5. ASSUME NEW c \in Calls, ReplyLost(c)
        PROVE  RT!End(c) \/ UNCHANGED RT!rtVars
    <2>1. pc[c] = "wait" /\ pc[c] \in Suspended /\ UNCHANGED sends
      BY <1>5 DEF ReplyLost, Suspended, streamVars
    <2>2. \/ Finish(c, "lost") \/ Finish(c, "trust")
          \/ /\ pc'[c] \in Suspended /\ UNCHANGED outcome
             /\ \A d \in Calls : d # c => pc'[d] = pc[d]
      BY <1>0, <1>5, HealIs DEF ReplyLost
    <2> QED
      BY <1>0, <2>1, <2>2, EndsUnanswered, StillInside
  <1>6. ASSUME NEW c \in Calls,
               \/ ResolveFails(c) \/ Refused(c) \/ TimesOut(c) \/ Cancel(c)
               \/ \E why \in {"trust", "protocol"} : DialRefused(c, why)
        PROVE  RT!End(c)
    <2>1. /\ pc[c] \notin {"idle", "done"} /\ UNCHANGED sends
          /\ \E why \in {"lost", "trust", "protocol", "cancelled"} : Finish(c, why)
      BY <1>6
      DEF ResolveFails, Refused, TimesOut, StillAwaiting, Cancel, CancelQueued,
          CancelDial, CancelWait, DialRefused, Dialing, streamVars
    <2> QED
      BY <1>0, <2>1, EndsUnanswered
  <1>7. ASSUME NEW c \in Calls, AddressFails(c)
        PROVE  RT!End(c) \/ UNCHANGED RT!rtVars
    <2>1. /\ pc[c] \notin {"idle", "done"} /\ UNCHANGED sends
          /\ Finish(c, "lost") \/ UNCHANGED <<pc, outcome>>
      BY <1>7 DEF AddressFails, Dialing, streamVars
    <2>2. CASE UNCHANGED <<pc, outcome>>
      BY <2>1, <2>2 DEF RT!rtVars, Phase
    <2> QED
      BY <1>0, <2>1, <2>2, EndsUnanswered
  <1>8. ASSUME \/ UNCHANGED vars \/ Close
               \/ \E c \in Calls : Resolved(c)
               \/ \E c \in Calls, v \in DoorVersions : DialReady(c, v)
               \/ \E s \in Streams : ReplyArrives(s) \/ ReplyTooLarge(s) \/ StreamReset(s)
               \/ \E k \in Conns, why \in Failures : ConnEnds(k, why)
        PROVE  UNCHANGED RT!rtVars
    <2>1. UNCHANGED <<pc, outcome, sends>>
      BY <1>8 DEF vars, taskVars, streamVars, Close, Resolved, DialReady,
                  ReplyArrives, ReplyTooLarge, StreamReset, Resumes, ConnEnds
    <2> QED
      BY <2>1 DEF RT!rtVars, Phase
  <1> QED
    BY <1>1, <1>2, <1>3, <1>4, <1>5, <1>6, <1>7, <1>8 DEF Next, Runs, RT!Next

(***************************************************************************)
(* Every QUIC client is one of those RoundTrips describes: its calls are   *)
(* carried one at a time, each handed over no more often than it may be,   *)
(* and a reply is returned only for a call that was handed over.           *)
(***************************************************************************)
THEOREM RoundTripsImplemented == Spec => ImplementsRoundTrips
  <1>1. Init => RT!Init
    BY DEF Init, RT!Init, Phase
  <1>2. IInv /\ [Next]_vars => [RT!Next]_(RT!rtVars)
    BY RTStep
  <1> QED
    BY <1>1, <1>2, Invariance, PTL DEF Spec, ImplementsRoundTrips, RT!Spec
=============================================================================
