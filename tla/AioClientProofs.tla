--------------------------- MODULE AioClientProofs ---------------------------
(***************************************************************************)
(* Proofs about AioClient, for every set of calls and of long requests:    *)
(* whose reply a call returns, and that the client is one RoundTrips       *)
(* describes.                                                              *)
(*                                                                         *)
(* A reply is at one place at a time on its way from the request at the    *)
(* door to the call that returns it.  As long as no call was abandoned,    *)
(* only the call that holds the lock has anything on the way.              *)
(***************************************************************************)
EXTENDS AioClient, FiniteSetTheorems, SequenceTheorems, TLAPS

(* The call c's request or reply is at the door, being dispatched, on its  *)
(* way, in the reader, or returned.                                        *)
InDoor(c) == \E i \in DOMAIN toDoor : toDoor[i] = c
Coming(c) == \E i \in DOMAIN inFlight : inFlight[i] = [kind |-> "body", of |-> c]
Held(c)   == \E i \in DOMAIN buffer : buffer[i] = [kind |-> "body", of |-> c]
Used(c)   == \E d \in Calls : got[d] = c
OnTheWay(c) == InDoor(c) \/ serving = c \/ Coming(c) \/ Held(c)

(* A call's task is written once, and the one that holds the lock last.    *)
TasksInv ==
  /\ \A i, j \in DOMAIN written : written[i] = written[j] => i = j
  /\ \A i \in DOMAIN written : pc[written[i]] \notin {"idle", "queued"}
  /\ \A c \in Calls : pc[c] \in Suspended => written # <<>> /\ written[Len(written)] = c
  /\ \A c \in Calls : outcome[c] # "none" <=> pc[c] = "done"
  /\ \A c \in Calls : got[c] # NoCall => outcome[c] = "reply"

(* A length is followed by a body, in the reader and on its way to it; and *)
(* a call that has read a length finds one.                                *)
PairsUp(s) == \A i \in 1 .. Len(s) - 1 : s[i].kind = "length" => s[i + 1].kind = "body"

StreamInv ==
  /\ PairsUp(buffer) /\ PairsUp(inFlight)
  /\ buffer # <<>> /\ inFlight # <<>> /\ buffer[Len(buffer)].kind = "length" =>
       inFlight[1].kind = "body"
  /\ closed => inFlight = <<>>
  /\ ~closed /\ ~ended /\ inFlight # <<>> => inFlight[Len(inFlight)].kind = "body"
  /\ ~closed /\ ~ended /\ inFlight = <<>> /\ buffer # <<>> => buffer[Len(buffer)].kind = "body"
  /\ \A c \in Calls : pc[c] = "body" =>
       /\ buffer # <<>> => buffer[1].kind = "body"
       /\ buffer = <<>> /\ inFlight # <<>> => inFlight[1].kind = "body"
       /\ buffer = <<>> /\ inFlight = <<>> => closed \/ ended

(* One place holds a reply, and holds it once. *)
OnceIn(s) == \A i, j \in DOMAIN s : s[i].kind = "body" /\ s[i] = s[j] => i = j

PlacesInv ==
  /\ \A i, j \in DOMAIN toDoor : toDoor[i] = toDoor[j] => i = j
  /\ OnceIn(inFlight) /\ OnceIn(buffer)
  /\ RepliesUsedOnce
  /\ \A c \in Calls :
       /\ InDoor(c) => serving # c /\ ~Coming(c) /\ ~Held(c) /\ ~Used(c)
       /\ serving = c => ~Coming(c) /\ ~Held(c) /\ ~Used(c)
       /\ Coming(c) => ~Held(c) /\ ~Used(c)
       /\ Held(c) => ~Used(c)
       /\ OnTheWay(c) \/ Used(c) => c \in ToSet(written)

(* Nothing of a call that is over is on the way, unless one was abandoned. *)
StepInv ==
  /\ InStepUntilAbandoned
  /\ \/ \E d \in Calls : Abandoned(d)
     \/ \A c \in Calls : OnTheWay(c) => pc[c] \in Suspended

(* The next read is of a length unless a task has just read one, and none  *)
(* is misled, unless a call was abandoned.                                 *)
Framed ==
  /\ \A c \in Calls : pc[c] # "garbled"
  /\ \/ \E c \in Calls : pc[c] = "body"
     \/ /\ buffer # <<>> => buffer[1].kind = "length"
        /\ buffer = <<>> /\ inFlight # <<>> => inFlight[1].kind = "length"

FrameInv == (\E d \in Calls : Abandoned(d)) \/ Framed

IInv == TypeOK /\ TasksInv /\ StreamInv /\ PlacesInv /\ StepInv /\ FrameInv

-----------------------------------------------------------------------------
(* Types. *)

LEMMA SuffixType ==
  ASSUME NEW S, NEW s \in Seq(S), NEW n \in 0 .. Len(s)
  PROVE  /\ SubSeq(s, n + 1, Len(s)) \in Seq(S)
         /\ Len(SubSeq(s, n + 1, Len(s))) = Len(s) - n
         /\ \A i \in 1 .. Len(s) - n : SubSeq(s, n + 1, Len(s))[i] = s[n + i]
<1>1. n + 1 \in 1 .. Len(s) + 1
  OBVIOUS
<1> QED BY <1>1, SubSeqProperties

LEMMA RemoveType ==
  ASSUME NEW S, NEW s \in Seq(S), NEW i \in 1 .. Len(s)
  PROVE  RemoveAt(s, i) \in Seq(S)
<1>1. SubSeq(s, 1, i - 1) \in Seq(S)
  BY SubSeqProperties
<1>2. SubSeq(s, i + 1, Len(s)) \in Seq(S)
  BY SuffixType
<1> QED BY <1>1, <1>2, ConcatProperties DEF RemoveAt

(* A reply joins the stream. *)
LEMMA ReplyJoins ==
  ASSUME NEW s \in Seq(Part), NEW c \in Calls
  PROVE  /\ s \o Reply(c) \in Seq(Part)
         /\ Len(s \o Reply(c)) = Len(s) + 2
         /\ \A i \in 1 .. Len(s) : (s \o Reply(c))[i] = s[i]
         /\ (s \o Reply(c))[Len(s) + 1] = [kind |-> "length", of |-> c]
         /\ (s \o Reply(c))[Len(s) + 2] = [kind |-> "body", of |-> c]
<1>1. Reply(c) \in Seq(Part) /\ Len(Reply(c)) = 2
      /\ Reply(c)[1] = [kind |-> "length", of |-> c] /\ Reply(c)[2] = [kind |-> "body", of |-> c]
  BY DEF Reply, Part
<1>2. /\ s \o Reply(c) \in Seq(Part)
      /\ Len(s \o Reply(c)) = Len(s) + Len(Reply(c))
      /\ \A i \in 1 .. Len(s) + Len(Reply(c)) :
           (s \o Reply(c))[i] = IF i <= Len(s) THEN s[i] ELSE Reply(c)[i - Len(s)]
  BY <1>1, ConcatProperties
<1>3. Len(s) \in Nat
  OBVIOUS
<1>4. (s \o Reply(c))[Len(s) + 1] = Reply(c)[1] /\ (s \o Reply(c))[Len(s) + 2] = Reply(c)[2]
  BY <1>1, <1>2, <1>3
<1> QED BY <1>1, <1>2, <1>3, <1>4

LEMMA TypeInit == Init => TypeOK
<1> SUFFICES ASSUME Init PROVE TypeOK
  OBVIOUS
<1>1. ended \in BOOLEAN /\ closed \in BOOLEAN
  BY Zenon DEF Init
<1>2. \A S : <<>> \in Seq(S)
  BY EmptySeq
<1> QED BY <1>1, <1>2, CallsAssumption DEF Init, TypeOK

LEMMA TypeStep == TypeOK /\ [Next]_vars => TypeOK'
<1> SUFFICES ASSUME TypeOK, [Next]_vars PROVE TypeOK'
  OBVIOUS
<1> USE CallsAssumption DEF TypeOK, Suspended, Reading, taskVars, doorVars
<1>1. ASSUME NEW c \in Calls, Issue(c) PROVE TypeOK'
  BY <1>1 DEF Issue, Goes
<1>2. ASSUME NEW c \in Calls, Acquire(c) PROVE TypeOK'
  <2>1. lockq' \in Seq(Calls)
    BY <1>2, HeadTailProperties DEF Acquire
  <2>2. written' \in Seq(Calls) /\ toDoor' \in Seq(Calls)
    <3>1. \A q \in Seq(Calls) : Append(q, c) \in Seq(Calls)
      BY AppendProperties
    <3>2. written' \in {written, Append(written, c)} /\ toDoor' \in {toDoor, Append(toDoor, c)}
      BY <1>2 DEF Acquire
    <3> QED BY <3>1, <3>2
  <2> QED BY <1>2, <2>1, <2>2 DEF Acquire, Goes, Finish
<1>3. ASSUME NEW c \in Calls, Drained(c) \/ TimesOut(c) PROVE TypeOK'
  BY <1>3 DEF Drained, TimesOut, Goes, Finish
<1>4. ASSUME NEW c \in Calls, ReadHeader(c) PROVE TypeOK'
  <2>1. buffer' \in Seq(Part)
    <3>1. buffer # <<>> /\ buffer' \in {buffer, Tail(buffer)}
      BY <1>4 DEF ReadHeader
    <3>2. Tail(buffer) \in Seq(Part)
      BY <3>1, HeadTailProperties
    <3> QED BY <3>1, <3>2
  <2> QED BY <1>4, <2>1 DEF ReadHeader, Goes, Finish
<1>5. ASSUME NEW c \in Calls, ReadBody(c) PROVE TypeOK'
  <2>1. buffer' \in Seq(Part) /\ Head(buffer).of \in Calls
    <3>1. buffer # <<>> /\ buffer' = Tail(buffer)
      BY <1>5 DEF ReadBody
    <3>2. Head(buffer) \in Part
      BY <3>1, HeadTailProperties
    <3> QED BY <3>1, <3>2, HeadTailProperties DEF Part
  <2> QED BY <1>5, <2>1 DEF ReadBody, Finish
<1>6. ASSUME NEW c \in Calls, ReadGarbled(c) PROVE TypeOK'
  <2>1. buffer' \in Seq(Part)
    BY <1>6, SuffixType DEF ReadGarbled
  <2> QED BY <1>6, <2>1 DEF ReadGarbled, Finish
<1>7. ASSUME NEW c \in Calls, ReadFails(c) PROVE TypeOK'
  BY <1>7 DEF ReadFails, Finish
<1>8. ASSUME NEW c \in Calls, Cancel(c) PROVE TypeOK'
  <2>1. lockq' \in Seq(Calls)
    <3>1. CASE UNCHANGED lockq
      BY <3>1
    <3>2. CASE \E i \in 1 .. Len(lockq) : lockq' = RemoveAt(lockq, i)
      BY <3>2, RemoveType
    <3> QED BY <1>8, <3>1, <3>2 DEF Cancel
  <2> QED BY <1>8, <2>1 DEF Cancel, Finish
<1>9. CASE Close
  <2>1. closed' \in BOOLEAN
    BY <1>9, Zenon DEF Close
  <2> QED BY <1>9, <2>1 DEF Close
<1>10. CASE DoorReads
  BY <1>10 DEF DoorReads
<1>11. CASE DoorAnswers
  <2>1. serving \in Calls
    BY <1>11 DEF DoorAnswers
  <2>2. inFlight' \in Seq(Part)
    BY <1>11, <2>1, ReplyJoins DEF DoorAnswers
  <2> QED BY <1>11, <2>2 DEF DoorAnswers
<1>12. CASE Arrives
  <2>1. inFlight' \in Seq(Part) /\ buffer' \in Seq(Part)
    BY <1>12 DEF Arrives
  <2> QED BY <1>12, <2>1 DEF Arrives
<1>13. CASE DoorEnds
  <2>1. ended' \in BOOLEAN
    BY <1>13, Zenon DEF DoorEnds
  <2>2. inFlight' \in Seq(Part)
    BY <1>13, EmptySeq DEF DoorEnds
  <2> QED BY <1>13, <2>1, <2>2 DEF DoorEnds
<1>14. CASE UNCHANGED vars
  BY <1>14 DEF vars
<1> QED
  BY <1>1, <1>2, <1>3, <1>4, <1>5, <1>6, <1>7, <1>8, <1>9, <1>10, <1>11, <1>12, <1>13, <1>14
  DEF Next, Runs

-----------------------------------------------------------------------------
(* The tasks. *)

LEMMA TasksInit == Init => TasksInv
BY CallsAssumption DEF Init, TasksInv, Suspended, Reading

(* A call that ends: what follows of it. *)
LEMMA EndKeepsTasks ==
  ASSUME TypeOK, TasksInv, NEW c \in Calls, pc[c] \in {"queued"} \cup Suspended,
         NEW why \in {"reply", "lost", "protocol", "cancelled"}, Finish(c, why),
         UNCHANGED <<got, written>>
  PROVE  TasksInv'
<1>1. outcome[c] = "none" /\ got[c] = NoCall
  BY DEF TasksInv, TypeOK, Suspended, Reading
<1>2. pc' = [pc EXCEPT ![c] = "done"] /\ outcome' = [outcome EXCEPT ![c] = why]
  BY DEF Finish
<1>3. \A d \in Calls : pc'[d] \in Suspended => d # c /\ pc[d] \in Suspended
  BY <1>2 DEF TypeOK, Suspended, Reading
<1> QED BY <1>1, <1>2, <1>3 DEF TasksInv, TypeOK

(* A call that moves on inside the lock. *)
LEMMA MoveKeepsTasks ==
  ASSUME TypeOK, TasksInv, NEW c \in Calls, pc[c] \in Suspended,
         NEW label \in Suspended, Goes(c, label), UNCHANGED <<got, written>>
  PROVE  TasksInv'
<1>1. pc' = [pc EXCEPT ![c] = label] /\ outcome' = outcome
  BY DEF Goes
<1>2. \A d \in Calls : pc'[d] \in Suspended => pc[d] \in Suspended
  BY <1>1 DEF TypeOK
<1> QED BY <1>1, <1>2 DEF TasksInv, TypeOK, Suspended, Reading

LEMMA TasksStep == TypeOK /\ TasksInv /\ [Next]_vars => TasksInv'
<1> SUFFICES ASSUME TypeOK, TasksInv, [Next]_vars PROVE TasksInv'
  OBVIOUS
<1> USE DEF taskVars, doorVars
<1>1. ASSUME NEW c \in Calls, Issue(c) PROVE TasksInv'
  <2>1. pc[c] = "idle" /\ pc' = [pc EXCEPT ![c] = "queued"] /\ UNCHANGED <<outcome, got, written>>
    BY <1>1 DEF Issue, Goes
  <2>2. \A i \in DOMAIN written : written[i] # c
    BY <2>1 DEF TasksInv
  <2> QED BY <2>1, <2>2 DEF TasksInv, TypeOK, Suspended, Reading
<1>2. ASSUME NEW c \in Calls, Acquire(c) PROVE TasksInv'
  <2>1. ASSUME NEW label \in {"drain", "header"}, Goes(c, label), written' = Append(written, c)
        PROVE  TasksInv'
    <3>1. pc[c] = "queued" /\ pc' = [pc EXCEPT ![c] = label] /\ UNCHANGED <<outcome, got>>
      BY <1>2, <2>1 DEF Acquire, Goes
    <3>2. \A i \in DOMAIN written : written[i] # c
      BY <3>1 DEF TasksInv
    <3>3. /\ DOMAIN written' = 1 .. Len(written) + 1 /\ Len(written') = Len(written) + 1
          /\ \A i \in 1 .. Len(written) : written'[i] = written[i]
          /\ written'[Len(written) + 1] = c
      BY <2>1 DEF TypeOK
    <3>4. \A d \in Calls : pc'[d] \in Suspended => d = c
      BY <1>2, <3>1 DEF Acquire, LockFree, TypeOK
    <3>5. \A i, j \in DOMAIN written' : written'[i] = written'[j] => i = j
      <4>1. \A i \in 1 .. Len(written) : written[i] # c /\ i \in DOMAIN written
        BY <3>2 DEF TypeOK
      <4>2. Len(written) \in Nat
        BY DEF TypeOK
      <4>3. \A i \in DOMAIN written' : i \in 1 .. Len(written) \/ i = Len(written) + 1
        BY <3>3, <4>2
      <4> QED BY <3>3, <4>1, <4>3 DEF TasksInv
    <3>6. \A i \in DOMAIN written' : pc'[written'[i]] \notin {"idle", "queued"}
      BY <2>1, <3>1, <3>2, <3>3 DEF TasksInv, TypeOK
    <3>7. \A d \in Calls : outcome'[d] # "none" <=> pc'[d] = "done"
      BY <3>1 DEF TasksInv, TypeOK
    <3>8. \A d \in Calls : pc'[d] \in Suspended => written' # <<>> /\ written'[Len(written')] = d
      BY <3>3, <3>4 DEF TypeOK
    <3> QED BY <3>1, <3>5, <3>6, <3>7, <3>8 DEF TasksInv
  <2>2. CASE written' = written /\ (Finish(c, "protocol") \/ Finish(c, "lost"))
    BY <1>2, <2>2, EndKeepsTasks DEF Acquire
  <2> QED BY <1>2, <2>1, <2>2 DEF Acquire
<1>3. ASSUME NEW c \in Calls, Drained(c) \/ ReadHeader(c) PROVE TasksInv'
  BY <1>3, EndKeepsTasks, MoveKeepsTasks DEF Drained, ReadHeader, Suspended, Reading
<1>4. ASSUME NEW c \in Calls, ReadBody(c) PROVE TasksInv'
  <2>1. pc[c] = "body" /\ pc' = [pc EXCEPT ![c] = "done"] /\ outcome' = [outcome EXCEPT ![c] = "reply"]
        /\ got' = [got EXCEPT ![c] = Head(buffer).of] /\ written' = written
    BY <1>4 DEF ReadBody, Finish
  <2>2. Head(buffer).of # NoCall
    <3>1. buffer # <<>> /\ buffer \in Seq(Part)
      BY <1>4 DEF ReadBody, TypeOK
    <3>2. Head(buffer) \in Part
      BY <3>1, HeadTailProperties
    <3> QED BY <3>2, CallsAssumption DEF Part
  <2>3. \A d \in Calls : pc'[d] \in Suspended => d # c /\ pc[d] \in Suspended
    BY <2>1 DEF TypeOK, Suspended, Reading
  <2> QED BY <2>1, <2>2, <2>3 DEF TasksInv, TypeOK
<1>5. ASSUME NEW c \in Calls, ReadGarbled(c) \/ ReadFails(c) \/ TimesOut(c) PROVE TasksInv'
  BY <1>5, EndKeepsTasks DEF ReadGarbled, ReadFails, TimesOut, Suspended, Reading
<1>6. ASSUME NEW c \in Calls, Cancel(c) PROVE TasksInv'
  BY <1>6, EndKeepsTasks DEF Cancel
<1>7. ASSUME UNCHANGED <<taskVars, written>> PROVE TasksInv'
  BY <1>7 DEF TasksInv
<1> QED
  BY <1>1, <1>2, <1>3, <1>4, <1>5, <1>6, <1>7
  DEF Next, Runs, Close, DoorReads, DoorAnswers, Arrives, DoorEnds, vars

-----------------------------------------------------------------------------
(* The stream. *)

LEMMA StreamInit == Init => StreamInv
BY EmptySeq DEF Init, StreamInv, PairsUp

(* At most one task is inside the lock. *)
LEMMA OneInside ==
  ASSUME TasksInv, NEW c \in Calls, NEW d \in Calls, pc[c] \in Suspended, pc[d] \in Suspended
  PROVE  c = d
BY DEF TasksInv

LEMMA TailFacts ==
  ASSUME NEW s \in Seq(Part), s # <<>>
  PROVE  /\ Len(s) \in Nat \ {0} /\ DOMAIN s = 1 .. Len(s)
         /\ Head(s) = s[1] /\ s[1] \in Part
         /\ Tail(s) \in Seq(Part) /\ Len(Tail(s)) = Len(s) - 1
         /\ \A i \in 1 .. Len(s) - 1 : Tail(s)[i] = s[i + 1]
         /\ Tail(s) = <<>> <=> Len(s) = 1
<1>1. Len(s) \in Nat \ {0} /\ DOMAIN s = 1 .. Len(s) /\ Head(s) = s[1] /\ s[1] \in Part
  BY EmptySeq, LenProperties
<1>2. Tail(s) \in Seq(Part) /\ Len(Tail(s)) = Len(s) - 1
      /\ \A i \in 1 .. Len(s) - 1 : Tail(s)[i] = s[i + 1]
  BY HeadTailProperties
<1>3. Tail(s) = <<>> <=> Len(Tail(s)) = 0
  BY <1>2, EmptySeq
<1> QED BY <1>1, <1>2, <1>3

(* The reader loses what it held first, and no task waits for a body. *)
LEMMA DropKeepsStream ==
  ASSUME TypeOK, StreamInv, NEW n \in 0 .. Len(buffer),
         buffer' \in Seq(Part), Len(buffer') = Len(buffer) - n,
         \A i \in 1 .. Len(buffer) - n : buffer'[i] = buffer[i + n],
         UNCHANGED <<inFlight, ended, closed>>,
         \A d \in Calls : pc'[d] # "body"
  PROVE  StreamInv'
<1>1. Len(buffer) \in Nat /\ buffer \in Seq(Part)
  BY DEF TypeOK
<1>2. PairsUp(buffer)'
  <2> SUFFICES ASSUME NEW i \in 1 .. Len(buffer') - 1, buffer'[i].kind = "length"
               PROVE  buffer'[i + 1].kind = "body"
    BY DEF PairsUp
  <2>1. i \in 1 .. Len(buffer) - n /\ i + 1 \in 1 .. Len(buffer) - n
    BY <1>1
  <2>2. i + n \in 1 .. Len(buffer) - 1 /\ (i + 1) + n = (i + n) + 1
    BY <1>1
  <2> QED BY <2>1, <2>2 DEF StreamInv, PairsUp
<1>3. buffer' # <<>> => buffer # <<>> /\ buffer'[Len(buffer')] = buffer[Len(buffer)]
  <2>1. buffer' # <<>> => Len(buffer') \in 1 .. Len(buffer) - n
    BY <1>1, EmptySeq
  <2>2. buffer' # <<>> => Len(buffer) # 0
    BY <2>1, <1>1
  <2> QED BY <1>1, <2>1, <2>2, EmptySeq
<1> QED BY <1>2, <1>3 DEF StreamInv, PairsUp

LEMMA StreamStep == TypeOK /\ TasksInv /\ StreamInv /\ [Next]_vars => StreamInv'
<1> SUFFICES ASSUME TypeOK, TasksInv, StreamInv, [Next]_vars PROVE StreamInv'
  OBVIOUS
<1> USE DEF taskVars, doorVars
<1>1. ASSUME UNCHANGED <<buffer, inFlight, ended, closed>>,
             \A d \in Calls : pc'[d] = "body" => pc[d] = "body"
      PROVE  StreamInv'
  BY <1>1 DEF StreamInv, PairsUp
<1>2. ASSUME NEW c \in Calls, Issue(c) \/ Acquire(c) \/ Drained(c) \/ TimesOut(c) \/ Cancel(c)
      PROVE  StreamInv'
  <2>1. UNCHANGED <<buffer, inFlight, ended, closed>>
    BY <1>2 DEF Issue, Acquire, Drained, TimesOut, Cancel
  <2>2. pc' \in {[pc EXCEPT ![c] = l] : l \in {"queued", "drain", "header", "done"}}
    BY <1>2 DEF Issue, Acquire, Drained, TimesOut, Cancel, Goes, Finish
  <2>3. \A d \in Calls : pc'[d] = "body" => pc[d] = "body"
    BY <2>2 DEF TypeOK
  <2> QED BY <1>1, <2>1, <2>3
<1>3. ASSUME NEW c \in Calls, ReadHeader(c) PROVE StreamInv'
  <2>1. buffer # <<>> /\ pc[c] = "header" /\ UNCHANGED <<inFlight, ended, closed>>
    BY <1>3 DEF ReadHeader
  <2>2. CASE Head(buffer).kind = "length" /\ Goes(c, "body") /\ buffer' = Tail(buffer)
    <3> DEFINE l == Len(buffer)
    <3>1. /\ l \in Nat \ {0} /\ buffer[1].kind = "length"
          /\ Len(buffer') = l - 1
          /\ buffer' = <<>> <=> l = 1
          /\ \A i \in 1 .. l - 1 : buffer'[i] = buffer[i + 1]
      BY <2>1, <2>2, TailFacts DEF TypeOK
    <3>2. PairsUp(buffer)'
      <4> SUFFICES ASSUME NEW i \in 1 .. Len(buffer') - 1, buffer'[i].kind = "length"
                   PROVE  buffer'[i + 1].kind = "body"
        BY DEF PairsUp
      <4>1. i + 1 \in 1 .. l - 1 /\ buffer'[i] = buffer[i + 1] /\ buffer'[i + 1] = buffer[(i + 1) + 1]
        BY <3>1
      <4> QED BY <4>1 DEF StreamInv, PairsUp
    <3>3. buffer' # <<>> => buffer'[Len(buffer')] = buffer[l] /\ buffer'[1] = buffer[2]
      BY <3>1
    <3>4. buffer' # <<>> => buffer[2].kind = "body"
      BY <3>1 DEF StreamInv, PairsUp
    <3>5. buffer' = <<>> /\ inFlight # <<>> => inFlight[1].kind = "body"
      BY <2>1, <3>1 DEF StreamInv
    <3>6. buffer' = <<>> /\ inFlight = <<>> => closed \/ ended
      BY <2>1, <3>1 DEF StreamInv
    <3> QED BY <2>1, <3>2, <3>3, <3>4, <3>5, <3>6 DEF StreamInv, PairsUp
  <2>3. CASE (Finish(c, "protocol") \/ Goes(c, "garbled")) /\ UNCHANGED buffer
    <3>1. \A d \in Calls : pc'[d] = "body" => pc[d] = "body"
      BY <2>3 DEF Finish, Goes, TypeOK
    <3> QED BY <1>1, <2>1, <2>3, <3>1
  <2> QED BY <1>3, <2>2, <2>3 DEF ReadHeader
<1>4. ASSUME NEW c \in Calls, ReadBody(c) \/ ReadGarbled(c) \/ ReadFails(c) PROVE StreamInv'
  <2>1. pc[c] \in Suspended /\ pc' = [pc EXCEPT ![c] = "done"] /\ UNCHANGED <<inFlight, ended, closed>>
    BY <1>4 DEF ReadBody, ReadGarbled, ReadFails, Finish, Suspended, Reading
  <2>2. \A d \in Calls : pc'[d] # "body"
    BY <2>1, OneInside DEF TypeOK, Suspended, Reading
  <2>3. \E n \in 0 .. Len(buffer) :
          /\ buffer' \in Seq(Part) /\ Len(buffer') = Len(buffer) - n
          /\ \A i \in 1 .. Len(buffer) - n : buffer'[i] = buffer[i + n]
    <3>1. CASE ReadBody(c)
      <4>1. buffer # <<>> /\ buffer' = Tail(buffer) /\ buffer \in Seq(Part)
        BY <3>1 DEF ReadBody, TypeOK
      <4> QED BY <4>1, TailFacts
    <3>2. CASE ReadGarbled(c)
      <4>1. PICK n \in 0 .. Len(buffer) : buffer' = SubSeq(buffer, n + 1, Len(buffer))
        BY <3>2 DEF ReadGarbled
      <4>2. /\ buffer' \in Seq(Part) /\ Len(buffer') = Len(buffer) - n
            /\ \A i \in 1 .. Len(buffer) - n : buffer'[i] = buffer[n + i]
        BY <4>1, SuffixType DEF TypeOK
      <4>3. n \in 0 .. Len(buffer) /\ \A i \in 1 .. Len(buffer) - n : n + i = i + n
        BY DEF TypeOK
      <4> QED BY <4>2, <4>3
    <3>3. CASE ReadFails(c)
      <4>1. buffer' = <<>> /\ Len(buffer) \in 0 .. Len(buffer)
        BY <3>3 DEF ReadFails, TypeOK
      <4> QED BY <4>1, EmptySeq
    <3> QED BY <1>4, <3>1, <3>2, <3>3
  <2> QED BY <2>1, <2>2, <2>3, DropKeepsStream
<1>5. CASE Close
  <2>1. inFlight' = <<>> /\ closed' /\ UNCHANGED <<pc, buffer, ended>>
    BY <1>5 DEF Close
  <2>2. PairsUp(inFlight)'
    BY <2>1, EmptySeq DEF PairsUp
  <2> QED BY <2>1, <2>2 DEF StreamInv, PairsUp
<1>6. CASE DoorEnds
  <2>1. ended' /\ UNCHANGED <<pc, buffer, closed>> /\ inFlight' \in {inFlight, <<>>}
    BY <1>6 DEF DoorEnds
  <2>2. PairsUp(inFlight)'
    BY <2>1, EmptySeq DEF PairsUp, StreamInv
  <2> QED BY <2>1, <2>2 DEF StreamInv, PairsUp
<1>7. CASE DoorReads
  BY <1>1, <1>7 DEF DoorReads
<1>8. CASE DoorAnswers
  <2>1. CASE closed
    BY <1>1, <1>8, <2>1 DEF DoorAnswers
  <2>2. CASE ~closed
    <3> DEFINE l == Len(inFlight)
    <3>1. ~ended /\ serving \in Calls /\ inFlight' = inFlight \o Reply(serving)
          /\ UNCHANGED <<pc, buffer, ended, closed>>
      BY <1>8, <2>2 DEF DoorAnswers, TypeOK
    <3>2. /\ inFlight' \in Seq(Part) /\ Len(inFlight') = l + 2 /\ l \in Nat
          /\ \A i \in 1 .. l : inFlight'[i] = inFlight[i]
          /\ inFlight'[l + 1].kind = "length" /\ inFlight'[l + 2].kind = "body"
      <4>1. inFlight \in Seq(Part) /\ l \in Nat
        BY DEF TypeOK
      <4>2. /\ inFlight' \in Seq(Part) /\ Len(inFlight') = l + 2
            /\ \A i \in 1 .. l : inFlight'[i] = inFlight[i]
            /\ inFlight'[l + 1] = [kind |-> "length", of |-> serving]
            /\ inFlight'[l + 2] = [kind |-> "body", of |-> serving]
        BY <3>1, <4>1, ReplyJoins
      <4> QED BY <4>1, <4>2
    <3>3. PairsUp(inFlight)'
      <4> SUFFICES ASSUME NEW i \in 1 .. Len(inFlight') - 1, inFlight'[i].kind = "length"
                   PROVE  inFlight'[i + 1].kind = "body"
        BY DEF PairsUp
      <4>1. i \in 1 .. l + 1
        BY <3>2
      <4>2. CASE i = l + 1
        BY <3>2, <4>2
      <4>3. CASE i \in 1 .. l - 1
        BY <3>2, <4>3 DEF StreamInv, PairsUp
      <4>4. CASE i = l
        <5>1. inFlight # <<>>
          BY <4>4, EmptySeq
        <5> QED BY <2>2, <3>1, <3>2, <4>4, <5>1 DEF StreamInv
      <4> QED BY <3>2, <4>1, <4>2, <4>3, <4>4
    <3>4. inFlight' # <<>> /\ inFlight'[Len(inFlight')].kind = "body"
      BY <3>2, EmptySeq
    <3>5. inFlight # <<>> => inFlight'[1] = inFlight[1]
      BY <3>2, EmptySeq DEF TypeOK
    <3>6. inFlight = <<>> /\ buffer # <<>> => buffer[Len(buffer)].kind = "body"
      BY <2>2, <3>1 DEF StreamInv
    <3>7. \A d \in Calls : pc[d] = "body" => buffer # <<>> \/ inFlight # <<>>
      BY <2>2, <3>1 DEF StreamInv
    <3> QED BY <2>2, <3>1, <3>3, <3>4, <3>5, <3>6, <3>7 DEF StreamInv, PairsUp
  <2> QED BY <2>1, <2>2
<1>9. CASE Arrives
  <2> DEFINE l == Len(buffer)
             m == Len(inFlight)
  <2>1. inFlight # <<>> /\ buffer' = Append(buffer, inFlight[1]) /\ inFlight' = Tail(inFlight)
        /\ inFlight[1] \in Part /\ UNCHANGED <<pc, ended, closed>>
    BY <1>9, TailFacts DEF Arrives, TypeOK
  <2>2. /\ m \in Nat \ {0} /\ inFlight' \in Seq(Part) /\ Len(inFlight') = m - 1
        /\ \A i \in 1 .. m - 1 : inFlight'[i] = inFlight[i + 1]
        /\ inFlight' = <<>> <=> m = 1
    BY <2>1, TailFacts DEF TypeOK
  <2>3. /\ l \in Nat /\ Len(buffer') = l + 1 /\ buffer' # <<>>
        /\ \A i \in 1 .. l : buffer'[i] = buffer[i]
        /\ buffer'[l + 1] = inFlight[1]
    <3>1. buffer \in Seq(Part) /\ l \in Nat
      BY DEF TypeOK
    <3> HIDE DEF l
    <3>2. Len(buffer) = l
      BY DEF l
    <3> QED BY <2>1, <3>1, <3>2, AppendProperties
  <2>4. PairsUp(buffer)'
    <3> SUFFICES ASSUME NEW i \in 1 .. Len(buffer') - 1, buffer'[i].kind = "length"
                 PROVE  buffer'[i + 1].kind = "body"
      BY DEF PairsUp
    <3>1. CASE i = l
      <4>1. buffer # <<>>
        BY <2>3, <3>1, EmptySeq
      <4> QED BY <2>1, <2>3, <3>1, <4>1 DEF StreamInv
    <3>2. CASE i \in 1 .. l - 1
      BY <2>3, <3>2 DEF StreamInv, PairsUp
    <3> QED BY <2>3, <3>1, <3>2
  <2>5. PairsUp(inFlight)'
    <3> SUFFICES ASSUME NEW i \in 1 .. Len(inFlight') - 1, inFlight'[i].kind = "length"
                 PROVE  inFlight'[i + 1].kind = "body"
      BY DEF PairsUp
    <3>1. i + 1 \in 1 .. m - 1 /\ inFlight'[i] = inFlight[i + 1] /\ inFlight'[i + 1] = inFlight[(i + 1) + 1]
      BY <2>2
    <3> QED BY <3>1 DEF StreamInv, PairsUp
  <2>6. inFlight' # <<>> => inFlight'[1] = inFlight[2] /\ inFlight'[Len(inFlight')] = inFlight[m]
    BY <2>2
  <2>7. inFlight' # <<>> /\ inFlight[1].kind = "length" => inFlight[2].kind = "body"
    BY <2>2 DEF StreamInv, PairsUp
  <2>8. buffer'[1] = IF buffer = <<>> THEN inFlight[1] ELSE buffer[1]
    BY <2>3, EmptySeq DEF TypeOK
  <2>9. inFlight' = <<>> => inFlight[m] = inFlight[1]
    BY <2>2
  <2>10. ~closed
    BY <2>1 DEF StreamInv
  <2> QED BY <2>1, <2>3, <2>4, <2>5, <2>6, <2>7, <2>8, <2>9, <2>10 DEF StreamInv
<1>10. CASE UNCHANGED vars
  BY <1>1, <1>10 DEF vars
<1> QED
  BY <1>2, <1>3, <1>4, <1>5, <1>6, <1>7, <1>8, <1>9, <1>10 DEF Next, Runs

-----------------------------------------------------------------------------
(* The places of a reply. *)

LEMMA PlacesInit == Init => PlacesInv
<1> SUFFICES ASSUME Init PROVE PlacesInv
  OBVIOUS
<1>1. DOMAIN toDoor = {} /\ DOMAIN inFlight = {} /\ DOMAIN buffer = {}
  BY DEF Init
<1>2. \A c \in Calls : ~OnTheWay(c) /\ ~Used(c)
  BY <1>1, CallsAssumption DEF Init, OnTheWay, InDoor, Coming, Held, Used
<1> QED BY <1>1, <1>2, CallsAssumption DEF Init, PlacesInv, OnceIn, RepliesUsedOnce, OnTheWay

(* A body in a stream is the body of a call's reply. *)
LEMMA BodyOf ==
  ASSUME NEW p \in Part, p.kind = "body"
  PROVE  p.of \in Calls /\ p = [kind |-> "body", of |-> p.of]
BY DEF Part

(* Only a call that takes the lock comes on the way. *)
Onward == \A c \in Calls : OnTheWay(c)' => OnTheWay(c) \/ pc[c] = "queued"

(* What is on the way only disappears. *)
LEMMA LossKeepsPlaces ==
  ASSUME PlacesInv, UNCHANGED <<got, written>>,
         toDoor' \in {toDoor, <<>>}, serving' \in {serving, NoCall},
         inFlight' \in {inFlight, <<>>}, OnceIn(buffer)',
         \A c \in Calls : Held(c)' => Held(c)
  PROVE  PlacesInv' /\ Onward
<1> USE CallsAssumption
<1>1. DOMAIN <<>> = {}
  OBVIOUS
<1>2. \A c \in Calls : /\ InDoor(c)' => InDoor(c)
                       /\ Coming(c)' => Coming(c)
                       /\ Used(c)' <=> Used(c)
                       /\ serving' = c => serving = c
  BY <1>1 DEF InDoor, Coming, Used
<1>3. OnceIn(inFlight)' /\ \A i, j \in DOMAIN toDoor' : toDoor'[i] = toDoor'[j] => i = j
  BY <1>1 DEF PlacesInv, OnceIn
<1>4. RepliesUsedOnce'
  BY DEF PlacesInv, RepliesUsedOnce
<1> QED BY <1>2, <1>3, <1>4 DEF PlacesInv, OnTheWay, Onward

(* The reader loses what it held first. *)
LEMMA DropKeepsHeld ==
  ASSUME TypeOK, PlacesInv, NEW n \in 0 .. Len(buffer),
         buffer' \in Seq(Part), Len(buffer') = Len(buffer) - n,
         \A i \in 1 .. Len(buffer) - n : buffer'[i] = buffer[i + n]
  PROVE  /\ OnceIn(buffer)'
         /\ \A c \in Calls : Held(c)' => Held(c)
         /\ \A c \in Calls : n > 0 /\ buffer[1] = [kind |-> "body", of |-> c] => ~Held(c)'
<1>1. Len(buffer) \in Nat /\ DOMAIN buffer = 1 .. Len(buffer) /\ DOMAIN buffer' = 1 .. Len(buffer) - n
  BY LenProperties DEF TypeOK
<1>2. \A i \in DOMAIN buffer' : i + n \in DOMAIN buffer /\ buffer'[i] = buffer[i + n]
  BY <1>1
<1>3. OnceIn(buffer)'
  <2> SUFFICES ASSUME NEW i \in DOMAIN buffer', NEW j \in DOMAIN buffer',
                      buffer'[i].kind = "body", buffer'[i] = buffer'[j]
               PROVE  i = j
    BY DEF OnceIn
  <2>1. i + n = j + n
    BY <1>2 DEF PlacesInv, OnceIn
  <2> QED BY <1>1, <2>1
<1>4. \A c \in Calls : Held(c)' => Held(c)
  BY <1>2 DEF Held
<1>5. ASSUME NEW c \in Calls, n > 0, buffer[1] = [kind |-> "body", of |-> c], Held(c)'
      PROVE  FALSE
  <2>1. PICK i \in DOMAIN buffer' : buffer'[i] = [kind |-> "body", of |-> c]
    BY <1>5 DEF Held
  <2>2. 1 \in DOMAIN buffer /\ i + n \in DOMAIN buffer /\ i + n # 1
    BY <1>1, <1>2, <1>5
  <2>3. buffer[i + n] = buffer[1] /\ buffer[1].kind = "body"
    BY <1>2, <1>5, <2>1
  <2> QED BY <2>2, <2>3 DEF PlacesInv, OnceIn
<1> QED BY <1>3, <1>4, <1>5

(* What ReadBody does, now that it is known to read a body. *)
LEMMA BodyRead ==
  ASSUME TypeOK, TasksInv, StreamInv, PlacesInv, NEW c \in Calls, ReadBody(c)
  PROVE  \E r \in Calls :
           /\ got' = [got EXCEPT ![c] = r] /\ Held(r) /\ ~Used(r) /\ got[c] = NoCall
           /\ OnceIn(buffer)'
           /\ \A d \in Calls : Held(d)' => Held(d) /\ d # r
<1>1. buffer # <<>> /\ pc[c] = "body" /\ buffer' = Tail(buffer) /\ got' = [got EXCEPT ![c] = Head(buffer).of]
      /\ buffer \in Seq(Part)
  BY DEF ReadBody, TypeOK
<1>2. /\ buffer[1] \in Part /\ Head(buffer) = buffer[1] /\ buffer[1].kind = "body"
      /\ 1 \in DOMAIN buffer /\ 1 \in 0 .. Len(buffer)
      /\ buffer' \in Seq(Part) /\ Len(buffer') = Len(buffer) - 1
      /\ \A i \in 1 .. Len(buffer) - 1 : buffer'[i] = buffer[i + 1]
  BY <1>1, TailFacts DEF StreamInv
<1>3. PICK r \in Calls : buffer[1] = [kind |-> "body", of |-> r]
  BY <1>2, BodyOf
<1>4. Held(r) /\ got' = [got EXCEPT ![c] = r]
  <2>1. Head(buffer).of = r
    BY <1>2, <1>3
  <2>2. Held(r)
    BY <1>2, <1>3 DEF Held
  <2> QED BY <1>1, <2>1, <2>2
<1>5. OnceIn(buffer)' /\ \A d \in Calls : Held(d)' => Held(d)
  BY <1>2, DropKeepsHeld
<1>6. ~Held(r)'
  BY <1>2, <1>3, DropKeepsHeld
<1>7. got[c] = NoCall
  BY <1>1 DEF TasksInv, TypeOK
<1> QED BY <1>4, <1>5, <1>6, <1>7 DEF PlacesInv

(* What Arrives does: a length is nobody's reply, a body is one call's.    *)
LEMMA PartArrives ==
  ASSUME TypeOK, PlacesInv, Arrives
  PROVE  /\ OnceIn(inFlight)' /\ OnceIn(buffer)'
         /\ \A c \in Calls :
              /\ Coming(c)' => Coming(c)
              /\ Held(c)' => ~Coming(c)' /\ (Held(c) \/ Coming(c))
<1> DEFINE l == Len(buffer)
           m == Len(inFlight)
           p == inFlight[1]
<1>1. inFlight # <<>> /\ buffer' = Append(buffer, p) /\ inFlight' = Tail(inFlight) /\ p \in Part
  BY TailFacts DEF Arrives, TypeOK
<1>2. /\ m \in Nat \ {0} /\ DOMAIN inFlight = 1 .. m /\ DOMAIN inFlight' = 1 .. m - 1
      /\ \A i \in 1 .. m - 1 : inFlight'[i] = inFlight[i + 1]
  BY <1>1, TailFacts, LenProperties DEF TypeOK
<1>3. /\ l \in Nat /\ DOMAIN buffer = 1 .. l /\ DOMAIN buffer' = 1 .. l + 1
      /\ \A i \in 1 .. l : buffer'[i] = buffer[i]
      /\ buffer'[l + 1] = p
  <2>1. buffer \in Seq(Part)
    BY DEF TypeOK
  <2> HIDE DEF p
  <2>2. /\ buffer' \in Seq(Part) /\ Len(buffer') = Len(buffer) + 1
        /\ \A i \in 1 .. Len(buffer) : buffer'[i] = buffer[i]
        /\ buffer'[Len(buffer) + 1] = p
    BY <1>1, <2>1, AppendProperties
  <2> QED BY <2>1, <2>2, LenProperties
<1>4. \A i \in DOMAIN inFlight' : i + 1 \in DOMAIN inFlight /\ inFlight'[i] = inFlight[i + 1]
  BY <1>2
<1>5. OnceIn(inFlight)'
  <2> SUFFICES ASSUME NEW i \in DOMAIN inFlight', NEW j \in DOMAIN inFlight',
                      inFlight'[i].kind = "body", inFlight'[i] = inFlight'[j]
               PROVE  i = j
    BY DEF OnceIn
  <2>1. i + 1 = j + 1
    BY <1>4 DEF PlacesInv, OnceIn
  <2> QED BY <1>2, <2>1
<1>6. \A c \in Calls : Coming(c)' => Coming(c)
  BY <1>4 DEF Coming
<1>7. p.kind = "body" => p.of \in Calls /\ p = [kind |-> "body", of |-> p.of] /\ Coming(p.of)
  BY <1>1, <1>2, BodyOf DEF Coming
<1>8. OnceIn(buffer)'
  <2> SUFFICES ASSUME NEW i \in DOMAIN buffer', NEW j \in DOMAIN buffer',
                      buffer'[i].kind = "body", buffer'[i] = buffer'[j], i # j
               PROVE  FALSE
    BY DEF OnceIn
  <2>1. CASE i \in 1 .. l /\ j \in 1 .. l
    BY <1>3, <2>1 DEF PlacesInv, OnceIn
  <2>2. CASE i = l + 1 \/ j = l + 1
    <3>1. p.kind = "body"
      BY <1>3, <2>2
    <3>2. PICK k \in 1 .. l : buffer[k] = p
      BY <1>3, <2>2
    <3>3. Held(p.of)
      BY <1>3, <1>7, <3>1, <3>2 DEF Held
    <3> QED BY <1>7, <3>1, <3>3 DEF PlacesInv
  <2> QED BY <1>3, <2>1, <2>2
<1>9. ASSUME NEW c \in Calls, Held(c)' PROVE ~Coming(c)' /\ (Held(c) \/ Coming(c))
  <2>1. PICK i \in DOMAIN buffer' : buffer'[i] = [kind |-> "body", of |-> c]
    BY <1>9 DEF Held
  <2>2. CASE i \in 1 .. l
    <3>1. Held(c)
      BY <1>3, <2>1, <2>2 DEF Held
    <3> QED BY <1>6, <3>1 DEF PlacesInv
  <2>3. CASE i = l + 1
    <3>1. p = [kind |-> "body", of |-> c] /\ p.kind = "body" /\ 1 \in DOMAIN inFlight
      BY <1>2, <1>3, <2>1, <2>3
    <3>2. \A k \in DOMAIN inFlight' : inFlight'[k] # p
      BY <1>2, <1>4, <3>1 DEF PlacesInv, OnceIn
    <3> QED BY <3>1, <3>2 DEF Coming
  <2> QED BY <1>3, <2>2, <2>3
<1> QED BY <1>5, <1>6, <1>8, <1>9

LEMMA PlacesStep ==
  TypeOK /\ TasksInv /\ StreamInv /\ PlacesInv /\ [Next]_vars => PlacesInv' /\ Onward
<1> SUFFICES ASSUME TypeOK, TasksInv, StreamInv, PlacesInv, [Next]_vars PROVE PlacesInv' /\ Onward
  OBVIOUS
<1> USE DEF taskVars, doorVars
<1>1. ASSUME UNCHANGED <<got, written, doorVars, inFlight, buffer>> PROVE PlacesInv' /\ Onward
  BY <1>1 DEF PlacesInv, OnceIn, RepliesUsedOnce, OnTheWay, Onward, InDoor, Coming, Held, Used
<1>2. ASSUME NEW c \in Calls, Acquire(c) PROVE PlacesInv' /\ Onward
  <2>1. CASE UNCHANGED <<written, toDoor>>
    BY <1>1, <1>2, <2>1 DEF Acquire
  <2>2. CASE written' = Append(written, c) /\ toDoor' \in {toDoor, Append(toDoor, c)}
    <3>1. pc[c] = "queued" /\ UNCHANGED <<got, serving, inFlight, buffer>>
      BY <1>2 DEF Acquire
    <3>2. \A i \in DOMAIN written : written[i] # c
      BY <3>1 DEF TasksInv
    <3>3. ~OnTheWay(c) /\ ~Used(c)
      BY <3>2 DEF PlacesInv, ToSet
    <3>4. /\ \A d \in ToSet(written) : d \in ToSet(written')
          /\ c \in ToSet(written')
      <4>1. /\ Len(written) \in Nat /\ DOMAIN written = 1 .. Len(written)
            /\ DOMAIN written' = 1 .. Len(written) + 1
            /\ \A i \in 1 .. Len(written) : written'[i] = written[i]
            /\ written'[Len(written) + 1] = c
        BY <2>2 DEF TypeOK
      <4> QED BY <4>1 DEF ToSet
    <3>5. /\ \A i, j \in DOMAIN toDoor' : toDoor'[i] = toDoor'[j] => i = j
          /\ \A d \in Calls : InDoor(d)' => InDoor(d) \/ d = c
      <4>1. CASE toDoor' = toDoor
        BY <4>1 DEF PlacesInv, InDoor
      <4>2. CASE toDoor' = Append(toDoor, c)
        <5>1. /\ Len(toDoor) \in Nat /\ DOMAIN toDoor = 1 .. Len(toDoor)
              /\ DOMAIN toDoor' = 1 .. Len(toDoor) + 1
              /\ \A i \in 1 .. Len(toDoor) : toDoor'[i] = toDoor[i]
              /\ toDoor'[Len(toDoor) + 1] = c
          BY <4>2 DEF TypeOK
        <5>2. \A i \in 1 .. Len(toDoor) : toDoor[i] # c
          BY <3>3, <5>1 DEF OnTheWay, InDoor
        <5>3. \A i \in DOMAIN toDoor' : i \in 1 .. Len(toDoor) \/ i = Len(toDoor) + 1
          BY <5>1
        <5>4. \A i, j \in DOMAIN toDoor' : toDoor'[i] = toDoor'[j] => i = j
          BY <5>1, <5>2, <5>3 DEF PlacesInv
        <5> QED BY <5>1, <5>3, <5>4 DEF InDoor
      <4> QED BY <2>2, <4>1, <4>2
    <3>6. \A d \in Calls : /\ Coming(d)' <=> Coming(d)
                           /\ Held(d)' <=> Held(d)
                           /\ Used(d)' <=> Used(d)
      BY <3>1 DEF Coming, Held, Used
    <3>7. OnceIn(inFlight)' /\ OnceIn(buffer)' /\ RepliesUsedOnce'
      BY <3>1 DEF PlacesInv, OnceIn, RepliesUsedOnce
    <3> QED BY <3>1, <3>3, <3>4, <3>5, <3>6, <3>7 DEF PlacesInv, OnTheWay, Onward
  <2> QED BY <1>2, <2>1, <2>2 DEF Acquire
<1>3. ASSUME NEW c \in Calls, Issue(c) \/ Drained(c) \/ TimesOut(c) \/ Cancel(c) PROVE PlacesInv' /\ Onward
  BY <1>1, <1>3 DEF Issue, Drained, TimesOut, Cancel
<1>4. ASSUME NEW c \in Calls, ReadHeader(c) \/ ReadGarbled(c) \/ ReadFails(c) PROVE PlacesInv' /\ Onward
  <2>1. UNCHANGED <<got, written, toDoor, serving, inFlight>>
    BY <1>4 DEF ReadHeader, ReadGarbled, ReadFails
  <2>2. \E n \in 0 .. Len(buffer) :
          /\ buffer' \in Seq(Part) /\ Len(buffer') = Len(buffer) - n
          /\ \A i \in 1 .. Len(buffer) - n : buffer'[i] = buffer[i + n]
    <3>1. CASE ReadHeader(c) /\ buffer' = Tail(buffer)
      <4>1. buffer # <<>> /\ buffer \in Seq(Part)
        BY <3>1 DEF ReadHeader, TypeOK
      <4> QED BY <3>1, <4>1, TailFacts
    <3>2. CASE UNCHANGED buffer
      <4>1. buffer \in Seq(Part) /\ 0 \in 0 .. Len(buffer) /\ Len(buffer) \in Nat
        BY DEF TypeOK
      <4> QED BY <3>2, <4>1
    <3>3. CASE ReadGarbled(c)
      <4>1. PICK n \in 0 .. Len(buffer) : buffer' = SubSeq(buffer, n + 1, Len(buffer))
        BY <3>3 DEF ReadGarbled
      <4>2. /\ buffer' \in Seq(Part) /\ Len(buffer') = Len(buffer) - n
            /\ \A i \in 1 .. Len(buffer) - n : buffer'[i] = buffer[n + i]
        BY <4>1, SuffixType DEF TypeOK
      <4>3. n \in 0 .. Len(buffer) /\ \A i \in 1 .. Len(buffer) - n : n + i = i + n
        BY DEF TypeOK
      <4> QED BY <4>2, <4>3
    <3>4. CASE ReadFails(c)
      <4>1. buffer' = <<>> /\ Len(buffer) \in 0 .. Len(buffer)
        BY <3>4 DEF ReadFails, TypeOK
      <4> QED BY <4>1, EmptySeq
    <3> QED BY <1>4, <3>1, <3>2, <3>3, <3>4 DEF ReadHeader
  <2>3. OnceIn(buffer)' /\ \A d \in Calls : Held(d)' => Held(d)
    BY <2>2, DropKeepsHeld
  <2> QED BY <2>1, <2>3, LossKeepsPlaces
<1>5. ASSUME NEW c \in Calls, ReadBody(c) PROVE PlacesInv' /\ Onward
  <2>1. PICK r \in Calls :
           /\ got' = [got EXCEPT ![c] = r] /\ Held(r) /\ ~Used(r) /\ got[c] = NoCall
           /\ OnceIn(buffer)'
           /\ \A d \in Calls : Held(d)' => Held(d) /\ d # r
    BY <1>5, BodyRead
  <2>2. UNCHANGED <<written, toDoor, serving, inFlight>>
    BY <1>5 DEF ReadBody
  <2>3. \A d \in Calls : Used(d)' => Used(d) \/ d = r
    BY <2>1 DEF Used, TypeOK
  <2>4. RepliesUsedOnce'
    BY <2>1 DEF PlacesInv, RepliesUsedOnce, Used, TypeOK
  <2>5. \A d \in Calls : /\ InDoor(d)' <=> InDoor(d)
                         /\ Coming(d)' <=> Coming(d)
    BY <2>2 DEF InDoor, Coming
  <2>6. OnceIn(inFlight)' /\ \A i, j \in DOMAIN toDoor' : toDoor'[i] = toDoor'[j] => i = j
    BY <2>2 DEF PlacesInv, OnceIn
  <2> QED BY <2>1, <2>2, <2>3, <2>4, <2>5, <2>6 DEF PlacesInv, OnTheWay, Onward
<1>6. CASE Close
  BY <1>6, LossKeepsPlaces DEF Close, PlacesInv, OnceIn, Held
<1>7. CASE DoorEnds
  BY <1>7, LossKeepsPlaces DEF DoorEnds, PlacesInv, OnceIn, Held
<1>8. CASE DoorReads
  <2> DEFINE l == Len(toDoor)
  <2>1. toDoor # <<>> /\ toDoor \in Seq(Calls) /\ serving = NoCall
        /\ serving' = Head(toDoor) /\ toDoor' = Tail(toDoor) /\ UNCHANGED <<got, written, inFlight, buffer>>
    BY <1>8 DEF DoorReads, TypeOK
  <2>2. /\ l \in Nat \ {0} /\ DOMAIN toDoor = 1 .. l /\ DOMAIN toDoor' = 1 .. l - 1
        /\ \A i \in 1 .. l - 1 : toDoor'[i] = toDoor[i + 1]
        /\ serving' = toDoor[1] /\ serving' \in Calls
    BY <2>1, HeadTailProperties, EmptySeq, LenProperties
  <2>3. \A i \in DOMAIN toDoor' : i + 1 \in DOMAIN toDoor /\ toDoor'[i] = toDoor[i + 1] /\ i + 1 # 1
    BY <2>2
  <2>4. \A i, j \in DOMAIN toDoor' : toDoor'[i] = toDoor'[j] => i = j
    <3> SUFFICES ASSUME NEW i \in DOMAIN toDoor', NEW j \in DOMAIN toDoor', toDoor'[i] = toDoor'[j]
                 PROVE  i = j
      OBVIOUS
    <3>1. i + 1 = j + 1
      BY <2>3 DEF PlacesInv
    <3> QED BY <2>2, <3>1
  <2>5. InDoor(serving') /\ 1 \in DOMAIN toDoor
    BY <2>2 DEF InDoor
  <2>6. \A d \in Calls : InDoor(d)' => InDoor(d) /\ d # serving'
    BY <2>2, <2>3, <2>5 DEF PlacesInv, InDoor
  <2>7. \A d \in Calls : /\ Coming(d)' <=> Coming(d)
                         /\ Held(d)' <=> Held(d)
                         /\ Used(d)' <=> Used(d)
    BY <2>1 DEF Coming, Held, Used
  <2>8. OnceIn(inFlight)' /\ OnceIn(buffer)' /\ RepliesUsedOnce'
    BY <2>1 DEF PlacesInv, OnceIn, RepliesUsedOnce
  <2> QED BY <2>1, <2>2, <2>4, <2>5, <2>6, <2>7, <2>8 DEF PlacesInv, OnTheWay, Onward
<1>9. CASE DoorAnswers
  <2>1. CASE closed
    BY <1>9, <2>1, LossKeepsPlaces DEF DoorAnswers, PlacesInv, OnceIn, Held
  <2>2. CASE ~closed
    <3> DEFINE l == Len(inFlight)
    <3>1. serving \in Calls /\ inFlight' = inFlight \o Reply(serving) /\ inFlight \in Seq(Part) /\ serving' = NoCall
          /\ UNCHANGED <<got, written, toDoor, buffer>>
      BY <1>9, <2>2 DEF DoorAnswers, TypeOK
    <3>2. /\ l \in Nat /\ DOMAIN inFlight = 1 .. l /\ DOMAIN inFlight' = 1 .. l + 2
          /\ \A i \in 1 .. l : inFlight'[i] = inFlight[i]
          /\ inFlight'[l + 1] = [kind |-> "length", of |-> serving]
          /\ inFlight'[l + 2] = [kind |-> "body", of |-> serving]
      BY <3>1, ReplyJoins, LenProperties
    <3>3. \A i \in DOMAIN inFlight' :
            inFlight'[i].kind = "body" =>
              \/ i \in DOMAIN inFlight /\ inFlight'[i] = inFlight[i]
              \/ i = l + 2 /\ inFlight'[i] = [kind |-> "body", of |-> serving]
      BY <3>2
    <3>4. \A i \in DOMAIN inFlight : inFlight[i] # [kind |-> "body", of |-> serving]
      BY <3>1 DEF PlacesInv, Coming
    <3>5. OnceIn(inFlight)'
      BY <3>3, <3>4 DEF PlacesInv, OnceIn
    <3>6. \A d \in Calls : Coming(d)' => Coming(d) \/ d = serving
      <4> SUFFICES ASSUME NEW d \in Calls, Coming(d)' PROVE Coming(d) \/ d = serving
        OBVIOUS
      <4>1. PICK i \in DOMAIN inFlight' : inFlight'[i] = [kind |-> "body", of |-> d]
        BY DEF Coming
      <4>2. inFlight'[i].kind = "body" /\ inFlight'[i].of = d
        BY <4>1
      <4> QED BY <3>3, <4>1, <4>2 DEF Coming
    <3>7. \A d \in Calls : /\ InDoor(d)' <=> InDoor(d)
                           /\ Held(d)' <=> Held(d)
                           /\ Used(d)' <=> Used(d)
      BY <3>1 DEF InDoor, Held, Used
    <3>8. OnceIn(buffer)' /\ RepliesUsedOnce' /\ \A i, j \in DOMAIN toDoor' : toDoor'[i] = toDoor'[j] => i = j
      BY <3>1 DEF PlacesInv, OnceIn, RepliesUsedOnce
    <3> QED BY <3>1, <3>5, <3>6, <3>7, <3>8, CallsAssumption DEF PlacesInv, OnTheWay, Onward
  <2> QED BY <2>1, <2>2
<1>10. CASE Arrives
  <2>1. UNCHANGED <<got, written, toDoor, serving>>
    BY <1>10 DEF Arrives
  <2>2. \A d \in Calls : /\ InDoor(d)' <=> InDoor(d)
                         /\ Used(d)' <=> Used(d)
    BY <2>1 DEF InDoor, Used
  <2>3. RepliesUsedOnce' /\ \A i, j \in DOMAIN toDoor' : toDoor'[i] = toDoor'[j] => i = j
    BY <2>1 DEF PlacesInv, RepliesUsedOnce
  <2> QED BY <1>10, <2>1, <2>2, <2>3, PartArrives DEF PlacesInv, OnTheWay, Onward
<1>11. CASE UNCHANGED vars
  BY <1>1, <1>11 DEF vars
<1> QED
  BY <1>2, <1>3, <1>4, <1>5, <1>6, <1>7, <1>8, <1>9, <1>10, <1>11 DEF Next, Runs

-----------------------------------------------------------------------------
(* Whose reply a call returns. *)

LEMMA InStepInit == Init => StepInv
<1> SUFFICES ASSUME Init PROVE StepInv
  OBVIOUS
<1>1. \A c \in Calls : ~OnTheWay(c) /\ outcome[c] # "reply"
  <2>1. DOMAIN toDoor = {} /\ DOMAIN inFlight = {} /\ DOMAIN buffer = {}
    BY DEF Init
  <2> QED BY <2>1, CallsAssumption DEF Init, OnTheWay, InDoor, Coming, Held
<1> QED BY <1>1 DEF StepInv, InStepUntilAbandoned

(* What was written stays written, in its order. *)
LEMMA WrittenGrows ==
  ASSUME TypeOK, NEW c \in Calls, written' \in {written, Append(written, c)}
  PROVE  /\ \A d \in ToSet(written) : d \in ToSet(written')
         /\ \A d, e \in Calls : Before(d, e) => Before(d, e)'
<1>1. /\ \A i \in DOMAIN written : i \in DOMAIN written' /\ written'[i] = written[i]
  <2>1. CASE written' = Append(written, c)
    <3>1. /\ Len(written) \in Nat /\ DOMAIN written = 1 .. Len(written)
          /\ DOMAIN written' = 1 .. Len(written) + 1
          /\ \A i \in 1 .. Len(written) : written'[i] = written[i]
      BY <2>1 DEF TypeOK
    <3> QED BY <3>1
  <2> QED BY <2>1
<1>2. \A d \in ToSet(written) : d \in ToSet(written')
  BY <1>1 DEF ToSet
<1>3. \A d, e \in Calls : Before(d, e) => Before(d, e)'
  BY <1>1 DEF Before
<1> QED BY <1>2, <1>3

(* A call that was written before another, which holds the lock. *)
LEMMA WrittenBefore ==
  ASSUME TypeOK, TasksInv, NEW c \in Calls, pc[c] \in Suspended,
         NEW d \in Calls, d \in ToSet(written), d # c
  PROVE  Before(d, c)
<1>1. PICK i \in DOMAIN written : written[i] = d
  BY DEF ToSet
<1>2. /\ DOMAIN written = 1 .. Len(written) /\ Len(written) \in Nat
      /\ written # <<>> /\ written[Len(written)] = c
  BY LenProperties DEF TypeOK, TasksInv
<1>3. i < Len(written) /\ Len(written) \in DOMAIN written
  BY <1>1, <1>2
<1> QED BY <1>1, <1>2, <1>3 DEF Before

(* What a call may return of another's: nobody's, or that of one before it. *)
Follows(g, e) == g = NoCall \/ Before(g, e)

(* No reply is returned, and what was abandoned stays so. *)
LEMMA NoReplyKeepsStep ==
  ASSUME TypeOK, StepInv, NEW c \in Calls, written' \in {written, Append(written, c)},
         got' = got,
         \A d \in Calls : outcome'[d] # outcome[d] => outcome'[d] # "reply" /\ outcome[d] = "none",
         \/ \E d \in Calls : Abandoned(d)'
         \/ \A d \in Calls : OnTheWay(d)' => pc'[d] \in Suspended
  PROVE  StepInv'
<1>1. \A d \in Calls : Abandoned(d) => Abandoned(d)'
  BY WrittenGrows DEF Abandoned
<1>2. ASSUME NEW e \in Calls, outcome'[e] = "reply", got'[e] # e
      PROVE  Follows(got[e], e)' /\ \E d \in Calls : Abandoned(d)' /\ Before(d, e)'
  <2>1. /\ Follows(got[e], e)
        /\ \E d \in Calls : Abandoned(d) /\ Before(d, e)
    BY <1>2 DEF StepInv, InStepUntilAbandoned, Follows
  <2>2. PICK g \in Calls \cup {NoCall} : g = got[e]
    BY DEF TypeOK
  <2>3. Follows(g, e)'
    BY <2>1, <2>2, WrittenGrows DEF Follows
  <2> QED BY <1>1, <2>1, <2>2, <2>3, WrittenGrows
<1>3. InStepUntilAbandoned'
  BY <1>2 DEF InStepUntilAbandoned, Follows
<1> QED BY <1>3 DEF StepInv

LEMMA InStepStep ==
  TypeOK /\ TasksInv /\ StreamInv /\ PlacesInv /\ StepInv /\ FrameInv /\ [Next]_vars => StepInv'
<1> SUFFICES ASSUME TypeOK, TasksInv, StreamInv, PlacesInv, StepInv, FrameInv, [Next]_vars PROVE StepInv'
  OBVIOUS
<1> USE DEF taskVars, doorVars
<1>0. Onward
  BY PlacesStep
<1>1. ASSUME NEW c \in Calls, written' \in {written, Append(written, c)}, UNCHANGED <<got, outcome>>,
             \A d \in Calls : OnTheWay(d)' => pc'[d] \in Suspended \/ (OnTheWay(d) /\ pc[d] \notin Suspended)
      PROVE  StepInv'
  <2>1. CASE \E d \in Calls : Abandoned(d)
    <3>1. \E d \in Calls : Abandoned(d)'
      BY <1>1, <2>1, WrittenGrows DEF Abandoned
    <3> QED BY <1>1, <3>1, NoReplyKeepsStep
  <2>2. CASE \A d \in Calls : OnTheWay(d) => pc[d] \in Suspended
    <3>1. \A d \in Calls : OnTheWay(d)' => pc'[d] \in Suspended
      BY <1>1, <2>2
    <3> QED BY <1>1, <3>1, NoReplyKeepsStep
  <2> QED BY <2>1, <2>2 DEF StepInv
<1>2. ASSUME NEW c \in Calls, pc[c] \in Suspended, NEW why \in {"lost", "protocol", "cancelled"},
             Finish(c, why), UNCHANGED <<got, written>>
      PROVE  StepInv'
  <2>1. outcome' = [outcome EXCEPT ![c] = why] /\ outcome[c] = "none"
    BY <1>2 DEF Finish, TasksInv, Suspended, Reading, TypeOK
  <2>2. c \in ToSet(written)
    <3>1. Len(written) \in DOMAIN written /\ written[Len(written)] = c
      BY <1>2, EmptySeq, LenProperties DEF TasksInv, TypeOK
    <3> QED BY <3>1 DEF ToSet
  <2>3. Abandoned(c)'
    BY <1>2, <2>1, <2>2 DEF Abandoned, TypeOK
  <2>4. \A d \in Calls : outcome'[d] # outcome[d] => outcome'[d] # "reply" /\ outcome[d] = "none"
    BY <1>2, <2>1 DEF TypeOK
  <2> QED BY <1>2, <2>3, <2>4, NoReplyKeepsStep
<1>3. ASSUME NEW c \in Calls, pc[c] = "queued", NEW why \in {"lost", "protocol", "cancelled"},
             Finish(c, why), UNCHANGED <<got, written, doorVars, inFlight, buffer>>
      PROVE  StepInv'
  <2>1. outcome' = [outcome EXCEPT ![c] = why] /\ outcome[c] = "none" /\ pc' = [pc EXCEPT ![c] = "done"]
    BY <1>3 DEF Finish, TasksInv, TypeOK
  <2>2. c \notin ToSet(written)
    BY <1>3 DEF TasksInv, ToSet
  <2>3. \A d \in Calls : OnTheWay(d)' <=> OnTheWay(d)
    BY <1>3 DEF OnTheWay, InDoor, Coming, Held
  <2>4. \A d \in Calls : OnTheWay(d)' => d # c
    BY <2>2, <2>3 DEF PlacesInv
  <2>5. \/ \E d \in Calls : Abandoned(d)'
        \/ \A d \in Calls : OnTheWay(d)' => pc'[d] \in Suspended
    <3>1. CASE \E d \in Calls : Abandoned(d)
      BY <1>3, <2>1, <2>2, <3>1 DEF Abandoned, TypeOK
    <3>2. CASE \A d \in Calls : OnTheWay(d) => pc[d] \in Suspended
      BY <2>1, <2>3, <2>4, <3>2 DEF TypeOK
    <3> QED BY <3>1, <3>2 DEF StepInv
  <2>6. \A d \in Calls : outcome'[d] # outcome[d] => outcome'[d] # "reply" /\ outcome[d] = "none"
    BY <1>3, <2>1 DEF TypeOK
  <2> QED BY <1>3, <2>5, <2>6, NoReplyKeepsStep
<1>4. ASSUME UNCHANGED <<taskVars, written>>, \A d \in Calls : pc[d] = "queued" => ~OnTheWay(d)'
      PROVE  StepInv'
  <2>1. CASE Calls = {}
    BY <2>1 DEF StepInv, InStepUntilAbandoned
  <2>2. CASE \E c \in Calls : TRUE
    BY <1>0, <1>1, <1>4, <2>2 DEF Onward
  <2> QED BY <2>1, <2>2
<1>5. ASSUME UNCHANGED <<taskVars, written>> PROVE StepInv'
  <2>1. \A d \in Calls : pc'[d] = "queued" => ~OnTheWay(d)'
    BY <1>5, PlacesStep, TasksStep DEF PlacesInv, TasksInv, ToSet
  <2> QED BY <1>4, <1>5, <2>1
<1>6. ASSUME NEW c \in Calls, Issue(c) PROVE StepInv'
  <2>1. pc[c] = "idle" /\ pc' = [pc EXCEPT ![c] = "queued"]
        /\ UNCHANGED <<outcome, got, written, doorVars, inFlight, buffer>>
    BY <1>6 DEF Issue, Goes
  <2>2. \A d \in Calls : OnTheWay(d)' <=> OnTheWay(d)
    BY <2>1 DEF OnTheWay, InDoor, Coming, Held
  <2>3. \A d \in Calls : pc[d] \in Suspended => pc'[d] \in Suspended
    BY <2>1 DEF TypeOK, Suspended, Reading
  <2> QED BY <1>1, <2>1, <2>2, <2>3
<1>7. ASSUME NEW c \in Calls, Acquire(c) PROVE StepInv'
  <2>1. CASE UNCHANGED <<written, toDoor>> /\ (Finish(c, "protocol") \/ Finish(c, "lost"))
    BY <1>3, <1>7, <2>1 DEF Acquire
  <2>2. ASSUME NEW label \in {"drain", "header"}, Goes(c, label),
               written' = Append(written, c), toDoor' \in {toDoor, Append(toDoor, c)}
        PROVE  StepInv'
    <3>1. pc' = [pc EXCEPT ![c] = label] /\ UNCHANGED <<outcome, got>>
      BY <1>7, <2>2 DEF Acquire, Goes
    <3>2. ASSUME NEW d \in Calls, OnTheWay(d)' PROVE d = c \/ OnTheWay(d)
      <4>1. UNCHANGED <<serving, inFlight, buffer>>
        BY <1>7 DEF Acquire
      <4>2. ASSUME InDoor(d)' PROVE d = c \/ InDoor(d)
        <5>1. CASE toDoor' = Append(toDoor, c)
          <6>1. /\ DOMAIN toDoor = 1 .. Len(toDoor) /\ Len(toDoor) \in Nat
                /\ DOMAIN toDoor' = 1 .. Len(toDoor) + 1
                /\ \A i \in 1 .. Len(toDoor) : toDoor'[i] = toDoor[i]
                /\ toDoor'[Len(toDoor) + 1] = c
            BY <5>1 DEF TypeOK
          <6> QED BY <4>2, <6>1 DEF InDoor
        <5>2. CASE toDoor' = toDoor
          BY <4>2, <5>2 DEF InDoor
        <5> QED BY <2>2, <5>1, <5>2
      <4> QED BY <3>2, <4>1, <4>2 DEF OnTheWay, Coming, Held
    <3>3. \A d \in Calls : pc[d] \notin Suspended
      BY <1>7 DEF Acquire, LockFree
    <3>4. pc'[c] \in Suspended
      BY <2>2, <3>1 DEF TypeOK, Suspended, Reading
    <3> QED BY <1>1, <2>2, <3>1, <3>2, <3>3, <3>4
  <2> QED BY <1>7, <2>1, <2>2 DEF Acquire
<1>8. ASSUME NEW c \in Calls, pc[c] \in Suspended, NEW label \in Suspended, Goes(c, label),
             UNCHANGED <<got, written>>
      PROVE  StepInv'
  <2>1. pc' = [pc EXCEPT ![c] = label] /\ outcome' = outcome
    BY <1>8 DEF Goes
  <2>2. \A d \in Calls : pc[d] \in Suspended => pc'[d] \in Suspended
    BY <1>8, <2>1 DEF TypeOK
  <2>3. \A d \in Calls : pc[d] = "queued" => ~OnTheWay(d)'
    <3>1. \A d \in Calls : pc[d] = "queued" => pc'[d] = "queued"
      BY <1>8, <2>1 DEF TypeOK, Suspended, Reading
    <3> QED BY <3>1, PlacesStep, TasksStep DEF PlacesInv, TasksInv, ToSet
  <2> QED BY <1>0, <1>1, <1>8, <2>1, <2>2, <2>3 DEF Onward
<1>9. ASSUME NEW c \in Calls, Drained(c) \/ ReadHeader(c) PROVE StepInv'
  BY <1>2, <1>8, <1>9 DEF Drained, ReadHeader, Suspended, Reading
<1>10. ASSUME NEW c \in Calls, ReadGarbled(c) \/ ReadFails(c) \/ TimesOut(c) PROVE StepInv'
  <2>1. CASE ReadGarbled(c) /\ Finish(c, "reply")
    <3>1. pc[c] \in Suspended /\ outcome' = [outcome EXCEPT ![c] = "reply"] /\ UNCHANGED <<got, written>>
          /\ outcome[c] = "none" /\ got[c] = NoCall
      BY <2>1 DEF ReadGarbled, Finish, TasksInv, TypeOK, Suspended, Reading
    <3>2. PICK d \in Calls : Abandoned(d)
      BY <2>1 DEF ReadGarbled, FrameInv, Framed
    <3>3. Abandoned(d)' /\ Before(d, c)
      BY <3>1, <3>2, WrittenBefore DEF Abandoned, TypeOK
    <3>4. \A x \in Calls : Abandoned(x) => Abandoned(x)'
      BY <3>1 DEF Abandoned, TypeOK
    <3>5. InStepUntilAbandoned'
      <4> SUFFICES ASSUME NEW e \in Calls, outcome'[e] = "reply", got'[e] # e
                   PROVE  Follows(got[e], e)' /\ \E x \in Calls : Abandoned(x)' /\ Before(x, e)'
        BY DEF InStepUntilAbandoned, Follows
      <4>1. \A x, y \in Calls \cup {NoCall} : Before(x, y)' <=> Before(x, y)
        BY <3>1 DEF Before
      <4>2. PICK g \in Calls \cup {NoCall} : g = got[e]
        BY DEF TypeOK
      <4>3. CASE e = c
        BY <3>1, <3>3, <4>1, <4>2, <4>3 DEF Follows
      <4>4. CASE e # c
        <5>1. Follows(g, e) /\ \E x \in Calls : Abandoned(x) /\ Before(x, e)
          BY <3>1, <4>2, <4>4 DEF StepInv, InStepUntilAbandoned, Follows, TypeOK
        <5> QED BY <3>1, <3>4, <4>1, <4>2, <5>1 DEF Follows
      <4> QED BY <4>3, <4>4
    <3> QED BY <3>3, <3>5 DEF StepInv
  <2>2. CASE Finish(c, "lost") \/ Finish(c, "protocol")
    BY <1>2, <1>10, <2>2 DEF ReadGarbled, ReadFails, TimesOut, Suspended, Reading
  <2> QED BY <1>10, <2>1, <2>2 DEF ReadGarbled, ReadFails, TimesOut
<1>11. ASSUME NEW c \in Calls, Cancel(c) PROVE StepInv'
  BY <1>2, <1>3, <1>11 DEF Cancel
<1>12. ASSUME NEW c \in Calls, ReadBody(c) PROVE StepInv'
  <2>1. PICK r \in Calls :
           /\ got' = [got EXCEPT ![c] = r] /\ Held(r) /\ ~Used(r) /\ got[c] = NoCall
           /\ OnceIn(buffer)'
           /\ \A d \in Calls : Held(d)' => Held(d) /\ d # r
    BY <1>12, BodyRead
  <2>2. /\ pc[c] \in Suspended /\ outcome' = [outcome EXCEPT ![c] = "reply"]
        /\ pc' = [pc EXCEPT ![c] = "done"]
        /\ UNCHANGED <<written, toDoor, serving, inFlight>>
    BY <1>12 DEF ReadBody, Finish, Suspended, Reading
  <2>3. outcome[c] = "none"
    BY <2>2 DEF TasksInv, TypeOK, Suspended, Reading
  <2>4. \A d, e \in Calls : (Abandoned(d)' <=> Abandoned(d)) /\ (Before(d, e)' <=> Before(d, e))
    BY <2>2, <2>3 DEF Abandoned, Before, TypeOK
  <2>5. r \in ToSet(written)
    BY <2>1 DEF PlacesInv, OnTheWay
  <2>6. CASE \E d \in Calls : Abandoned(d)
    <3>1. PICK d \in Calls : Abandoned(d)
      BY <2>6
    <3>2. d # c /\ Before(d, c)
      BY <2>2, <2>3, <3>1, WrittenBefore DEF Abandoned
    <3>3. r # c => Before(r, c)
      BY <2>2, <2>5, WrittenBefore
    <3>4. ASSUME NEW e \in Calls, outcome'[e] = "reply", got'[e] # e
          PROVE  Follows(got'[e], e) /\ \E x \in Calls : Abandoned(x) /\ Before(x, e)
      <4>1. CASE e = c
        BY <2>1, <3>1, <3>2, <3>3, <3>4, <4>1 DEF TypeOK, Follows
      <4>2. CASE e # c
        BY <2>1, <2>2, <3>4, <4>2 DEF TypeOK, StepInv, InStepUntilAbandoned, Follows
      <4> QED BY <4>1, <4>2
    <3>5. InStepUntilAbandoned'
      <4>1. ASSUME NEW e \in Calls, outcome'[e] = "reply", got'[e] # e
            PROVE  Follows(got[e], e)' /\ \E x \in Calls : Abandoned(x)' /\ Before(x, e)'
        <5>1. PICK g \in Calls \cup {NoCall} : g = got'[e]
          BY <2>1 DEF TypeOK
        <5>2. Follows(g, e)'
          BY <2>4, <3>4, <4>1, <5>1 DEF Follows
        <5> QED BY <2>4, <3>4, <4>1, <5>1, <5>2
      <4> QED BY <4>1 DEF InStepUntilAbandoned, Follows
    <3> QED BY <2>4, <3>1, <3>5 DEF StepInv
  <2>7. CASE \A d \in Calls : OnTheWay(d) => pc[d] \in Suspended
    <3>1. r = c /\ \A d \in Calls : OnTheWay(d) => d = c
      BY <2>1, <2>2, <2>7, OneInside DEF OnTheWay
    <3>2. ~InDoor(c) /\ serving # c /\ ~Coming(c)
      BY <2>1, <3>1 DEF PlacesInv
    <3>3. \A d \in Calls : ~OnTheWay(d)'
      <4>1. \A d \in Calls : ~InDoor(d) /\ serving # d /\ ~Coming(d)
        BY <3>1, <3>2 DEF OnTheWay
      <4>2. \A d \in Calls : ~Held(d)'
        BY <2>1, <3>1 DEF OnTheWay
      <4>3. \A d \in Calls : ~InDoor(d)' /\ serving' # d /\ ~Coming(d)'
        BY <2>2, <4>1 DEF InDoor, Coming
      <4> QED BY <4>2, <4>3 DEF OnTheWay
    <3>4. ASSUME NEW e \in Calls, outcome'[e] = "reply", got'[e] # e
          PROVE  Follows(got[e], e) /\ \E x \in Calls : Abandoned(x) /\ Before(x, e)
      <4>1. e # c
        BY <2>1, <3>1, <3>4 DEF TypeOK
      <4> QED BY <2>1, <2>2, <3>4, <4>1 DEF TypeOK, StepInv, InStepUntilAbandoned, Follows
    <3>5. InStepUntilAbandoned'
      <4>1. ASSUME NEW e \in Calls, outcome'[e] = "reply", got'[e] # e
            PROVE  Follows(got[e], e)' /\ \E x \in Calls : Abandoned(x)' /\ Before(x, e)'
        <5>1. e # c /\ got'[e] = got[e]
          BY <2>1, <3>1, <4>1 DEF TypeOK
        <5>2. PICK g \in Calls \cup {NoCall} : g = got[e]
          BY DEF TypeOK
        <5>3. Follows(g, e)'
          BY <2>4, <3>4, <4>1, <5>2 DEF Follows
        <5> QED BY <2>4, <3>4, <4>1, <5>1, <5>2, <5>3
      <4> QED BY <4>1 DEF InStepUntilAbandoned, Follows
    <3> QED BY <3>3, <3>5 DEF StepInv
  <2> QED BY <2>6, <2>7 DEF StepInv
<1> QED
  BY <1>5, <1>6, <1>7, <1>9, <1>10, <1>11, <1>12
  DEF Next, Runs, Close, DoorReads, DoorAnswers, Arrives, DoorEnds, vars

-----------------------------------------------------------------------------
(* Where the next read begins. *)

LEMMA FrameInit == Init => FrameInv
BY DEF Init, FrameInv, Framed

(* A call that has ended as it has stays ended so. *)
LEMMA AbandonedStays ==
  ASSUME TypeOK, TasksInv, [Next]_vars, NEW d \in Calls, Abandoned(d)
  PROVE  Abandoned(d)'
<1> USE DEF taskVars
<1>1. d \in ToSet(written) /\ outcome[d] # "none" /\ pc[d] = "done"
  BY DEF Abandoned, TasksInv
<1>2. ASSUME UNCHANGED <<outcome, written>> PROVE Abandoned(d)'
  BY <1>2 DEF Abandoned
<1>3. ASSUME NEW c \in Calls, Issue(c) \/ Drained(c) \/ ReadHeader(c) \/ ReadBody(c) \/ ReadGarbled(c)
                              \/ ReadFails(c) \/ TimesOut(c) \/ Cancel(c)
      PROVE  Abandoned(d)'
  <2>1. written' = written /\ pc[c] # "done"
    BY <1>3 DEF Issue, Drained, ReadHeader, ReadBody, ReadGarbled, ReadFails, TimesOut, Cancel,
                Suspended, Reading
  <2>2. outcome' = outcome \/ \E why : outcome' = [outcome EXCEPT ![c] = why]
    BY <1>3 DEF Issue, Drained, ReadHeader, ReadBody, ReadGarbled, ReadFails, TimesOut, Cancel,
                Finish, Goes
  <2>3. outcome'[d] = outcome[d]
    BY <1>1, <2>1, <2>2 DEF TypeOK
  <2> QED BY <2>1, <2>3, <1>1 DEF Abandoned
<1>4. ASSUME NEW c \in Calls, Acquire(c) PROVE Abandoned(d)'
  <2>1. written' \in {written, Append(written, c)} /\ pc[c] = "queued"
    BY <1>4 DEF Acquire
  <2>2. outcome' = outcome \/ \E why : outcome' = [outcome EXCEPT ![c] = why]
    BY <1>4 DEF Acquire, Finish, Goes
  <2>3. outcome'[d] = outcome[d]
    BY <1>1, <2>1, <2>2 DEF TypeOK
  <2>4. d \in ToSet(written')
    BY <1>1, <2>1, WrittenGrows
  <2> QED BY <2>3, <2>4 DEF Abandoned
<1> QED
  BY <1>2, <1>3, <1>4 DEF Next, Runs, Close, DoorReads, DoorAnswers, Arrives, DoorEnds, vars

LEMMA FrameStep ==
  TypeOK /\ TasksInv /\ StreamInv /\ PlacesInv /\ StepInv /\ FrameInv /\ [Next]_vars => FrameInv'
<1> SUFFICES ASSUME TypeOK, TasksInv, StreamInv, PlacesInv, StepInv, [Next]_vars, Framed,
                    \A d \in Calls : ~Abandoned(d)
             PROVE  FrameInv'
  BY AbandonedStays DEF FrameInv
<1> USE DEF taskVars, doorVars
<1>1. \A c \in Calls : OnTheWay(c) => pc[c] \in Suspended
  BY DEF StepInv
<1>2. ASSUME buffer' = buffer, inFlight' \in {inFlight, <<>>},
             \A d \in Calls : /\ pc'[d] = "garbled" => pc[d] = "garbled"
                              /\ pc[d] = "body" => pc'[d] = "body"
      PROVE  FrameInv'
  <2>1. \A c \in Calls : pc'[c] # "garbled"
    BY <1>2 DEF Framed
  <2>2. CASE \E c \in Calls : pc[c] = "body"
    <3>1. \E c \in Calls : pc'[c] = "body"
      BY <1>2, <2>2
    <3> QED BY <2>1, <3>1 DEF FrameInv, Framed
  <2>3. CASE \A c \in Calls : pc[c] # "body"
    <3>1. /\ buffer' # <<>> => buffer'[1].kind = "length"
          /\ buffer' = <<>> /\ inFlight' # <<>> => inFlight'[1].kind = "length"
      BY <1>2, <2>3 DEF Framed
    <3> QED BY <2>1, <3>1 DEF FrameInv, Framed
  <2> QED BY <2>2, <2>3
<1>3. ASSUME NEW c \in Calls, pc[c] \in Suspended, NEW why \in {"lost", "protocol", "cancelled"},
             Finish(c, why), written' = written
      PROVE  FrameInv'
  <2>1. outcome'[c] = why
    BY <1>3 DEF Finish, TypeOK
  <2>2. c \in ToSet(written)
    <3>1. Len(written) \in DOMAIN written /\ written[Len(written)] = c
      BY <1>3, EmptySeq, LenProperties DEF TasksInv, TypeOK
    <3> QED BY <3>1 DEF ToSet
  <2> QED BY <1>3, <2>1, <2>2 DEF FrameInv, Abandoned
<1>4. ASSUME NEW c \in Calls, pc[c] \in {"idle", "queued", "drain"}, UNCHANGED <<buffer, inFlight>>,
             NEW label \in {"queued", "drain", "header", "done"}, pc' = [pc EXCEPT ![c] = label]
      PROVE  FrameInv'
  BY <1>2, <1>4 DEF TypeOK
<1>5. ASSUME NEW c \in Calls, Issue(c) \/ Acquire(c) \/ Drained(c) PROVE FrameInv'
  <2>1. /\ pc[c] \in {"idle", "queued", "drain"} /\ UNCHANGED <<buffer, inFlight>>
        /\ \E label \in {"queued", "drain", "header", "done"} : pc' = [pc EXCEPT ![c] = label]
    BY <1>5 DEF Issue, Acquire, Drained, Goes, Finish
  <2> QED BY <1>4, <2>1
<1>6. ASSUME NEW c \in Calls, ReadFails(c) \/ TimesOut(c) PROVE FrameInv'
  BY <1>3, <1>6 DEF ReadFails, TimesOut, Suspended, Reading
<1>7. ASSUME NEW c \in Calls, Cancel(c) PROVE FrameInv'
  <2>1. CASE pc[c] = "queued"
    BY <1>4, <1>7, <2>1 DEF Cancel, Finish
  <2>2. CASE pc[c] \in Suspended
    BY <1>3, <1>7, <2>2 DEF Cancel
  <2> QED BY <1>7, <2>1, <2>2 DEF Cancel
<1>8. ASSUME NEW c \in Calls, ReadHeader(c) PROVE FrameInv'
  <2>1. pc[c] = "header" /\ buffer # <<>> /\ \A d \in Calls : pc[d] # "body"
    BY <1>8, OneInside DEF ReadHeader, Suspended, Reading
  <2>2. Head(buffer).kind = "length"
    BY <2>1, TailFacts DEF Framed, TypeOK
  <2>3. pc' = [pc EXCEPT ![c] = "body"]
    BY <1>8, <2>2 DEF ReadHeader, Goes
  <2> QED BY <2>3 DEF FrameInv, Framed, TypeOK
<1>9. ASSUME NEW c \in Calls, ReadBody(c) PROVE FrameInv'
  <2>1. PICK r \in Calls :
           /\ Held(r) /\ \A d \in Calls : Held(d)' => Held(d) /\ d # r
    BY <1>9, BodyRead
  <2>2. pc[c] \in Suspended /\ pc' = [pc EXCEPT ![c] = "done"] /\ inFlight' = inFlight
    BY <1>9 DEF ReadBody, Finish, Suspended, Reading
  <2>3. r = c /\ \A d \in Calls : OnTheWay(d) => d = c
    BY <1>1, <2>1, <2>2, OneInside DEF OnTheWay
  <2>4. \A d \in Calls : ~Held(d)' /\ ~Coming(d)'
    <3>1. ~Coming(c)
      BY <2>1, <2>3 DEF PlacesInv
    <3>2. \A d \in Calls : ~Coming(d)
      BY <2>3, <3>1 DEF OnTheWay
    <3> QED BY <2>1, <2>2, <2>3, <3>2 DEF OnTheWay, Coming
  <2>5. TypeOK'
    BY TypeStep
  <2>6. /\ buffer' # <<>> => buffer'[1].kind = "length"
        /\ inFlight' # <<>> => inFlight'[1].kind = "length"
    <3>1. ASSUME buffer' # <<>> PROVE buffer'[1].kind = "length"
      <4>1. buffer'[1] \in Part /\ 1 \in DOMAIN buffer'
        BY <2>5, <3>1, TailFacts DEF TypeOK
      <4>2. buffer'[1].kind # "body"
        BY <2>4, <4>1, BodyOf DEF Held
      <4> QED BY <4>1, <4>2 DEF Part
    <3>2. ASSUME inFlight' # <<>> PROVE inFlight'[1].kind = "length"
      <4>1. inFlight'[1] \in Part /\ 1 \in DOMAIN inFlight'
        BY <2>5, <3>2, TailFacts DEF TypeOK
      <4>2. inFlight'[1].kind # "body"
        BY <2>4, <4>1, BodyOf DEF Coming
      <4> QED BY <4>1, <4>2 DEF Part
    <3> QED BY <3>1, <3>2
  <2> QED BY <2>2, <2>6 DEF FrameInv, Framed, TypeOK
<1>10. ASSUME NEW c \in Calls, ReadGarbled(c) PROVE FrameInv'
  BY <1>10 DEF ReadGarbled, Framed
<1>11. CASE DoorAnswers
  <2>1. CASE closed
    BY <1>2, <1>11, <2>1 DEF DoorAnswers
  <2>2. CASE ~closed
    <3>1. serving \in Calls /\ inFlight' = inFlight \o Reply(serving) /\ UNCHANGED <<pc, buffer>>
      BY <1>11, <2>2 DEF DoorAnswers, TypeOK
    <3>2. /\ inFlight = <<>> => inFlight'[1].kind = "length"
          /\ inFlight # <<>> => inFlight'[1] = inFlight[1]
      <4>1. inFlight \in Seq(Part) /\ (inFlight = <<>> <=> Len(inFlight) = 0) /\ Len(inFlight) \in Nat
        BY EmptySeq DEF TypeOK
      <4>2. /\ inFlight'[Len(inFlight) + 1] = [kind |-> "length", of |-> serving]
            /\ \A i \in 1 .. Len(inFlight) : inFlight'[i] = inFlight[i]
        BY <3>1, <4>1, ReplyJoins
      <4> QED BY <4>1, <4>2
    <3> QED BY <3>1, <3>2 DEF FrameInv, Framed
  <2> QED BY <2>1, <2>2
<1>12. CASE Arrives
  <2>1. /\ inFlight # <<>> /\ inFlight \in Seq(Part) /\ buffer \in Seq(Part) /\ pc' = pc
        /\ inFlight[1] \in Part /\ Head(inFlight) = inFlight[1]
    BY <1>12, TailFacts DEF Arrives, TypeOK
  <2>2. PICK p \in Part : p = inFlight[1]
    BY <2>1
  <2>3. buffer' = Append(buffer, p)
    BY <1>12, <2>1, <2>2 DEF Arrives
  <2>4. /\ buffer' # <<>>
        /\ buffer = <<>> => buffer'[1] = p
        /\ buffer # <<>> => buffer'[1] = buffer[1]
    <3>1. (buffer = <<>> <=> Len(buffer) = 0) /\ Len(buffer) \in Nat
      BY <2>1, EmptySeq
    <3>2. /\ buffer' \in Seq(Part) /\ Len(buffer') = Len(buffer) + 1
          /\ \A i \in 1 .. Len(buffer) : buffer'[i] = buffer[i]
          /\ buffer'[Len(buffer) + 1] = p
      BY <2>1, <2>3, AppendProperties
    <3> QED BY <3>1, <3>2, EmptySeq
  <2> QED BY <2>1, <2>2, <2>4 DEF FrameInv, Framed
<1>13. CASE Close \/ DoorEnds \/ DoorReads \/ UNCHANGED vars
  BY <1>2, <1>13 DEF Close, DoorEnds, DoorReads, vars
<1> QED
  BY <1>5, <1>6, <1>7, <1>8, <1>9, <1>10, <1>11, <1>12, <1>13 DEF Next, Runs

-----------------------------------------------------------------------------
(* What follows, of every behaviour. *)

LEMMA Invariance == Spec => []IInv
<1>1. Init => IInv
  BY TypeInit, TasksInit, StreamInit, PlacesInit, InStepInit, FrameInit DEF IInv
<1>2. IInv /\ [Next]_vars => IInv'
  BY TypeStep, TasksStep, StreamStep, PlacesStep, InStepStep, FrameStep DEF IInv
<1> QED BY <1>1, <1>2, PTL DEF Spec

(* The variables of the client and its connection keep their types. *)
THEOREM TypeCorrect == Spec => []TypeOK
<1>1. IInv => TypeOK
  BY DEF IInv
<1> QED BY <1>1, Invariance, PTL

(* A call that returns another's reply returns that of a call written      *)
(* before it, and one written before it was abandoned (_round_trip).       *)
THEOREM InStep == Spec => []InStepUntilAbandoned
<1>1. IInv => InStepUntilAbandoned
  BY DEF IInv, StepInv
<1> QED BY <1>1, Invariance, PTL

(* No reply is returned to two calls, whatever times out, is cancelled or  *)
(* garbled (_round_trip).                                                  *)
THEOREM UsedOnce == Spec => []RepliesUsedOnce
<1>1. IInv => RepliesUsedOnce
  BY DEF IInv, PlacesInv
<1> QED BY <1>1, Invariance, PTL

-----------------------------------------------------------------------------
(* The client is one RoundTrips describes. *)

Times(c) == Cardinality({i \in DOMAIN written : written[i] = c})

(* A sequence that repeats nothing has each of its elements once. *)
LEMMA OnceEach ==
  ASSUME NEW w, NEW c, \A i, j \in DOMAIN w : w[i] = w[j] => i = j
  PROVE  Cardinality({i \in DOMAIN w : w[i] = c}) = IF c \in ToSet(w) THEN 1 ELSE 0
<1> DEFINE W == {i \in DOMAIN w : w[i] = c}
<1>1. CASE c \in ToSet(w)
  <2>1. PICK i \in DOMAIN w : w[i] = c
    BY <1>1 DEF ToSet
  <2>2. W = {i}
    BY <2>1
  <2> QED BY <1>1, <2>2, FS_Singleton
<1>2. CASE c \notin ToSet(w)
  <2>1. W = {}
    BY <1>2 DEF ToSet
  <2> QED BY <1>2, <2>1, FS_EmptySet
<1> QED BY <1>1, <1>2

Phases  == [c \in Calls |-> Phase(c)]
Heard   == [c \in Calls |-> Times(c)]
Replied == {c \in Calls : outcome[c] = "reply"}

(* A step that changes nothing RoundTrips sees. *)
LEMMA Unseen ==
  ASSUME UNCHANGED <<outcome, written>>, \A c \in Calls : Phase(c)' = Phase(c)
  PROVE  UNCHANGED <<Phases, Heard, Replied>>
BY DEF Phases, Heard, Replied, Times

(* A call that ends with a reply, its own or not. *)
LEMMA EndsAnswered ==
  ASSUME IInv, NEW c \in Calls, pc[c] \in Suspended, Finish(c, "reply"), UNCHANGED written
  PROVE  RT!End(c)
<1>1. pc' = [pc EXCEPT ![c] = "done"] /\ outcome' = [outcome EXCEPT ![c] = "reply"]
  BY DEF Finish
<1>2. Phases[c] = "active" /\ Phases' = [Phases EXCEPT ![c] = "done"]
  BY <1>1 DEF Phases, Phase, IInv, TypeOK, Suspended, Reading
<1>3. c \in ToSet(written)
  <2>1. written # <<>> /\ written[Len(written)] = c
    BY DEF IInv, TasksInv
  <2> QED BY <2>1, EmptySeq, LenProperties DEF ToSet, IInv, TypeOK
<1>4. Heard' = Heard /\ Heard[c] > 0
  <2>1. Times(c) = 1
    BY <1>3, OnceEach DEF Times, IInv, TasksInv
  <2> QED BY <2>1 DEF Heard, Times
<1>5. Replied' = Replied \cup {c}
  BY <1>1 DEF Replied, IInv, TypeOK
<1> QED BY <1>2, <1>4, <1>5 DEF RT!End, Phases, Heard, Times, Replied

(* A call that ends without a reply. *)
LEMMA EndsUnanswered ==
  ASSUME IInv, NEW c \in Calls, pc[c] \in {"queued"} \cup Suspended,
         NEW why \in {"lost", "protocol", "cancelled"}, Finish(c, why), UNCHANGED written
  PROVE  RT!End(c)
<1>1. pc' = [pc EXCEPT ![c] = "done"] /\ outcome' = [outcome EXCEPT ![c] = why] /\ outcome[c] = "none"
  BY DEF Finish, IInv, TasksInv, TypeOK, Suspended, Reading
<1>2. Phases[c] \in {"waiting", "active"} /\ Phases' = [Phases EXCEPT ![c] = "done"]
  BY <1>1 DEF Phases, Phase, IInv, TypeOK, Suspended, Reading
<1>3. Heard' = Heard
  BY DEF Heard, Times
<1>4. Replied' = Replied
  BY <1>1 DEF Replied, IInv, TypeOK
<1> QED BY <1>2, <1>3, <1>4 DEF RT!End, Phases, Heard, Times, Replied

LEMMA RTStep == IInv /\ [Next]_vars => [RT!Next]_(RT!rtVars)
<1> SUFFICES ASSUME IInv, [Next]_vars PROVE RT!Next \/ UNCHANGED <<Phases, Heard, Replied>>
  BY DEF RT!rtVars, Phases, Heard, Replied, Times
<1> USE DEF taskVars, doorVars
<1>0. IInv'
  BY TypeStep, TasksStep, StreamStep, PlacesStep, InStepStep, FrameStep DEF IInv
<1>1. ASSUME NEW c \in Calls, Issue(c) PROVE RT!Ask(c)
  <2>1. pc[c] = "idle" /\ pc' = [pc EXCEPT ![c] = "queued"] /\ UNCHANGED <<outcome, written>>
    BY <1>1 DEF Issue, Goes
  <2>2. Phases[c] = "idle" /\ Phases' = [Phases EXCEPT ![c] = "waiting"]
    BY <2>1 DEF Phases, Phase, IInv, TypeOK
  <2>3. Heard' = Heard /\ Replied' = Replied
    BY <2>1 DEF Heard, Times, Replied
  <2> QED BY <2>2, <2>3 DEF RT!Ask, Phases, Heard, Times, Replied
<1>2. ASSUME NEW c \in Calls, Acquire(c) PROVE RT!Begin(c) \/ RT!End(c)
  <2>1. CASE UNCHANGED written /\ (Finish(c, "protocol") \/ Finish(c, "lost"))
    BY <1>2, <2>1, EndsUnanswered DEF Acquire
  <2>2. ASSUME NEW label \in {"drain", "header"}, Goes(c, label), written' = Append(written, c)
        PROVE  RT!Begin(c)
    <3>1. pc[c] = "queued" /\ pc' = [pc EXCEPT ![c] = label] /\ outcome' = outcome
      BY <1>2, <2>2 DEF Acquire, Goes
    <3>2. Phases[c] = "waiting" /\ Phases' = [Phases EXCEPT ![c] = "active"]
      BY <3>1 DEF Phases, Phase, IInv, TypeOK
    <3>3. \A d \in Calls : Phases[d] # "active"
      BY <1>2 DEF Acquire, LockFree, Phases, Phase, IInv, TypeOK, Suspended, Reading
    <3>4. c \notin ToSet(written)
      BY <3>1 DEF IInv, TasksInv, ToSet
    <3>5. \A d \in Calls : d \in ToSet(written') <=> d \in ToSet(written) \/ d = c
      <4>1. /\ Len(written) \in Nat /\ DOMAIN written = 1 .. Len(written)
            /\ DOMAIN written' = 1 .. Len(written) + 1
            /\ \A i \in 1 .. Len(written) : written'[i] = written[i]
            /\ written'[Len(written) + 1] = c
        BY <2>2 DEF IInv, TypeOK
      <4> QED BY <4>1 DEF ToSet
    <3>6. \A d \in Calls : /\ Times(d) = IF d \in ToSet(written) THEN 1 ELSE 0
                           /\ Times(d)' = IF d \in ToSet(written') THEN 1 ELSE 0
      <4>1. /\ \A i, j \in DOMAIN written : written[i] = written[j] => i = j
            /\ \A i, j \in DOMAIN written' : written'[i] = written'[j] => i = j
        BY <1>0 DEF IInv, TasksInv
      <4> QED BY <4>1, OnceEach DEF Times
    <3>7. Heard[c] = 0 /\ Heard' = [Heard EXCEPT ![c] = Heard[c] + 1]
      <4>1. \A d \in Calls : Times(d)' = IF d = c THEN Times(d) + 1 ELSE Times(d)
        BY <3>4, <3>5, <3>6
      <4> QED BY <3>4, <3>6, <4>1 DEF Heard
    <3>8. Replied' = Replied
      BY <3>1 DEF Replied
    <3> QED BY <3>2, <3>3, <3>7, <3>8 DEF RT!Begin, RT!Hand, RT!Limit, Phases, Heard, Times, Replied
  <2> QED BY <1>2, <2>1, <2>2 DEF Acquire
<1>3. ASSUME NEW c \in Calls, pc[c] \in Suspended, NEW label \in Suspended, Goes(c, label),
             UNCHANGED written
      PROVE  UNCHANGED <<Phases, Heard, Replied>>
  <2>1. pc' = [pc EXCEPT ![c] = label] /\ outcome' = outcome
    BY <1>3 DEF Goes
  <2>2. \A d \in Calls : Phase(d)' = Phase(d)
    BY <1>3, <2>1 DEF Phase, IInv, TypeOK, Suspended, Reading
  <2> QED BY <1>3, <2>1, <2>2, Unseen
<1>4. ASSUME NEW c \in Calls, Drained(c) \/ ReadHeader(c)
      PROVE  RT!End(c) \/ UNCHANGED <<Phases, Heard, Replied>>
  BY <1>3, <1>4, EndsUnanswered DEF Drained, ReadHeader, Suspended, Reading
<1>5. ASSUME NEW c \in Calls, ReadBody(c) PROVE RT!End(c)
  BY <1>5, EndsAnswered DEF ReadBody, Suspended, Reading
<1>6. ASSUME NEW c \in Calls, ReadGarbled(c) \/ ReadFails(c) \/ TimesOut(c) \/ Cancel(c) PROVE RT!End(c)
  BY <1>6, EndsUnanswered, EndsAnswered DEF ReadGarbled, ReadFails, TimesOut, Cancel, Suspended, Reading
<1>7. ASSUME UNCHANGED <<taskVars, written>> PROVE UNCHANGED <<Phases, Heard, Replied>>
  BY <1>7, Unseen DEF Phase
<1> QED
  BY <1>1, <1>2, <1>4, <1>5, <1>6, <1>7
  DEF Next, RT!Next, Runs, Close, DoorReads, DoorAnswers, Arrives, DoorEnds, vars

(* The client carries its calls one at a time, writes none twice, and      *)
(* returns a reply only to one it has written (_lock, _round_trip).        *)
THEOREM RoundTripsImplemented == Spec => ImplementsRoundTrips
<1>1. Init => RT!Init
  <2> SUFFICES ASSUME Init PROVE RT!Init
    OBVIOUS
  <2>1. \A c \in Calls : Phase(c) = "idle"
    BY DEF Init, Phase
  <2>2. \A c \in Calls : {i \in DOMAIN written : written[i] = c} = {}
    BY DEF Init
  <2>3. \A c \in Calls : Cardinality({i \in DOMAIN written : written[i] = c}) = 0
    BY <2>2, FS_EmptySet
  <2>4. {c \in Calls : outcome[c] = "reply"} = {}
    BY DEF Init
  <2> QED BY <2>1, <2>3, <2>4 DEF RT!Init
<1> QED
  BY <1>1, RTStep, Invariance, PTL DEF Spec, ImplementsRoundTrips, RT!Spec
=============================================================================
