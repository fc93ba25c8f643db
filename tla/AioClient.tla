------------------------------ MODULE AioClient ------------------------------
(***************************************************************************)
(* One AsyncClient (ikigai/aio.py) on its Unix-socket connection, and the  *)
(* server's thread at the other end (Server._handle of ikigai/serve.py).   *)
(*                                                                         *)
(* Every call is a task: it takes the client's lock, writes its request,   *)
(* drains the writer, and reads the reply in two reads, the four bytes of  *)
(* its length and then its body.  The server answers the requests in the   *)
(* order they come.  Nothing in a reply says which request it answers.     *)
(***************************************************************************)
EXTENDS Naturals, Sequences, FiniteSets, SequencesExt

CONSTANTS
  Calls,   (* the calls made on one client, each a task                     *)
  Large,   (* those whose request fills the transport's write buffer        *)
  NoCall   (* no call                                                       *)

ASSUME CallsAssumption == Large \subseteq Calls /\ NoCall \notin Calls

VARIABLES
  pc,        (* where each call's task is suspended                         *)
  outcome,   (* what the call returned or raised                            *)
  got,       (* the call whose reply it returned, if it was one's           *)
  lockq,     (* the tasks waiting for _lock, first come first served        *)
  written,   (* history: the calls written, in order                        *)
  toDoor,    (* the requests the server has not read yet                    *)
  serving,   (* the request the server is dispatching                       *)
  inFlight,  (* the parts of replies on their way                           *)
  buffer,    (* the parts the StreamReader holds                            *)
  ended,     (* whether the server's end is gone                            *)
  closed     (* whether close() has run                                     *)

taskVars == <<pc, outcome, got>>
doorVars == <<toDoor, serving>>
vars     == <<taskVars, lockq, written, doorVars, inFlight, buffer, ended, closed>>

Reading   == {"header", "body", "garbled"}
Suspended == {"drain"} \cup Reading          (* the awaits inside the lock *)
Part      == [kind : {"length", "body"}, of : Calls]

TypeOK ==
  /\ pc \in [Calls -> {"idle", "queued", "done"} \cup Suspended]
  /\ outcome \in [Calls -> {"none", "reply", "lost", "protocol", "cancelled"}]
  /\ got \in [Calls -> Calls \cup {NoCall}]
  /\ lockq \in Seq(Calls)
  /\ written \in Seq(Calls)
  /\ toDoor \in Seq(Calls)
  /\ serving \in Calls \cup {NoCall}
  /\ inFlight \in Seq(Part)
  /\ buffer \in Seq(Part)
  /\ ended \in BOOLEAN /\ closed \in BOOLEAN

(* The client adopts a stream pair that has exchanged its hellos. *)
Init ==
  /\ pc = [c \in Calls |-> "idle"]
  /\ outcome = [c \in Calls |-> "none"]
  /\ got = [c \in Calls |-> NoCall]
  /\ lockq = <<>> /\ written = <<>>
  /\ toDoor = <<>> /\ serving = NoCall
  /\ inFlight = <<>> /\ buffer = <<>>
  /\ ended = FALSE /\ closed = FALSE
-----------------------------------------------------------------------------
(* Mutants: operators named Bug_* are what the definition that follows them *)
(* would be with a plausible slip; no specification uses them.              *)
Bug_LockIgnored == TRUE

(* _lock is held by the task suspended inside `async with self._lock`. *)
LockFree == \A c \in Calls : pc[c] \notin Suspended

Finish(c, why) ==
  /\ pc' = [pc EXCEPT ![c] = "done"]
  /\ outcome' = [outcome EXCEPT ![c] = why]

Goes(c, label) == pc' = [pc EXCEPT ![c] = label] /\ UNCHANGED outcome

(* The transport still holds bytes it could not send. *)
Flushing == \E i \in DOMAIN toDoor : toDoor[i] \in Large

(* The transport is lost: the server is gone, or close() has flushed. *)
Lost == ended \/ (closed /\ ~Flushing)

(* The reader will get no more bytes: what it holds is all there is. *)
AtEof == (ended /\ inFlight = <<>>) \/ (closed /\ ~Flushing)
-----------------------------------------------------------------------------
Issue(c) ==
  /\ pc[c] = "idle"
  /\ Goes(c, "queued")
  /\ lockq' = Append(lockq, c)
  /\ UNCHANGED <<got, written, doorVars, inFlight, buffer, ended, closed>>

(***************************************************************************)
(* The lock is taken and the request written, unless it is too long for a  *)
(* frame; drain() suspends the task only while the buffer is full.  A lost *)
(* transport drops the bytes, and drain() or the first read raises; a      *)
(* server that has just gone may still leave a reply to read.              *)
(***************************************************************************)
Acquire(c) ==
  /\ pc[c] = "queued" /\ LockFree
  /\ lockq # <<>> /\ Head(lockq) = c
  /\ lockq' = Tail(lockq)
  /\ \/ /\ Finish(c, "protocol")
        /\ UNCHANGED <<written, toDoor>>
     \/ /\ Lost
        /\ Finish(c, "lost")
        /\ UNCHANGED <<written, toDoor>>
     \/ /\ ended \/ ~Lost
        /\ written' = Append(written, c)
        /\ toDoor' = IF ended THEN toDoor ELSE Append(toDoor, c)
        /\ Goes(c, IF Flushing' THEN "drain" ELSE "header")
  /\ UNCHANGED <<got, serving, inFlight, buffer, ended, closed>>

(* drain() has no deadline: a full buffer waits for the server to read. *)
Drained(c) ==
  /\ pc[c] = "drain"
  /\ \/ Lost /\ Finish(c, "lost")
     \/ ~Flushing /\ Goes(c, "header")
  /\ UNCHANGED <<got, lockq, written, doorVars, inFlight, buffer, ended, closed>>

(***************************************************************************)
(* readexactly(4).  What comes next in the stream is read as a length,     *)
(* whatever it is: the rest of an abandoned reply reads as a length beyond *)
(* the frame limit, or as one that some bytes to come will satisfy.        *)
(***************************************************************************)
ReadHeader(c) ==
  /\ pc[c] = "header" /\ buffer # <<>>
  /\ \/ /\ Head(buffer).kind = "length"
        /\ Goes(c, "body")
        /\ buffer' = Tail(buffer)
     \/ /\ Head(buffer).kind = "body"
        /\ Finish(c, "protocol") \/ Goes(c, "garbled")
        /\ UNCHANGED buffer
  /\ UNCHANGED <<got, lockq, written, doorVars, inFlight, ended, closed>>

Bug_BodyPeeked(c) ==
  /\ pc[c] = "body" /\ buffer # <<>>
  /\ Finish(c, "reply")
  /\ got' = [got EXCEPT ![c] = Head(buffer).of]
  /\ buffer' = SelectSeq(buffer, LAMBDA p : p.kind = "length") \o buffer
  /\ UNCHANGED <<lockq, written, doorVars, inFlight, ended, closed>>

ReadBody(c) ==
  /\ pc[c] = "body" /\ buffer # <<>>
  /\ Finish(c, "reply")
  /\ got' = [got EXCEPT ![c] = Head(buffer).of]
  /\ buffer' = Tail(buffer)
  /\ UNCHANGED <<lockq, written, doorVars, inFlight, ended, closed>>

(* As many bytes as the garbled length says, which may reach into any of  *)
(* the parts to come.  What decodes from them, if anything, is nobody's.  *)
ReadGarbled(c) ==
  /\ pc[c] = "garbled"
  /\ \E n \in 0 .. Len(buffer) : buffer' = SubSeq(buffer, n + 1, Len(buffer))
  /\ Finish(c, "protocol") \/ Finish(c, "reply")
  /\ UNCHANGED <<got, lockq, written, doorVars, inFlight, ended, closed>>

(* The stream ends before the bytes asked for have come. *)
ReadFails(c) ==
  /\ pc[c] \in Reading /\ AtEof
  /\ buffer = <<>> \/ pc[c] = "garbled"
  /\ Finish(c, "lost")
  /\ buffer' = <<>>
  /\ UNCHANGED <<got, lockq, written, doorVars, inFlight, ended, closed>>

Bug_HeaderTimeoutOnly(c) ==
  /\ pc[c] = "header"
  /\ Finish(c, "lost")
  /\ UNCHANGED <<got, lockq, written, doorVars, inFlight, buffer, ended, closed>>

(* Each read has the client's timeout; what has come stays in the reader. *)
TimesOut(c) ==
  /\ pc[c] \in Reading
  /\ Finish(c, "lost")
  /\ UNCHANGED <<got, lockq, written, doorVars, inFlight, buffer, ended, closed>>

(* The caller cancels its task, at any of the awaits. *)
Cancel(c) ==
  /\ \/ /\ pc[c] = "queued"
        /\ \E i \in 1 .. Len(lockq) : lockq[i] = c /\ lockq' = RemoveAt(lockq, i)
     \/ pc[c] \in Suspended /\ UNCHANGED lockq
  /\ Finish(c, "cancelled")
  /\ UNCHANGED <<got, written, doorVars, inFlight, buffer, ended, closed>>

(* close() takes no lock.  The transport reads no more, and what it has not *)
(* sent it still flushes.                                                   *)
Close ==
  /\ ~closed /\ closed' = TRUE
  /\ inFlight' = <<>>
  /\ UNCHANGED <<taskVars, lockq, written, doorVars, buffer, ended>>
-----------------------------------------------------------------------------
(* The server's thread for this connection, and the socket between. *)

DoorReads ==
  /\ ~ended /\ serving = NoCall /\ toDoor # <<>>
  /\ serving' = Head(toDoor)
  /\ toDoor' = Tail(toDoor)
  /\ UNCHANGED <<taskVars, lockq, written, inFlight, buffer, ended, closed>>

Reply(c) == <<[kind |-> "length", of |-> c], [kind |-> "body", of |-> c]>>

DoorAnswers ==
  /\ ~ended /\ serving # NoCall
  /\ inFlight' = IF closed THEN inFlight ELSE inFlight \o Reply(serving)
  /\ serving' = NoCall
  /\ UNCHANGED <<taskVars, lockq, written, toDoor, buffer, ended, closed>>

(* A part of a reply reaches the StreamReader. *)
Arrives ==
  /\ inFlight # <<>>
  /\ buffer' = Append(buffer, Head(inFlight))
  /\ inFlight' = Tail(inFlight)
  /\ UNCHANGED <<taskVars, lockq, written, doorVars, ended, closed>>

(* The server is gone, or has dropped this connection; what it had sent may *)
(* still arrive, or be lost with it.                                        *)
DoorEnds ==
  /\ ~ended /\ ended' = TRUE
  /\ toDoor' = <<>> /\ serving' = NoCall
  /\ inFlight' \in {inFlight, <<>>}
  /\ UNCHANGED <<taskVars, lockq, written, buffer, closed>>
-----------------------------------------------------------------------------
(* The steps of call c's own task that the loop owes it, timeouts included. *)
Runs(c) ==
  \/ Acquire(c) \/ Drained(c) \/ ReadHeader(c) \/ ReadBody(c)
  \/ ReadGarbled(c) \/ ReadFails(c) \/ TimesOut(c)

Next ==
  \/ \E c \in Calls : Issue(c) \/ Runs(c) \/ Cancel(c)
  \/ Close
  \/ DoorReads \/ DoorAnswers \/ Arrives \/ DoorEnds

Spec == Init /\ [][Next]_vars

(* asyncio runs every ready task, and wait_for ends each read.  Nothing is *)
(* asked of the server.                                                    *)
FairSpec == Spec /\ \A c \in Calls : WF_vars(Runs(c))
-----------------------------------------------------------------------------
(* What must hold. *)

(* A call that was written, and given up before its reply was read. *)
Abandoned(c) ==
  c \in ToSet(written) /\ outcome[c] \in {"lost", "cancelled", "protocol"}

Before(d, c) ==
  \E i, j \in DOMAIN written : i < j /\ written[i] = d /\ written[j] = c

(***************************************************************************)
(* A call returns the reply to its own request as long as no call written  *)
(* before it was abandoned (_lock, and the order of _serve_one_frame); the *)
(* reply of a later call, or of one not written, it never returns.         *)
(***************************************************************************)
InStepUntilAbandoned ==
  \A c \in Calls : outcome[c] = "reply" /\ got[c] # c =>
    /\ got[c] = NoCall \/ Before(got[c], c)
    /\ \E d \in Calls : Abandoned(d) /\ Before(d, c)

(* No reply is returned to two calls, whatever is abandoned or garbled. *)
RepliesUsedOnce ==
  \A c, d \in Calls : got[c] = got[d] /\ got[c] # NoCall => c = d

(* The client is one of those RoundTrips describes, and never sends again. *)
Phase(c) ==
  CASE pc[c] = "idle" -> "idle"
    [] pc[c] = "queued" -> "waiting"
    [] pc[c] = "done" -> "done"
    [] OTHER -> "active"

RT == INSTANCE RoundTrips WITH
        Replayable <- {},
        phase   <- [c \in Calls |-> Phase(c)],
        heard   <- [c \in Calls |-> Cardinality({i \in DOMAIN written : written[i] = c})],
        replied <- {c \in Calls : outcome[c] = "reply"}

ImplementsRoundTrips == RT!Spec

(***************************************************************************)
(* Every call returns or raises, whatever the server does: its reads have  *)
(* timeouts.  drain() has none, so a server that stops reading with the    *)
(* buffer full holds the call, and those behind it, for as long as it does *)
(* (_round_trip); nothing else ever does.                                  *)
(***************************************************************************)
OnlyDrainHangs == \A c \in Calls : pc[c] # "idle" ~> (pc[c] = "done" \/ []Flushing)
-----------------------------------------------------------------------------
(* What the documentation says and the code does not do. *)

(***************************************************************************)
(* "One request in flight at a time per connection (the wire is strictly   *)
(* call/reply)" and, at the lock, "keep concurrent tasks strictly          *)
(* call/reply" (aio.py): a call returns the reply to its own request.      *)
(***************************************************************************)
StrictlyCallReply == \A c \in Calls : outcome[c] = "reply" => got[c] = c
=============================================================================
