------------------------------ MODULE QuicWire ------------------------------
(***************************************************************************)
(* The connection state one QUIC client keeps (class _Wire of              *)
(* ikigai/quic.py) and the calls that run over it (AsyncQuicClient).       *)
(*                                                                         *)
(* Every call is an asyncio task.  A task takes the wire's lock, heals the *)
(* connection if it has ended, sends its request on a fresh stream, awaits *)
(* the reply under a deadline, and sends a read once more on a new         *)
(* connection when the reply was lost.  One action below is what the event *)
(* loop runs between two awaits, so the interleavings are those of the     *)
(* loop: a door may end a connection, a caller may cancel, or close() may  *)
(* run, wherever a task is suspended.                                      *)
(***************************************************************************)
EXTENDS Naturals, Sequences, FiniteSets, SequencesExt

CONSTANTS
  Calls,        (* the calls made on one client, each a task                *)
  Replayable,   (* those replayable() lets be sent twice                    *)
  Describe,     (* those is_describe() puts under the describe deadline     *)
  CarriesRun,   (* those issued while client.retries or .deadline is set    *)
  MaxConns,     (* bound: the connections this client ever opens            *)
  Addresses,    (* how many addresses the door's name resolves to           *)
  DoorVersions, (* the wire versions the door, or its successors, negotiate *)
  Python311     (* whether asyncio.wait_for runs the dial as its own task   *)

IssueWithSince == 9

ASSUME CallsAssumption ==
  /\ Replayable \subseteq Calls
  /\ Describe \subseteq Replayable
  /\ CarriesRun \subseteq Calls

ASSUME NumbersAssumption ==
  /\ MaxConns \in Nat \ {0}
  /\ Addresses \in Nat \ {0}
  /\ DoorVersions # {} /\ DoorVersions \subseteq 7 .. 9
  /\ Python311 \in BOOLEAN

Conns    == 1 .. MaxConns
NoConn   == 0
Streams  == Calls \X {1, 2}
Failures == {"lost", "trust", "protocol"}
Forms    == {"plain", "with"}

VARIABLES
  pc,            (* where each call's task is suspended                     *)
  attempt,       (* 1, or 2 for the replay                                  *)
  outcome,       (* what the call returned or raised                        *)
  built,         (* the form the call was built in                          *)
  payload,       (* the form it was last encoded in                         *)
  lockq,         (* the tasks waiting for _lock, first come first served    *)
  protocol,      (* _Wire.protocol                                          *)
  stale,         (* _Wire._stale                                            *)
  pinger,        (* whether the _ping task runs                             *)
  serverVersion, (* AsyncQuicClient.server_version                          *)
  closed,        (* whether close() has run                                 *)
  st,            (* each connection's state; a failure once it has one      *)
  ver,           (* the version each connection negotiated                  *)
  dials,         (* the connections opened so far                           *)
  dialing,       (* the connection being dialed, NoConn while resolving     *)
  addr,          (* the address being tried                                 *)
  conn,          (* the connection each stream was opened on                *)
  form,          (* the form each stream's request was sent in              *)
  fut,           (* the future of each stream's reply                       *)
  sends          (* how often each call was handed to a connection          *)

taskVars   == <<pc, attempt, outcome, built, payload>>
wireVars   == <<protocol, stale, pinger, serverVersion, closed>>
connVars   == <<st, ver, dials, dialing, addr>>
streamVars == <<conn, form, fut, sends>>
vars       == <<taskVars, lockq, wireVars, connVars, streamVars>>

Suspended == {"heal", "reheal", "wait"}   (* the awaits inside the lock *)

TypeOK ==
  /\ pc \in [Calls -> {"idle", "queued", "done"} \cup Suspended]
  /\ attempt \in [Calls -> {1, 2}]
  /\ outcome \in [Calls -> {"none", "reply", "cancelled"} \cup Failures]
  /\ built \in [Calls -> Forms]
  /\ payload \in [Calls -> Forms]
  /\ lockq \in Seq(Calls)
  /\ protocol \in Conns \cup {NoConn}
  /\ stale \in BOOLEAN /\ pinger \in BOOLEAN /\ closed \in BOOLEAN
  /\ serverVersion \in DoorVersions
  /\ st \in [Conns -> {"none", "dialing", "up", "closing"} \cup Failures]
  /\ ver \in [Conns -> DoorVersions]
  /\ dials \in Conns
  /\ dialing \in Conns \cup {NoConn}
  /\ addr \in 0 .. Addresses
  /\ conn \in [Streams -> Conns \cup {NoConn}]
  /\ form \in [Streams -> Forms]
  /\ fut \in [Streams -> {"none", "pending", "reply", "dropped"} \cup Failures]
  /\ sends \in [Calls -> Nat]

(***************************************************************************)
(* A client is handed out only after open() has dialed: it starts with a   *)
(* connection that is ready and pinged.                                    *)
(***************************************************************************)
Init ==
  /\ pc = [c \in Calls |-> "idle"]
  /\ attempt = [c \in Calls |-> 1]
  /\ outcome = [c \in Calls |-> "none"]
  /\ built = [c \in Calls |-> "plain"]
  /\ payload = [c \in Calls |-> "plain"]
  /\ lockq = <<>>
  /\ protocol = 1 /\ stale = FALSE /\ pinger = TRUE /\ closed = FALSE
  /\ st = [k \in Conns |-> IF k = 1 THEN "up" ELSE "none"]
  /\ \E v \in DoorVersions : ver = [k \in Conns |-> v] /\ serverVersion = v
  /\ dials = 1 /\ dialing = NoConn /\ addr = 0
  /\ conn = [s \in Streams |-> NoConn]
  /\ form = [s \in Streams |-> "plain"]
  /\ fut = [s \in Streams |-> "none"]
  /\ sends = [c \in Calls |-> 0]
-----------------------------------------------------------------------------
Ended(k)  == st[k] \in Failures                       (* protocol.ended *)
Stream(c) == <<c, attempt[c]>>

(* Mutants: operators named Bug_* are what the definition that follows them *)
(* would be with a plausible slip; no specification uses them.              *)
Bug_LockIgnored == TRUE

(* _lock is held by the task suspended inside `async with self._lock`. *)
LockFree == \A c \in Calls : pc[c] \notin Suspended

Finish(c, why) ==
  /\ pc' = [pc EXCEPT ![c] = "done"]
  /\ outcome' = [outcome EXCEPT ![c] = why]

(* _payload: an IssueWith is encoded as one only for a door that knows it. *)
Encode(c, k) ==
  IF built[c] = "with" /\ ver[k] >= IssueWithSince THEN "with" ELSE "plain"

(* send_call: a fresh stream, the payload whole, a future for the reply. *)
Send(c, k, f) ==
  /\ pc' = [pc EXCEPT ![c] = "wait"]
  /\ conn' = [conn EXCEPT ![Stream(c)] = k]
  /\ form' = [form EXCEPT ![Stream(c)] = f]
  /\ fut' = [fut EXCEPT ![Stream(c)] = "pending"]
  /\ sends' = [sends EXCEPT ![c] = @ + 1]

Bug_NotClosed(k) == st

(* Closing a connection from this side: it ends later, by its own timer. *)
Closing(k) ==
  [j \in Conns |-> IF j = k /\ st[j] = "up" THEN "closing" ELSE st[j]]

Bug_TrustForgotten(k) == FALSE

TrustRefused(k) == k # NoConn /\ st[k] = "trust"

(***************************************************************************)
(* _heal, with k the wire's protocol.  A trust refusal is raised again;    *)
(* any other connection is dropped, and the redial starts by resolving the *)
(* door's name.                                                            *)
(***************************************************************************)
Heal(c, k, label) ==
  \/ /\ TrustRefused(k)
     /\ Finish(c, "trust")
     /\ protocol' = k /\ dialing' = NoConn /\ addr' = 0
     /\ UNCHANGED st
  \/ /\ ~TrustRefused(k)
     /\ pc' = [pc EXCEPT ![c] = label]
     /\ protocol' = NoConn /\ dialing' = NoConn /\ addr' = 0
     /\ st' = Closing(k)
     /\ UNCHANGED outcome
-----------------------------------------------------------------------------
(***************************************************************************)
(* A verb is called.  The call is built for the version last seen, before  *)
(* the lock is awaited.                                                    *)
(***************************************************************************)
Issue(c) ==
  /\ pc[c] = "idle"
  /\ pc' = [pc EXCEPT ![c] = "queued"]
  /\ built' = [built EXCEPT ![c] =
       IF c \in CarriesRun /\ serverVersion >= IssueWithSince
         THEN "with" ELSE "plain"]
  /\ lockq' = Append(lockq, c)
  /\ UNCHANGED <<attempt, outcome, payload, wireVars, connVars, streamVars>>

Bug_StaleStillUsable == protocol # NoConn /\ ~Ended(protocol)

Usable == protocol # NoConn /\ ~Ended(protocol) /\ ~stale

(* round_trip from the lock to its next await. *)
Acquire(c) ==
  /\ pc[c] = "queued" /\ LockFree
  /\ lockq # <<>> /\ Head(lockq) = c
  /\ lockq' = Tail(lockq)
  /\ \/ /\ ~Usable
        /\ Heal(c, protocol, "heal")
        /\ UNCHANGED <<payload, streamVars>>
     \/ /\ Usable
        /\ payload' = [payload EXCEPT ![c] = Encode(c, protocol)]
        /\ Send(c, protocol, Encode(c, protocol))
        /\ UNCHANGED <<outcome, protocol, st, dialing, addr>>
  /\ UNCHANGED <<attempt, built, stale, pinger, serverVersion, closed, ver,
                 dials>>
-----------------------------------------------------------------------------
(* The dial.  Each address gets a connection of its own. *)

Dialing(c) == pc[c] \in {"heal", "reheal"}

StartDial(a) ==
  /\ dials < MaxConns
  /\ dials' = dials + 1 /\ dialing' = dials + 1 /\ addr' = a

Resolved(c) ==
  /\ Dialing(c) /\ dialing = NoConn
  /\ StartDial(1)
  /\ st' = [st EXCEPT ![dials + 1] = "dialing"]
  /\ UNCHANGED <<taskVars, lockq, wireVars, ver, streamVars>>

ResolveFails(c) ==
  /\ Dialing(c) /\ dialing = NoConn
  /\ Finish(c, "lost")
  /\ UNCHANGED <<attempt, built, payload, lockq, wireVars, connVars,
                 streamVars>>

(* From Python 3.12 the connect timeout or a cancellation that comes before *)
(* the task has resumed wins over a connection that already became ready.   *)
StillDialing ==
  dialing # NoConn
    => st[dialing] = "dialing" \/ (st[dialing] = "up" /\ ~Python311)

(* Timed out, unreachable or ended before it was ready: the next address. *)
AddressFails(c) ==
  /\ Dialing(c) /\ dialing # NoConn /\ StillDialing
  /\ \/ /\ addr < Addresses
        /\ StartDial(addr + 1)
        /\ st' = [st EXCEPT ![dialing] = "lost", ![dials + 1] = "dialing"]
        /\ UNCHANGED <<pc, outcome>>
     \/ /\ addr = Addresses
        /\ Finish(c, "lost")
        /\ st' = [st EXCEPT ![dialing] = "lost"]
        /\ dialing' = NoConn
        /\ UNCHANGED <<dials, addr>>
  /\ UNCHANGED <<attempt, built, payload, lockq, wireVars, ver, streamVars>>

(* Either side refused the other, or no version is shared: no next address. *)
DialRefused(c, why) ==
  /\ Dialing(c) /\ dialing # NoConn /\ st[dialing] = "dialing"
  /\ st' = [st EXCEPT ![dialing] = why]
  /\ dialing' = NoConn
  /\ Finish(c, why)
  /\ UNCHANGED <<attempt, built, payload, lockq, wireVars, ver, dials, addr,
                 streamVars>>

(* The handshake is confirmed and every check passed: wait_ready returns. *)
DialReady(c, v) ==
  /\ Dialing(c) /\ dialing # NoConn /\ st[dialing] = "dialing"
  /\ st' = [st EXCEPT ![dialing] = "up"]
  /\ ver' = [ver EXCEPT ![dialing] = v]
  /\ UNCHANGED <<taskVars, lockq, wireVars, dials, dialing, addr, streamVars>>

(***************************************************************************)
(* The task resumes with the connection: the rest of _redial, then         *)
(* _payload and _attempt up to the next await.  A connection that ended    *)
(* before the task resumed is healed once more, with the payload already   *)
(* encoded; then send_call raises the failure of one that ended too.       *)
(***************************************************************************)
Redialed(c) ==
  /\ Dialing(c) /\ dialing # NoConn /\ st[dialing] # "dialing"
  /\ LET k == dialing
         f == IF pc[c] = "heal" THEN Encode(c, k) ELSE payload[c]
     IN
     /\ payload' = [payload EXCEPT ![c] = f]
     /\ \/ /\ ~Ended(k)
           /\ Send(c, k, f)
           /\ protocol' = k /\ dialing' = NoConn /\ addr' = 0
           /\ UNCHANGED <<st, outcome>>
        \/ /\ Ended(k) /\ pc[c] = "heal"
           /\ Heal(c, k, "reheal")
           /\ UNCHANGED streamVars
        \/ /\ Ended(k) /\ pc[c] = "reheal"
           /\ Finish(c, st[k])
           /\ protocol' = k /\ dialing' = NoConn /\ addr' = 0
           /\ UNCHANGED <<st, streamVars>>
  /\ stale' = FALSE /\ pinger' = TRUE
  /\ UNCHANGED <<attempt, built, lockq, serverVersion, closed, ver, dials>>
-----------------------------------------------------------------------------
(* What arrives from the door, or from the timers, between two steps. *)

Bug_FutureLeftPending(k, why) == fut

(* Fails every future still pending on connection k. *)
FailAll(k, why) ==
  [s \in Streams |-> IF conn[s] = k /\ fut[s] = "pending" THEN why ELSE fut[s]]

Resumes(s, result) ==
  /\ fut[s] = "pending" /\ st[conn[s]] = "up"
  /\ fut' = [fut EXCEPT ![s] = result]
  /\ UNCHANGED <<taskVars, lockq, wireVars, connVars, conn, form, sends>>

ReplyArrives(s)  == Resumes(s, "reply")
ReplyTooLarge(s) == Resumes(s, "protocol")
StreamReset(s)   == Resumes(s, "lost")

(***************************************************************************)
(* The door closed the connection, it fell silent, or a local close ran    *)
(* its course.  Without a task of its own, the dial is resumed before      *)
(* anything else happens to the connection it returned.                    *)
(***************************************************************************)
ConnEnds(k, why) ==
  /\ \/ st[k] = "up" /\ (k # dialing \/ Python311)
     \/ st[k] = "closing" /\ why = "lost"
  /\ st' = [st EXCEPT ![k] = why]
  /\ fut' = FailAll(k, why)
  /\ UNCHANGED <<taskVars, lockq, wireVars, ver, dials, dialing, addr, conn,
                 form, sends>>
-----------------------------------------------------------------------------
(* _attempt resumes after its await, and round_trip after _attempt. *)

Answered(c) ==
  /\ pc[c] = "wait" /\ fut[Stream(c)] = "reply"
  /\ Finish(c, "reply")
  /\ serverVersion' = IF protocol = NoConn THEN serverVersion ELSE ver[protocol]
  /\ UNCHANGED <<attempt, built, payload, lockq, protocol, stale, pinger,
                 closed, connVars, streamVars>>

Refused(c) ==
  /\ pc[c] = "wait" /\ fut[Stream(c)] \in {"trust", "protocol"}
  /\ Finish(c, fut[Stream(c)])
  /\ UNCHANGED <<attempt, built, payload, lockq, wireVars, connVars,
                 streamVars>>

Bug_ReplaysWrites(c) == attempt[c] = 1

(* The reply is lost (_Sent): raised, or sent once more on a new connection. *)
MayReplay(c) == c \in Replayable /\ attempt[c] = 1

ReplyLost(c) ==
  /\ pc[c] = "wait" /\ fut[Stream(c)] = "lost"
  /\ \/ /\ ~MayReplay(c)
        /\ Finish(c, "lost")
        /\ UNCHANGED <<attempt, protocol, st, dialing, addr>>
     \/ /\ MayReplay(c)
        /\ attempt' = [attempt EXCEPT ![c] = 2]
        /\ Heal(c, protocol, "heal")
  /\ UNCHANGED <<built, payload, lockq, stale, pinger, serverVersion, closed,
                 ver, dials, streamVars>>

(* A deadline armed only while the connection is up. *)
Bug_DeadlineNeedsConnection(c) ==
  pc[c] = "wait" /\ fut[Stream(c)] = "pending" /\ st[conn[Stream(c)]] = "up"

(* From Python 3.12 a deadline or a cancellation that comes before the task *)
(* has resumed wins over an answer that already arrived.                    *)
StillAwaiting(c) ==
  /\ pc[c] = "wait"
  /\ fut[Stream(c)] = "pending" \/ ~Python311

TimesOut(c) ==
  /\ StillAwaiting(c)
  /\ fut' = [fut EXCEPT ![Stream(c)] = "dropped"]
  /\ stale' = (stale \/ c \in Describe)
  /\ Finish(c, "lost")
  /\ UNCHANGED <<attempt, built, payload, lockq, protocol, pinger,
                 serverVersion, closed, connVars, conn, form, sends>>
-----------------------------------------------------------------------------
(* The caller cancels its task, at each of the awaits. *)

CancelQueued(c) ==
  /\ pc[c] = "queued"
  /\ \E i \in 1 .. Len(lockq) : lockq[i] = c /\ lockq' = RemoveAt(lockq, i)
  /\ Finish(c, "cancelled")
  /\ UNCHANGED <<attempt, built, payload, wireVars, connVars, streamVars>>

(* _dial_one closes the connection it was dialing. *)
CancelDial(c) ==
  /\ Dialing(c) /\ StillDialing
  /\ st' = [k \in Conns |-> IF k = dialing THEN "lost" ELSE st[k]]
  /\ dialing' = NoConn
  /\ Finish(c, "cancelled")
  /\ UNCHANGED <<attempt, built, payload, lockq, wireVars, ver, dials, addr,
                 streamVars>>

CancelWait(c) ==
  /\ StillAwaiting(c)
  /\ fut' = [fut EXCEPT ![Stream(c)] = "dropped"]
  /\ Finish(c, "cancelled")
  /\ UNCHANGED <<attempt, built, payload, lockq, wireVars, connVars, conn,
                 form, sends>>

Bug_CloseKeepsProtocol ==
  /\ closed' = TRUE
  /\ pinger' = FALSE
  /\ st' = Closing(protocol)
  /\ UNCHANGED <<taskVars, lockq, protocol, stale, serverVersion, ver, dials,
                 dialing, addr, streamVars>>

(* close() takes no lock: it may run while a call is suspended anywhere,   *)
(* and again.                                                              *)
Close ==
  /\ closed' = TRUE
  /\ pinger' = FALSE
  /\ protocol' = NoConn
  /\ st' = Closing(protocol)
  /\ UNCHANGED <<taskVars, lockq, stale, serverVersion, ver, dials, dialing,
                 addr, streamVars>>
-----------------------------------------------------------------------------
(* The steps of call c's own task that the loop owes it, timeouts included. *)
Runs(c) ==
  \/ Acquire(c)
  \/ Resolved(c) \/ AddressFails(c) \/ Redialed(c)
  \/ Answered(c) \/ Refused(c) \/ ReplyLost(c) \/ TimesOut(c)

Cancel(c) == CancelQueued(c) \/ CancelDial(c) \/ CancelWait(c)

Next ==
  \/ \E c \in Calls : Issue(c) \/ Runs(c) \/ Cancel(c)
  \/ \E c \in Calls : ResolveFails(c)
  \/ \E c \in Calls, why \in {"trust", "protocol"} : DialRefused(c, why)
  \/ \E c \in Calls, v \in DoorVersions : DialReady(c, v)
  \/ \E s \in Streams : ReplyArrives(s) \/ ReplyTooLarge(s) \/ StreamReset(s)
  \/ \E k \in Conns, why \in Failures : ConnEnds(k, why)
  \/ Close

Spec == Init /\ [][Next]_vars

(***************************************************************************)
(* asyncio runs every ready task, wait_for ends every dial at the connect  *)
(* timeout and every awaited reply at the call's deadline.  Nothing is     *)
(* asked of the door or the network.                                       *)
(***************************************************************************)
FairSpec == Spec /\ \A c \in Calls : WF_vars(Runs(c))
-----------------------------------------------------------------------------
(* What must hold. *)

(***************************************************************************)
(* A sink or a delete is handed to a door at most once, whatever is lost,  *)
(* closed, timed out or cancelled; a read at most twice, and the second    *)
(* time only because its first reply was lost, on another connection       *)
(* (replayable, _Sent and round_trip).                                     *)
(***************************************************************************)
SentAgainOnlyIfLost ==
  \A c \in Calls :
    /\ sends[c] <= IF c \in Replayable THEN 2 ELSE 1
    /\ sends[c] = 2 => /\ fut[<<c, 1>>] = "lost"
                       /\ conn[<<c, 2>>] # conn[<<c, 1>>]

(* Calls are sent one at a time: the lock covers a call's dials, its sends *)
(* and its wait, replay included.                                          *)
OneAtATime ==
  \A c, d \in Calls : pc[c] \in Suspended /\ pc[d] \in Suspended => c = d

(* A door that negotiated a version before 9 never hears an IssueWith,     *)
(* though the door may be replaced by an older one between any two steps   *)
(* (_payload).                                                             *)
OldDoorHearsNoIssueWith ==
  \A s \in Streams : form[s] = "with" => ver[conn[s]] >= IssueWithSince

(* No reply is awaited from a connection that has ended: _terminated fails *)
(* every future, and nothing is sent on a connection that ended earlier.   *)
EndedConnectionOwesNothing ==
  \A s \in Streams : fut[s] = "pending" => ~Ended(conn[s])

(* The client never leaves a connection open that it cannot reach: each is *)
(* the wire's, or the dial in progress, or was closed or dropped.          *)
NoConnectionLeaks ==
  \A k \in Conns : st[k] \in {"dialing", "up"} => k \in {protocol, dialing}

(* While a connection that was refused on trust is the wire's, no call is  *)
(* sent and no connection is opened: every call meets the same refusal,    *)
(* until close() drops it.                                                 *)
TrustRefusalSticks ==
  [][protocol # NoConn /\ st[protocol] = "trust"
       => UNCHANGED <<dials, sends>> /\ (protocol' = protocol \/ Close)]_vars

(* A connection whose door could not describe itself in time is never used *)
(* for another call: the next one redials.                                 *)
StaleConnectionNeverReused ==
  [][stale /\ sends' # sends
       => \E s \in Streams : fut'[s] = "pending" /\ st[conn'[s]] = "up"
                             /\ conn'[s] \notin {conn[t] : t \in Streams}]_vars

(* The connection the wire holds is kept alive by the ping task, also when *)
(* it was redialed after the ping task had been cancelled.                 *)
PingedWhileOpen == protocol # NoConn => pinger

(* The client is one of those RoundTrips describes. *)
Phase(c) ==
  CASE pc[c] = "idle" -> "idle"
    [] pc[c] = "queued" -> "waiting"
    [] pc[c] = "done" -> "done"
    [] OTHER -> "active"

RT == INSTANCE RoundTrips WITH
        phase   <- [c \in Calls |-> Phase(c)],
        heard   <- sends,
        replied <- {c \in Calls : outcome[c] = "reply"}

ImplementsRoundTrips == RT!Spec

(* Every call that is made returns or raises, whatever the door does.      *)
EveryCallEnds == \A c \in Calls : pc[c] = "queued" ~> pc[c] = "done"
-----------------------------------------------------------------------------
(* What the documentation says and the code does not do. *)

(***************************************************************************)
(* "A closed client is final: it does not redial, and every later call     *)
(* fails" (client.py, Client.close; "final" again on both close methods of *)
(* quic.py): once close() has run, no call is handed to a door.            *)
(***************************************************************************)
CloseIsFinal == [][closed => sends' = sends]_vars
=============================================================================
