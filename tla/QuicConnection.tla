--------------------------- MODULE QuicConnection ---------------------------
(***************************************************************************)
(* One QUIC connection to a door (class _DoorProtocol of ikigai/quic.py):  *)
(* the pin and the version checked as the handshake completes, the calls   *)
(* a connection carries, each on a stream of its own, and why it ended.    *)
(*                                                                         *)
(* QuicWire has the client over such connections; what it does to this one *)
(* is here its dial's wait, a call at a time, and the drop.  aioquic and   *)
(* the door are external: a datagram brings one frame or two, the bytes of *)
(* a stream come in order, and once either side has closed the connection  *)
(* nothing more is heard; aioquic reports the end a draining period later. *)
(***************************************************************************)
EXTENDS Naturals, Sequences

CONSTANTS
  Verdicts,       (* what the door may make of this client, and be           *)
  Versions,       (* the wire versions this client speaks                    *)
  ReplyLengths,   (* how many chunks a reply may have                        *)
  MaxFrame,       (* chunks a reply may have before it is refused            *)
  MaxCalls        (* bound: calls made on the connection                     *)

(* Not pinnable, not the pinned one, of no version (as it says, or by        *)
(* silence), not trusting this client, not having enrolled it, or serving it.*)
AllVerdicts == {"uncertified", "stranger", "unversioned", "alpnless", "untrusted",
                "unenrolled", "welcome"}

ASSUME ConnectionAssumption ==
  /\ Verdicts \subseteq AllVerdicts
  /\ Versions \subseteq Nat \ {0} /\ ReplyLengths \subseteq Nat \ {0}
  /\ MaxFrame \in Nat /\ MaxCalls \in Nat

VARIABLES
  verdict,   (* the door's                                                   *)
  length,    (* by call: the chunks of the reply the door gives it           *)
  dial,      (* the client's: "waiting", "up", "failed", "dropped"           *)
  conn,      (* the connection: see ConnType                                 *)
  futures    (* by call: what its caller holds                               *)

vars == <<verdict, length, dial, conn, futures>>

None    == "none"
Pending == <<"pending">>

Trust    == {"pin", "refused", "unenrolled"}
Failures == Trust \cup {"protocol", "lost"}

(* A close: its code, whether it names a frame type (only a transport's      *)
(* does), and whether its words name ALPN.  Below 256 the code is an         *)
(* application's, or a transport's of the same number; 256 and up, an alert. *)
Close(code, typed, alpn) == [code |-> code, typed |-> typed, alpn |-> alpn]

Unauthorized == 1
NoVersion    == 2
Aged         == 3

Own  == Close(0, FALSE, FALSE)
Idle == Close(1, TRUE, FALSE)       \* aioquic's: INTERNAL_ERROR, PADDING

CertificateAlerts == {40, 42, 43, 44, 45, 46, 48, 116}

Streams == 1 .. Len(futures)

ConnType ==
  [handshook : BOOLEAN, confirmed : BOOLEAN, ready : BOOLEAN, over : BOOLEAN,
   version : {0} \cup Versions,
   failure : {None} \cup Failures,
   closing : Seq([code : Nat, typed : BOOLEAN, alpn : BOOLEAN]),
   finished : SUBSET Streams, resets : SUBSET Streams]

Fields == {"handshook", "confirmed", "ready", "over", "version", "failure", "closing", "finished",
           "resets"}

TypeOK ==
  /\ verdict \in Verdicts
  /\ length \in Seq(ReplyLengths) /\ Len(length) = Len(futures) /\ Len(futures) <= MaxCalls
  /\ dial \in {"waiting", "up", "failed", "dropped"}
  /\ \A s \in Streams :
       \/ futures[s] \in {Pending, <<"timed out">>, <<"cancelled">>}
       \/ futures[s][1] = "failed" /\ futures[s][2] \in Failures
       \/ futures[s][1] = "reply"
  /\ [f \in Fields |-> conn[f]] \in ConnType
  /\ DOMAIN conn.calls \subseteq Streams /\ DOMAIN conn.arrived = Streams

Init ==
  /\ verdict \in Verdicts
  /\ length = <<>> /\ futures = <<>>
  /\ dial = "waiting"
  /\ conn = [handshook |-> FALSE, confirmed |-> FALSE, ready |-> FALSE, over |-> FALSE,
             version |-> 0, failure |-> None, closing |-> <<>>, finished |-> {}, resets |-> {},
             calls |-> <<>>, arrived |-> <<>>]
-----------------------------------------------------------------------------
(* The connection with its callers' futures, as a callback of aioquic's     *)
(* changes them: [conn, futures].                                           *)

State == [conn |-> conn, futures |-> futures]

With(calls, s)    == [t \in DOMAIN calls \cup {s} |-> IF t = s THEN <<>> ELSE calls[t]]
Without(calls, s) == [t \in DOMAIN calls \ {s} |-> calls[t]]

(* _fail_call: a future already done is left alone.                         *)
FailCall(st, s, error) ==
  [conn    |-> [st.conn EXCEPT !.calls = Without(@, s)],
   futures |-> [st.futures EXCEPT ![s] = IF s \in DOMAIN st.conn.calls /\ @ = Pending
                                         THEN <<"failed", error>> ELSE @]]

(* A code is classed by where it comes from: an alert by whether this side   *)
(* had sent its certificate, an application's code by its number.            *)
(* (The slip: a frame type of 0, a silence's, is taken for none.)            *)
Bug_TypedZero(handshook, close) ==
  IF close.code >= 256
  THEN IF close.code = 256 + 120 \/ close.alpn THEN "protocol"
       ELSE IF handshook /\ close.code - 256 \in CertificateAlerts THEN "refused"
       ELSE "lost"
  ELSE IF ~handshook THEN "lost"
  ELSE IF close.code = Unauthorized THEN "unenrolled"
  ELSE IF close.code = NoVersion THEN "protocol"
  ELSE "lost"

WhyEnded(handshook, close) ==
  IF close.code >= 256
  THEN IF close.code = 256 + 120 \/ close.alpn THEN "protocol"
       ELSE IF handshook /\ close.code - 256 \in CertificateAlerts THEN "refused"
       ELSE "lost"
  ELSE IF close.typed \/ ~handshook THEN "lost"
  ELSE IF close.code = Unauthorized THEN "unenrolled"
  ELSE IF close.code = NoVersion THEN "protocol"
  ELSE "lost"

(* The first reason stands, and every waiting call gets it.                  *)
Bug_LastReason(st, close) ==
  LET why == WhyEnded(st.conn.handshook, close)
  IN  [conn    |-> [st.conn EXCEPT !.failure = why, !.ready = TRUE, !.calls = <<>>],
       futures |-> [s \in DOMAIN st.futures |->
                      IF s \in DOMAIN st.conn.calls /\ st.futures[s] = Pending
                      THEN <<"failed", why>> ELSE st.futures[s]]]

(* The table shrinks while it is walked: only its first entry is failed.     *)
Bug_WalkTable(st, close) ==
  LET why   == IF st.conn.failure = None THEN WhyEnded(st.conn.handshook, close) ELSE st.conn.failure
      ended == [st EXCEPT !.conn.failure = why, !.conn.ready = TRUE]
      first == {s \in DOMAIN st.conn.calls : \A t \in DOMAIN st.conn.calls : s <= t}
  IN  IF first = {} THEN ended ELSE FailCall(ended, CHOOSE s \in first : TRUE, why)

Terminated(st, close) ==
  LET why == IF st.conn.failure = None THEN WhyEnded(st.conn.handshook, close) ELSE st.conn.failure
  IN  [conn    |-> [st.conn EXCEPT !.failure = why, !.ready = TRUE, !.calls = <<>>],
       futures |-> [s \in DOMAIN st.futures |->
                      IF s \in DOMAIN st.conn.calls /\ st.futures[s] = Pending
                      THEN <<"failed", why>> ELSE st.futures[s]]]

Shut(c) == IF c.closing = <<>> THEN [c EXCEPT !.closing = <<Own>>] ELSE c

(* _refuse *)
Refuse(st, why) ==
  [st EXCEPT !.conn = [Shut(@) EXCEPT !.failure = why, !.ready = TRUE]]

Bug_ReadyAtOnce(st, frame) ==
  LET heard == [st EXCEPT !.conn.handshook = TRUE] IN
  IF frame.cert # "pinned" THEN Refuse(heard, "pin")
  ELSE IF frame.alpn \notin Versions THEN Refuse(heard, "protocol")
  ELSE [heard EXCEPT !.conn.version = frame.alpn, !.conn.ready = TRUE]

(* _handshake_completed *)
HandshakeCompleted(st, frame) ==
  LET heard == [st EXCEPT !.conn.handshook = TRUE] IN
  IF frame.cert # "pinned" THEN Refuse(heard, "pin")
  ELSE IF frame.alpn \notin Versions THEN Refuse(heard, "protocol")
  ELSE [heard EXCEPT !.conn.version = frame.alpn, !.conn.ready = @ \/ st.conn.confirmed]

Chunks(s, from, to) == [i \in 1 .. (to - from) |-> <<s, from + i>>]

Bug_AnswerEarly(st, frame) ==
  LET s      == frame.stream
      heard  == [st EXCEPT !.conn.arrived[s] = frame.upTo,
                           !.conn.finished = @ \cup (IF frame.fin THEN {s} ELSE {})]
      buffer == st.conn.calls[s] \o Chunks(s, st.conn.arrived[s], frame.upTo)
  IN
  IF s \notin DOMAIN st.conn.calls THEN heard
  ELSE IF Len(buffer) > MaxFrame THEN FailCall(heard, s, "protocol")
  ELSE IF st.futures[s] = Pending
  THEN [conn    |-> [heard.conn EXCEPT !.calls = Without(@, s)],
        futures |-> [st.futures EXCEPT ![s] = <<"reply", buffer>>]]
  ELSE [heard EXCEPT !.conn.calls[s] = buffer]

(* Bytes of a reply: a reply is whole at the stream's end.  A call whose     *)
(* future is done (its task was cancelled) keeps its entry and its bytes.    *)
StreamDataReceived(st, frame) ==
  LET s      == frame.stream
      heard  == [st EXCEPT !.conn.arrived[s] = frame.upTo,
                           !.conn.finished = @ \cup (IF frame.fin THEN {s} ELSE {})]
      buffer == st.conn.calls[s] \o Chunks(s, st.conn.arrived[s], frame.upTo)
  IN
  IF s \notin DOMAIN st.conn.calls THEN heard
  ELSE IF Len(buffer) > MaxFrame THEN FailCall(heard, s, "protocol")
  ELSE IF frame.fin /\ st.futures[s] = Pending
  THEN [conn    |-> [heard.conn EXCEPT !.calls = Without(@, s)],
        futures |-> [st.futures EXCEPT ![s] = <<"reply", buffer>>]]
  ELSE [heard EXCEPT !.conn.calls[s] = buffer]

(* quic_event_received, and what aioquic keeps by itself.                    *)
Heard(st, frame) ==
  CASE frame.kind = "handshake" -> HandshakeCompleted(st, frame)
    [] frame.kind = "done"      -> [st EXCEPT !.conn.confirmed = TRUE]
    [] frame.kind = "data"      -> StreamDataReceived(st, frame)
    [] frame.kind = "reset"     ->
         [FailCall(st, frame.stream, "lost") EXCEPT !.conn.resets = @ \cup {frame.stream}]
    [] frame.kind = "close"     -> [st EXCEPT !.conn.closing = <<frame.close>>]

(* The rest of datagram_received: a close is acted on now, not when aioquic  *)
(* reports it, and a confirmed handshake releases the dial.                  *)
Judge(st) ==
  IF st.conn.closing # <<>> /\ st.conn.failure = None THEN Terminated(st, st.conn.closing[1])
  ELSE IF st.conn.handshook /\ st.conn.failure = None /\ st.conn.confirmed
  THEN [st EXCEPT !.conn.ready = TRUE]
  ELSE st

Becomes(st) == conn' = st.conn /\ futures' = st.futures
-----------------------------------------------------------------------------
(* What the door may send next. *)

Frame(kind) == [kind |-> kind]

Handshakes ==
  IF verdict = "unversioned" THEN {}
  ELSE {[kind |-> "handshake",
         cert |-> CASE verdict = "uncertified" -> "none" [] verdict = "stranger" -> "other"
                    [] OTHER -> "pinned",
         alpn |-> v] : v \in IF verdict = "alpnless" THEN {0} ELSE Versions}

(* A door closes the connection as what it is; one that serves, for its age *)
(* or because it goes (an application's code, or a transport's failure).    *)
Closes(handshook) ==
  CASE verdict = "unversioned" -> IF handshook THEN {} ELSE {Close(256 + 120, TRUE, FALSE), Close(256 + 40, TRUE, TRUE)}
    [] verdict = "untrusted" /\ handshook -> {Close(256 + 42, TRUE, FALSE), Close(256 + 40, TRUE, FALSE)}
    [] verdict = "unenrolled" /\ handshook -> {Close(Unauthorized, FALSE, FALSE)}
    [] verdict = "welcome" /\ handshook ->
         {Close(Aged, FALSE, FALSE), Close(0, FALSE, FALSE), Close(1, TRUE, FALSE), Close(2, TRUE, FALSE)}
    [] OTHER -> {Close(256 + 80, TRUE, FALSE)}

Confirms == verdict \in {"unenrolled", "welcome"}

(* More of the reply on a stream; its end comes with the last chunk, or     *)
(* alone after it.                                                          *)
Pieces(c, s) ==
  {[kind |-> "data", stream |-> s, upTo |-> n, fin |-> FALSE] :
     n \in (c.arrived[s] + 1) .. length[s]}
  \cup {[kind |-> "data", stream |-> s, upTo |-> length[s], fin |-> TRUE]}

Frames(c) ==
  IF c.closing # <<>> THEN {}
  ELSE (IF c.handshook THEN {} ELSE Handshakes)
       \cup (IF c.handshook /\ Confirms /\ ~c.confirmed THEN {Frame("done")} ELSE {})
       \cup (UNION {Pieces(c, s) : s \in Streams \ (c.finished \cup c.resets)})
       \cup {[kind |-> "reset", stream |-> s] : s \in Streams \ (c.finished \cup c.resets)}
       \cup {[kind |-> "close", close |-> close] : close \in Closes(c.handshook)}

(* What one datagram may bring. *)
Datagrams ==
  {<<frame>> : frame \in Frames(conn)}
  \cup UNION {{<<frame, next>> : next \in Frames(Heard(State, frame).conn)} : frame \in Frames(conn)}

(* The events of a datagram, one after the other. *)
HeardAll(st, frames) ==
  IF Len(frames) = 1 THEN Heard(st, frames[1]) ELSE Heard(Heard(st, frames[1]), frames[2])

(* The end of the connection is looked for before the events are.            *)
Bug_EndFirst(frames) ==
  LET closes == SelectSeq(frames, LAMBDA frame : frame.kind = "close")
  IN  IF closes = <<>> THEN Judge(HeardAll(State, frames))
      ELSE HeardAll(Judge([State EXCEPT !.conn.closing = <<closes[1].close>>]), frames)

(* datagram_received *)
Received(frames) == Judge(HeardAll(State, frames))

Datagram ==
  /\ ~conn.over
  /\ \E frames \in Datagrams : Becomes(Received(frames))
  /\ UNCHANGED <<verdict, length, dial>>

(* A datagram that comes when the connection is closed is not heard; the     *)
(* end is noticed.                                                           *)
StrayDatagram ==
  /\ ~conn.over /\ conn.closing # <<>>
  /\ Becomes(Judge(State))
  /\ UNCHANGED <<verdict, length, dial>>

(* aioquic's timer: the end of a draining period, or of a silence.           *)
Drained ==
  /\ ~conn.over /\ conn.closing # <<>>
  /\ Becomes([Terminated(State, conn.closing[1]) EXCEPT !.conn.over = TRUE])
  /\ UNCHANGED <<verdict, length, dial>>

HearsNothing ==
  /\ ~conn.over /\ conn.closing = <<>>
  /\ Becomes([Terminated(State, Idle) EXCEPT !.conn.over = TRUE, !.conn.closing = <<Idle>>])
  /\ UNCHANGED <<verdict, length, dial>>
-----------------------------------------------------------------------------
(* The client over it (_dial_one and class _Wire). *)

(* wait_ready returns or raises; a dial that raised closes the connection.  *)
Dialed ==
  /\ dial = "waiting" /\ conn.ready
  /\ IF conn.failure = None
     THEN dial' = "up" /\ UNCHANGED conn
     ELSE dial' = "failed" /\ conn' = Shut(conn)
  /\ UNCHANGED <<verdict, length, futures>>

DialTimesOut ==
  /\ dial = "waiting" /\ ~conn.ready
  /\ dial' = "failed" /\ conn' = Shut(conn)
  /\ UNCHANGED <<verdict, length, futures>>

Idles == \A s \in Streams : futures[s] # Pending

(* send_call; the wire lets one caller in at a time, and none onto a         *)
(* connection that has ended.                                                *)
SendCall ==
  /\ dial = "up" /\ conn.failure = None /\ Idles
  /\ Len(futures) < MaxCalls
  /\ futures' = Append(futures, Pending)
  /\ \E n \in ReplyLengths : length' = Append(length, n)
  /\ conn' = [conn EXCEPT !.calls = With(@, Len(futures) + 1),
                          !.arrived = Append(@, 0)]
  /\ UNCHANGED <<verdict, dial>>

Bug_KeepEntry(s) ==
  /\ futures[s] = Pending
  /\ futures' = [futures EXCEPT ![s] = <<"timed out">>]
  /\ UNCHANGED <<verdict, length, dial, conn>>

(* The wait's deadline, and cancel_call: the door is told.                   *)
WaitTimesOut(s) ==
  /\ futures[s] = Pending
  /\ futures' = [futures EXCEPT ![s] = <<"timed out">>]
  /\ conn' = [conn EXCEPT !.calls = Without(@, s)]
  /\ UNCHANGED <<verdict, length, dial>>

(* The caller's task is cancelled: nothing cancels the call. *)
CallerCancelled(s) ==
  /\ futures[s] = Pending
  /\ futures' = [futures EXCEPT ![s] = <<"cancelled">>]
  /\ UNCHANGED <<verdict, length, dial, conn>>

(* A redial's drop, or close(), which waits for no call.                     *)
Drop ==
  /\ dial = "up"
  /\ dial' = "dropped" /\ conn' = Shut(conn)
  /\ UNCHANGED <<verdict, length, futures>>

Next ==
  \/ Datagram \/ StrayDatagram \/ Drained \/ HearsNothing
  \/ Dialed \/ DialTimesOut \/ SendCall \/ Drop
  \/ \E s \in Streams : WaitTimesOut(s) \/ CallerCancelled(s)

Spec == Init /\ [][Next]_vars

(* The draining period is a timer of the event loop's. *)
FairSpec == Spec /\ WF_vars(Drained)
-----------------------------------------------------------------------------
(* No call is put on a connection to a door that is not the pinned one, that *)
(* speaks no version of the client's, or that has not accepted the client's  *)
(* certificate: it hears nothing.  (_handshake_completed and the wait for    *)
(* the door's confirmation.)                                                 *)
StrangersHearNothing ==
  Streams # {} => verdict \in {"unenrolled", "welcome"} /\ conn.version \in Versions

(* A caller gets its own reply, from the first chunk to the last, or none.   *)
(* (quic_event_received: one buffer to a stream, done at the stream's end.)  *)
RepliesWhole ==
  \A s \in Streams :
    futures[s][1] = "reply" =>
      /\ futures[s][2] = Chunks(s, 0, length[s])
      /\ length[s] <= MaxFrame

(* A reply that came whole reaches its caller, be it with the datagram that  *)
(* closes the connection, unless the caller has given up.                    *)
(* (datagram_received: the events first, the close after.)                   *)
ReplyBeatsClose ==
  \A s \in Streams :
    s \in conn.finished /\ length[s] <= MaxFrame => futures[s][1] # "failed"

(* What is left in the table of calls is awaited, or was when its caller was *)
(* cancelled; it holds no more than one frame each, and nothing once the     *)
(* connection has ended.  (_calls, cancel_call and _terminated.)             *)
LeftoversBounded ==
  /\ \A s \in DOMAIN conn.calls :
       futures[s] \in {Pending, <<"cancelled">>} /\ Len(conn.calls[s]) <= MaxFrame
  /\ \A s \in Streams : futures[s] = Pending => s \in DOMAIN conn.calls
  /\ conn.failure # None => conn.calls = <<>>

(* Why the connection cannot carry calls never changes once it is known: a   *)
(* trust refusal is not made a lost connection, which would be redialed, by  *)
(* the close that follows it.  (_terminated after _refuse.)                  *)
FirstReasonStands == [][conn.failure # None => conn'.failure = conn.failure]_vars

(* A refusal is named only where the door refused, and as what it was; and a *)
(* refusal that arrived is never taken for a connection lost.  (_why_ended:  *)
(* a silence has the very code of a door that has not enrolled the client.)  *)
RefusalsNamed ==
  /\ conn.failure = "unenrolled" => verdict = "unenrolled"
  /\ conn.failure = "refused"    => verdict = "untrusted"
  /\ conn.failure = "pin"        => verdict \in {"uncertified", "stranger"}
  /\ conn.failure = "protocol"   => verdict \in {"unversioned", "alpnless"}
  /\ conn.failure = "lost" /\ conn.handshook =>
       \/ conn.closing[1] \in {Own, Idle}
       \/ verdict = "welcome"

(* Once either side has closed the connection, no caller is left waiting.    *)
(* (_terminated, called from the datagram or from aioquic's timer.)          *)
EndIsTold == conn.closing # <<>> ~> Idles
=============================================================================
