------------------------------ MODULE Exchange ------------------------------
(***************************************************************************)
(* Calls over one Unix-socket connection, byte for byte: the blocking      *)
(* client (class Client of ikigai/client.py) and the server's thread for   *)
(* it (Server._handle of ikigai/serve.py), each speaking the wire of its   *)
(* own version, with the hello, frames, the arguments' checks and the      *)
(* failures in between.                                                    *)
(*                                                                         *)
(* The client's socket has a timeout.  One that strikes while a reply is   *)
(* awaited makes the socket's file refuse every later read; one that       *)
(* strikes while a frame is written leaves what was written of it, and the *)
(* file's buffer may keep the rest and write it before the next frame.     *)
(*                                                                         *)
(* Which door a name leads to, and what its floor admits, is Space's; here *)
(* there is one door of one verb, and the caller is admitted.              *)
(***************************************************************************)
EXTENDS Messages, Check, Template

CONSTANTS
  Peers,          (* the versions the two sides may be of                    *)
  Doors,          (* the doors: [parts, verb, action]                        *)
  FirstIntents,   (* by door: what a caller may ask for first                *)
  LaterIntents,   (* by door: and afterwards                                 *)
  Failures,       (* what a handler may raise                                *)
  Results,        (* what it may return: a representation and a cache status *)
  MaxCalls        (* calls on the connection: a bound                        *)

(* The codec.  A reader of version v yields a set: empty, it has refused.    *)
CONSTANTS
  CallBytes(_),        (* encode_call: a call                                *)
  CallsIn(_, _),       (* decode_call: a version, bytes                      *)
  ReplyBytes(_, _),    (* encode_reply: a reply, its peer's version          *)
  RepliesIn(_, _)      (* decode_reply: a version, bytes                     *)

(* An intent: [kind, bindings, pairs, capability, retries, timeLeft, large]. *)
(* The bindings make the name, the pairs the arguments.                      *)
Kinds == {"issue", "traced", "is_cached", "entries"}

IntentsOf(dr) == FirstIntents[dr] \cup LaterIntents[dr]

Versions == OldestVersion .. ProtocolVersion

ASSUME PeersAssumption == Peers \subseteq [client : Versions, server : Versions]

ASSUME DoorsAssumption ==
  \A dr \in Doors :
    /\ dr.parts \in Seq([isVar : BOOLEAN, text : Text])
    /\ Parse(Source(dr.parts)) = {dr.parts}
    /\ Declarable(dr.action, Variables(dr.parts))
    /\ \A intent \in IntentsOf(dr) :
         /\ intent.pairs \in Seq(Text \X Text)
         /\ intent.kind \in Kinds /\ Expand(dr.parts, intent.bindings) # {}
         /\ \A n \in Variables(dr.parts) : intent.bindings[n] \in Text

ASSUME CallsAssumption == MaxCalls \in Nat

(* Unnamed stands for a text that no failure has. *)
ASSUME FailuresAssumption == Failures \subseteq WireErrors \ {<<"Endpoint", Unnamed>>}

-----------------------------------------------------------------------------
(* The call an intent is carried by.                                        *)

Target(dr, intent) == CHOOSE name \in Expand(dr.parts, intent.bindings) : TRUE

(* build_request and coerce_arg: text goes inline.  Pairs of one name are    *)
(* joined first, as whoever turns pairs into a call's arguments joins them.  *)
Arguments(dr, intent) ==
  LET joined == JoinRepeats(dr.action, intent.pairs)
  IN  [n \in DOMAIN joined |-> <<"Inline", joined[n]>>]

RequestOf(dr, intent) == <<dr.verb, Target(dr, intent), Arguments(dr, intent)>>

Context == <<1, <<>>>>
Traced  == <<Context>>

CallOf(dr, intent, version) ==
  CASE intent.kind = "entries"   -> <<"Entries">>
    [] intent.kind = "is_cached" -> <<"IsCached", RequestOf(dr, intent)>>
    [] intent.kind = "issue"     ->
         BuildIssueCall(RequestOf(dr, intent), intent.capability, <<version>>,
                        intent.retries, intent.timeLeft, <<>>)
    [] intent.kind = "traced"    ->
         BuildIssueCall(RequestOf(dr, intent), intent.capability, <<version>>,
                        intent.retries, intent.timeLeft, Traced)
-----------------------------------------------------------------------------
(* What a server makes of a call.                                           *)

Request(call)    == call[2]
Capability(call) == IF call[1] \in {"IssueAs", "IssueTraced", "IssueWith"} THEN call[3] ELSE Root

WantsTrace(call) ==
  \/ call[1] = "IssueTraced"
  \/ call[1] = "IssueWith" /\ call[4][1] # <<>>

(* A refusal names what it is about: an input, or a group by its members.   *)
RefusedAs(refusal) ==
  LET names == Sorted(refusal.about) IN
  IF refusal.error = "MissingArgument" THEN <<"MissingArgument", names[1]>>
  ELSE <<"InvalidArgument", Join(names, <<Comma>>), <<>> >>

Failed(error) == <<"ErrorTyped", error>>

(* How a call fares up to the handler: answered at once, or not at all.     *)
Immediate(dr, call) ==
  CASE call[1] = "Entries"  -> <<<<"Entries", << << <<Source(dr.parts), <<100>>, <<>> >> >> >> >>>>
    [] call[1] = "IsCached" -> <<<<"Cached", FALSE>>>>
    [] OTHER ->
         LET request  == Request(call)
             bindings == Match(dr.parts, request[2])
         IN
         IF bindings = {} THEN <<Failed(<<"Unresolved", request[2]>>)>>
         ELSE LET refusals == Refusals(dr.action, CHOOSE b \in bindings : TRUE, request[3])
              IN  [i \in 1 .. (IF refusals = <<>> THEN 0 ELSE 1) |-> Failed(RefusedAs(refusals[i]))]

(* The one span a traced call leaves. *)
Span(call) ==
  <<Request(call)[2], <<116>>, <<3>>, <<4>>, FALSE, 0, <<>>,
    IF Capability(call) = Root THEN <<>> ELSE <<Sorted(Capability(call)[2])>>, <<>> >>

Returned(call, result) ==
  IF WantsTrace(call) THEN <<"ResolvedTraced", result[1], result[2], <<Span(call)>> >>
  ELSE <<"Resolved", result[1], result[2]>>

(* All a call may be answered with. *)
Answers(dr, call) ==
  IF Immediate(dr, call) # <<>> THEN {Immediate(dr, call)[1]}
  ELSE {Returned(call, result) : result \in Results} \cup {Failed(error) : error \in Failures}
-----------------------------------------------------------------------------
(* What is asked of the codec.                                              *)

(* The calls an intent may be carried by to a peer of version v. *)
Forms(dr, intent, v) ==
  LET request == RequestOf(dr, intent)
      caps    == {Root, Or(intent.capability, Root)}
  IN
  IF intent.kind = "entries" THEN {<<"Entries">>}
  ELSE IF intent.kind = "is_cached" THEN {<<"IsCached", request>>}
  ELSE {<<"Issue", request>>}
       \cup {<<"IssueAs", request, c>> : c \in caps}
       \cup {<<"IssueTraced", request, c, Context>> : c \in caps}
       \cup {<<"IssueWith", request, c, <<trace, intent.retries, intent.timeLeft>>>> :
                c \in IF v < IssueWithSince THEN {} ELSE caps, trace \in {<<>>, Traced}}

Exchangeable(bytes) == bytes \in Seq(0 .. 255) /\ Len(bytes) <= MaxFrame

(* What one side writes for a peer of version v, a peer of that version or  *)
(* of a later one reads as it was meant; and it fits a frame.               *)
ASSUME CodecAssumption ==
  \A dr \in Doors : \A v, w \in Versions : v <= w =>
    /\ \A intent \in IntentsOf(dr) : \A call \in Forms(dr, intent, v) :
         Exchangeable(CallBytes(call)) /\ CallsIn(w, CallBytes(call)) = {call}
    /\ \A reply \in UNION {UNION {Answers(dr, call) : call \in Forms(dr, intent, v)} :
                              intent \in IntentsOf(dr)} :
         /\ Exchangeable(ReplyBytes(reply, v))
         /\ RepliesIn(w, ReplyBytes(reply, v)) = {DowngradeReply(reply, v)}
-----------------------------------------------------------------------------
VARIABLES
  peers,      (* the versions the two sides are of                           *)
  mode,       (* how the client addresses the server: 1, by an alias mount   *)
  door,       (* the door behind the connection                              *)
  client,     (* "dialing", "greeting", "idle", "waiting", "closed"          *)
  timedOut,   (* its file refuses to read                                    *)
  cut,        (* a frame was written in part                                 *)
  unsent,     (* what the file's buffer kept of it                           *)
  made,       (* the calls made, as intents                                  *)
  ended,      (* what each returned or raised                                *)
  server,     (* "greeting", "reading", "handling", "gone"                   *)
  heard,      (* the hello the server took                                   *)
  received,   (* the calls the server decoded                                *)
  entered,    (* the numbers of those that entered the handler               *)
  answered,   (* the server's replies to them                                *)
  toServer, toClient   (* the bytes under way                                *)

clientVars == <<client, timedOut, cut, unsent, made, ended>>
serverVars == <<server, heard, received, entered, answered>>
streams    == <<toServer, toClient>>
setting    == <<peers, mode, door>>
vars       == <<setting, clientVars, serverVars, streams>>

Agreed == IF peers.client < peers.server THEN peers.client ELSE peers.server

TypeOK ==
  /\ peers \in Peers /\ mode \in {0, 1} /\ door \in Doors
  /\ client \in {"dialing", "greeting", "idle", "waiting", "closed"}
  /\ timedOut \in BOOLEAN /\ cut \in BOOLEAN
  /\ server \in {"greeting", "reading", "handling", "gone"}
  /\ Len(made) <= MaxCalls
  /\ Len(ended) = Len(made) - (IF client = "waiting" THEN 1 ELSE 0)
  /\ Len(answered) = Len(received) - (IF server = "handling" THEN 1 ELSE 0)
                     - (IF server = "gone" /\ Len(answered) < Len(received) THEN 1 ELSE 0)
  /\ entered \subseteq DOMAIN received
  /\ \A stream \in {toServer, toClient, unsent} : \A i \in DOMAIN stream : stream[i] \in 0 .. 255

Init ==
  /\ peers \in Peers /\ mode \in {0, 1} /\ door \in Doors
  /\ client = "dialing" /\ timedOut = FALSE /\ cut = FALSE /\ unsent = <<>>
  /\ made = <<>> /\ ended = <<>>
  /\ server = "greeting" /\ heard = <<>>
  /\ received = <<>> /\ entered = {} /\ answered = <<>>
  /\ toServer = <<>> /\ toClient = <<>>
-----------------------------------------------------------------------------
(* The hello, at the version both speak (UnixServer has the dials that      *)
(* lead to it).                                                             *)

Greet ==
  /\ client = "dialing"
  /\ toServer' = Frame(EncodeHello(Hello(Agreed, mode)))
  /\ client' = "greeting"
  /\ UNCHANGED <<setting, timedOut, cut, unsent, made, ended, serverVars, toClient>>

Accepts(version) == version \in OldestVersion .. peers.server

HearHello ==
  \E frame \in ReadFrame(toServer) :
    LET hello == DecodeHello(frame[1])
        taken == {h \in hello : Accepts(h.version)}
    IN
    /\ server = "greeting"
    /\ toServer' = frame[2]
    /\ heard' = [i \in 1 .. Cardinality(taken) |-> CHOOSE h \in taken : TRUE]
    /\ toClient' = IF hello = {} THEN toClient
                   ELSE Frame(EncodeHello(Hello(IF taken = {} THEN peers.server ELSE heard'[1].version, 0)))
    /\ server' = IF taken = {} THEN "gone" ELSE "reading"
    /\ UNCHANGED <<setting, clientVars, received, entered, answered>>

HearAnswer ==
  \E frame \in ReadFrame(toClient) : \E hello \in DecodeHello(frame[1]) :
    /\ client = "greeting" /\ hello.version = Agreed
    /\ client' = "idle"
    /\ toClient' = frame[2]
    /\ UNCHANGED <<setting, timedOut, cut, unsent, made, ended, serverVars, toServer>>

(* connect raises; there is no client. *)
NotHeard ==
  /\ client = "greeting"
  /\ ReadFrame(toClient) = {}
  /\ client' = "closed"
  /\ UNCHANGED <<setting, timedOut, cut, unsent, made, ended, serverVars, streams>>
-----------------------------------------------------------------------------
(* The client's calls. *)

FrameOf(intent) == Frame(CallBytes(CallOf(door, intent, Agreed)))

Intents == IF made = <<>> THEN FirstIntents[door] ELSE LaterIntents[door]

MakeCall(intent) ==
  /\ client = "idle" /\ Len(made) < MaxCalls
  /\ made' = Append(made, intent)
  /\ toServer' = toServer \o (unsent \o FrameOf(intent)) /\ unsent' = <<>>
  /\ client' = "waiting"
  /\ UNCHANGED <<setting, timedOut, cut, ended, serverVars, toClient>>

Ends(outcome) == client' = "idle" /\ ended' = Append(ended, outcome)

(* The timeout strikes when the socket has taken n bytes: of a large frame, *)
(* or of any that comes behind what the server has not taken.  flush leaves *)
(* the rest in the buffer; write keeps there what was in it before, unless  *)
(* that was taken, and drops the frame.                                     *)
WriteTimesOut(intent, n) ==
  LET bytes == unsent \o FrameOf(intent) IN
  /\ client = "idle" /\ Len(made) < MaxCalls
  /\ intent.large \/ timedOut \/ cut
  /\ made' = Append(made, intent)
  /\ toServer' = toServer \o SubSeq(bytes, 1, n)
  /\ cut' = TRUE
  /\ \/ unsent' = From(n + 1, bytes)
     \/ /\ n < Len(unsent) \/ intent.large
        /\ unsent' = From(n + 1, unsent)
  /\ Ends(<<"lost">>)
  /\ UNCHANGED <<setting, timedOut, serverVars, toClient>>

(* What a reply makes of a call: _issue, source_traced, entries, is_cached. *)
Outcome(intent, reply) ==
  CASE intent.kind = "is_cached" -> <<"cached", reply = <<"Cached", TRUE>> >>
    [] intent.kind = "entries" /\ reply[1] = "Entries" -> <<"entries", reply[2]>>
    [] intent.kind = "issue" /\ reply[1] = "Resolved" -> <<"resolved", reply[2], reply[3]>>
    [] intent.kind = "traced" /\ reply[1] = "ResolvedTraced" ->
         <<"resolved", reply[2], reply[3]>>
    [] ReplyError(reply) # {} -> <<"raised", CHOOSE e \in ReplyError(reply) : TRUE>>
    [] OTHER -> <<"protocol">>

Bug_ReadAnyway ==
  \E frame \in ReadFrame(toClient) :
    LET reply == RepliesIn(peers.client, frame[1]) IN
    /\ client = "waiting"
    /\ toClient' = frame[2]
    /\ Ends(IF reply = {} THEN <<"protocol">>
            ELSE Outcome(Last(made), CHOOSE r \in reply : TRUE))
    /\ UNCHANGED <<setting, timedOut, cut, unsent, made, serverVars, toServer>>

ReadReply ==
  \E frame \in ReadFrame(toClient) :
    LET reply == RepliesIn(peers.client, frame[1]) IN
    /\ client = "waiting" /\ ~timedOut
    /\ toClient' = frame[2]
    /\ Ends(IF reply = {} THEN <<"protocol">>
            ELSE Outcome(Last(made), CHOOSE r \in reply : TRUE))
    /\ UNCHANGED <<setting, timedOut, cut, unsent, made, serverVars, toServer>>

ReadTimesOut ==
  /\ client = "waiting" /\ ~timedOut /\ ReadFrame(toClient) = {}
  /\ timedOut' = TRUE
  /\ Ends(<<"lost">>)
  /\ UNCHANGED <<setting, cut, unsent, made, serverVars, streams>>

(* The file refuses the read, with an error that is not ConnectionLost. *)
ReadRefused ==
  /\ client = "waiting" /\ timedOut
  /\ Ends(<<"refused">>)
  /\ UNCHANGED <<setting, timedOut, cut, unsent, made, serverVars, streams>>

ServerLost ==
  /\ client = "waiting" /\ ~timedOut /\ server = "gone" /\ ReadFrame(toClient) = {}
  /\ Ends(<<"lost">>)
  /\ UNCHANGED <<setting, timedOut, cut, unsent, made, serverVars, streams>>

(* Closing the file flushes it, as far as the socket takes it. *)
Close ==
  /\ client = "idle"
  /\ client' = "closed"
  /\ toServer' \in {toServer} \cup {toServer \o SubSeq(unsent, 1, n) : n \in 1 .. Len(unsent)}
  /\ unsent' = <<>>
  /\ UNCHANGED <<setting, timedOut, cut, made, ended, serverVars, toClient>>
-----------------------------------------------------------------------------
(* The server's thread. *)

Reply(reply) ==
  /\ answered' = Append(answered, reply)
  /\ toClient' = toClient \o Frame(ReplyBytes(reply, heard[1].version))

(* An undecodable call is answered once, and the connection dropped. *)
RefuseFrame ==
  \E frame \in ReadFrame(toServer) :
    /\ server = "reading" /\ ~Oversized(toServer)
    /\ CallsIn(peers.server, frame[1]) = {}
    /\ toServer' = frame[2]
    /\ toClient' = toClient \o Frame(ReplyBytes(Failed(<<"Endpoint", Unnamed>>), heard[1].version))
    /\ server' = "gone"
    /\ UNCHANGED <<setting, clientVars, heard, received, entered, answered>>

ReadCall ==
  \E frame \in ReadFrame(toServer) : \E call \in CallsIn(peers.server, frame[1]) :
    /\ server = "reading" /\ ~Oversized(toServer)
    /\ toServer' = frame[2]
    /\ received' = Append(received, call)
    /\ IF Immediate(door, call) # <<>>
       THEN /\ Reply(Immediate(door, call)[1])
            /\ UNCHANGED <<server, entered>>
       ELSE /\ server' = "handling"
            /\ entered' = entered \cup {Len(received')}
            /\ UNCHANGED <<answered, toClient>>
    /\ UNCHANGED <<setting, clientVars, heard>>

HandlerReturns(result) ==
  /\ server = "handling"
  /\ Reply(Returned(Last(received), result))
  /\ server' = "reading"
  /\ UNCHANGED <<setting, clientVars, heard, received, entered, toServer>>

(* A failure crosses untraced; one of a later version is not the server's. *)
HandlerRaises(error) ==
  /\ server = "handling"
  /\ error[1] = "Conflict" => peers.server >= ConflictSince
  /\ error[1] \in LaterFailures => peers.server >= IssueWithSince
  /\ Reply(Failed(error))
  /\ server' = "reading"
  /\ UNCHANGED <<setting, clientVars, heard, received, entered, toServer>>

(* The peer hung up, a frame is too long, or the process is gone. *)
Gone ==
  /\ server # "gone"
  /\ server' = "gone"
  /\ UNCHANGED <<setting, clientVars, heard, received, entered, answered, streams>>

ClientNext ==
  \/ Greet \/ HearAnswer \/ NotHeard
  \/ \E intent \in Intents : MakeCall(intent)
  \/ \E intent \in Intents : \E n \in 0 .. (Len(unsent) + Len(FrameOf(intent)) - 1) : WriteTimesOut(intent, n)
  \/ ReadReply \/ ReadTimesOut \/ ReadRefused \/ ServerLost \/ Close

ServerNext ==
  \/ HearHello \/ RefuseFrame \/ ReadCall \/ Gone
  \/ \E result \in Results : HandlerReturns(result)
  \/ \E error \in Failures : HandlerRaises(error)

Next == ClientNext \/ ServerNext

Spec == Init /\ [][Next]_vars
-----------------------------------------------------------------------------
(* What a call and a failure are to keep, whatever versions the two sides   *)
(* speak.                                                                   *)

Asked(intent) == [request |-> RequestOf(door, intent), capability |-> Or(intent.capability, Root),
                  traced |-> intent.kind = "traced"]

Taken(call) == [request |-> Request(call), capability |-> Capability(call),
                traced |-> WantsTrace(call)]

Run(call) == IF call[1] = "IssueWith" THEN <<call[4][2], call[4][3]>> ELSE <<<<>>, <<>>>>

(* The server hears the version and mode of the client's hello, and takes   *)
(* the calls the client made, in order, none altered and none invented:     *)
(* request, capability and trace always, and the retry pool and the time    *)
(* left when both sides know them.  (Server._handle with decode_hello and   *)
(* decode_call, Client._round_trip with build_issue_call.)                  *)
CallsArriveAsMade ==
  ~cut =>
  /\ heard # <<>> => heard = <<Hello(Agreed, mode)>>
  /\ Len(received) <= Len(made)
  /\ \A i \in DOMAIN received :
       LET intent == made[i]
           call   == received[i]
       IN
       IF intent.kind \in {"issue", "traced"}
       THEN /\ Taken(call) = Asked(intent)
            /\ Run(call) = IF Agreed >= IssueWithSince
                           THEN <<intent.retries, intent.timeLeft>> ELSE <<<<>>, <<>>>>
       ELSE intent.kind = (IF call[1] = "Entries" THEN "entries" ELSE "is_cached")

(* What a peer of version v is told of a failure: the failure itself if     *)
(* there was a name for it by then, else all its text under a failure that  *)
(* nobody retries.                                                          *)
Conveys(heardError, error, v) ==
  IF \/ error[1] = "Conflict" /\ v < ConflictSince
     \/ error[1] \in LaterFailures /\ v < IssueWithSince
  THEN /\ heardError[1] = "Endpoint"
       /\ IsSuffix(Message(error), heardError[2])
       /\ error[1] \in Transient \/ FailureClass(heardError) # "transient"
  ELSE heardError = error

(* A call returns or raises what the server replied to that call, or        *)
(* nothing of any reply: a reply that came too late is never taken for the  *)
(* next call's.  (Client._issue after a timeout: the socket's file refuses  *)
(* to read; encode_reply and decode_reply across versions.)                 *)
OwnReplyOrNone ==
  ~cut =>
  \A i \in DOMAIN ended :
    CASE ended[i][1] = "resolved" ->
           /\ i \in DOMAIN answered
           /\ answered[i][1] \in {"Resolved", "ResolvedTraced"}
           /\ SubSeq(answered[i], 2, 3) = Tail(ended[i])
      [] ended[i][1] = "raised" ->
           /\ i \in DOMAIN answered /\ answered[i][1] = "ErrorTyped"
           /\ Conveys(ended[i][2], answered[i][2], Agreed)
      [] ended[i][1] = "entries" -> i \in DOMAIN answered /\ answered[i] = <<"Entries", ended[i][2]>>
      [] OTHER -> TRUE

(* Neither side ever meets a message its own version cannot read, nor a     *)
(* reply that does not fit its call.  (downgrade_error, build_issue_call,   *)
(* and that dispatch answers a traced call traced.)                         *)
NothingUnreadable ==
  ~cut =>
  /\ \A i \in DOMAIN ended : ended[i] # <<"protocol">>
  /\ server = "reading" =>
       \A frame \in ReadFrame(toServer) : CallsIn(peers.server, frame[1]) # {}
  /\ \A frame \in ReadFrame(toClient) :
       client = "waiting" =>
         \A reply \in RepliesIn(peers.client, frame[1]) :
           reply # Failed(<<"Endpoint", Unnamed>>)

(* No part of a message is a message: a stream that ends early is noticed   *)
(* even where, as over QUIC, the end of the stream alone ends the message.  *)
(* (Reader.finish and the length before everything.)                        *)
PartIsNoMessage ==
  /\ made # <<>> =>
       LET payload == CallBytes(CallOf(door, Last(made), Agreed)) IN
       \A n \in 0 .. (Len(payload) - 1) : CallsIn(peers.server, SubSeq(payload, 1, n)) = {}
  /\ answered # <<>> =>
       LET payload == ReplyBytes(Last(answered), Agreed) IN
       \A n \in 0 .. (Len(payload) - 1) : RepliesIn(peers.client, SubSeq(payload, 1, n)) = {}

(* A call built for a newer door and sent to an older one, as the QUIC      *)
(* client's redial sends it, asks what one built for the older asks.        *)
(* (downgrade_call.)                                                        *)
DowngradedAsBuilt ==
  \A i \in DOMAIN made :
    made[i].kind \in {"issue", "traced"} =>
    \A built \in OldestVersion .. ProtocolVersion :
      LET sent == DowngradeCall(CallOf(door, made[i], built), <<Agreed>>) IN
      built >= Agreed =>
        /\ Taken(sent) = Asked(made[i])
        /\ Run(sent) = Run(CallOf(door, made[i], Agreed))
        /\ CallsIn(peers.server, CallBytes(sent)) = {sent}
-----------------------------------------------------------------------------
(* The contract decides: no handler runs on arguments it rules out, and no  *)
(* call that conforms to it is kept from its handler -- but by an integer   *)
(* in the name that is not in its plain form, or by an input of an envelope *)
(* that the check passes over and dispatch does not: one it requires, or    *)
(* one whose text its type refuses.  (Space._invoke, _preflight and check:  *)
(* the violations are "empty exactly when the arguments conform".)          *)
ContractDecides ==
  /\ \A i \in entered :
       LET request == Request(received[i]) IN
       \A bindings \in Match(door.parts, request[2]) :
         Lawful(door.action, bindings, request[3])
  /\ ~cut =>
     \A i \in DOMAIN answered \ entered : made[i].kind \in {"issue", "traced"} =>
       \A bindings \in Match(door.parts, Request(received[i])[2]) :
         LET proposed == FromName(door.action, bindings) \o made[i].pairs IN
         Violations(door.action, proposed) = <<>> =>
           \E arg \in ToSet(door.action.inputs) :
             \/ arg.binding /\ arg.class = "integer" /\ ~PlainInteger(bindings[arg.name])
             \/ /\ ~InPlay(door.action, JoinRepeats(door.action, proposed), arg)
                /\ arg.required \/ door.action.derived

NamedOnce(parts) ==
  \A j, k \in DOMAIN parts :
    parts[j].isVar /\ parts[k].isVar /\ parts[j].text = parts[k].text => j = k

(* A family's handler is bound to the very name that was asked for: filled  *)
(* in again, the template gives the name back, and each value is the one    *)
(* the caller filled in unless it, or one before it in the name, held the   *)
(* text that ends it -- where the template names no variable twice, for     *)
(* then its last capture wins.                                              *)
(* (UriTemplate.match and expand.)                                          *)
HandlersSeeTheName ==
  NamedOnce(door.parts) =>
  \A i \in entered :
    LET name == Request(received[i])[2] IN
    \A bindings \in Match(door.parts, name) :
      /\ Expand(door.parts, bindings) = {name}
      /\ ~cut =>
         \A k \in DOMAIN door.parts :
           LET value == made[i].bindings[door.parts[k].text] IN
           door.parts[k].isVar =>
             \/ bindings[door.parts[k].text] = value
             \/ \E j \in DOMAIN door.parts :
                  /\ j <= k /\ j < Len(door.parts) /\ door.parts[j].isVar
                  /\ Occurrences(door.parts[j + 1].text,
                       made[i].bindings[door.parts[j].text] \o door.parts[j + 1].text, 1)
                     # {Len(made[i].bindings[door.parts[j].text]) + 1}
=============================================================================
