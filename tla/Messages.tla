------------------------------ MODULE Messages ------------------------------
(***************************************************************************)
(* What the two sides of a wire say to each other, but for how it is       *)
(* spelled in bytes (ikigai/wire.py): which versions know what, failures   *)
(* and how one is put for an older peer, the call that carries a request,  *)
(* frames and hellos.                                                      *)
(***************************************************************************)
EXTENDS Naturals, Sequences, FiniteSets, SequencesExt

CONSTANT MaxFrame   (* the longest payload a frame may have                  *)

(* What four bytes, the first below 128, can count to. *)
MaxLength == 2147483647

ASSUME FrameAssumption == MaxFrame \in Nat /\ MaxFrame <= MaxLength

OldestVersion   == 7
ProtocolVersion == 9
ConflictSince   == 8
IssueWithSince  == 9

(* What stands for the text of a failure this side has no name for. *)
Unnamed == <<63>>

(* The order of UTF-8 bytes, in which names are written. *)
Precedes(s, t) ==
  \E i \in 1 .. Len(t) :
    /\ i <= Len(s) + 1 /\ \A j \in 1 .. (i - 1) : s[j] = t[j]
    /\ i = Len(s) + 1 \/ s[i] < t[i]

Sorted(names) == SetToSortSeq(names, Precedes)
-----------------------------------------------------------------------------
(* Failures: the classes of EndpointError.  The words a message or its      *)
(* rendering starts with are one capital letter, a kind's own.              *)

Words == [Unresolved |-> 65, MissingArgument |-> 66, InvalidArgument |-> 67, Endpoint |-> 68,
          Denied |-> 69, NotFound |-> 70, Timeout |-> 71, Unavailable |-> 72, Conflict |-> 73,
          DepthExceeded |-> 74, RetryAfter |-> 75, OverBudget |-> 76, Refused |-> 77,
          Unsupported |-> 78]

Word(kind) == <<Words[kind]>>

(* A number in a message, by its last digit. *)
Digit(n) == <<48 + (n % 10)>>

Wordless == {"Unresolved", "MissingArgument", "InvalidArgument", "DepthExceeded"}

Message(e) ==
  CASE e[1] \in {"Unresolved", "MissingArgument"} -> Word(e[1]) \o e[2]
    [] e[1] = "InvalidArgument"              -> Word(e[1]) \o e[2] \o <<58>> \o e[3]
    [] e[1] = "DepthExceeded"                -> Word(e[1]) \o e[3] \o Digit(e[2])
    [] e[1] \in {"RetryAfter", "Unsupported"} -> e[3]
    [] OTHER                                 -> e[2]

Display(e) ==
  IF e[1] = "RetryAfter" THEN Word(e[1]) \o (IF e[2] = <<>> THEN <<>> ELSE Digit(e[2][1])) \o e[3]
  ELSE IF e[1] \in Wordless THEN Message(e)
  ELSE Word(e[1]) \o Message(e)

Text      == Seq(0 .. 127)
Option(S) == {option \in Seq(S) : Len(option) <= 1}

(* The failures there are: a kind, and what it says. *)
WireErrors ==
  {"Unresolved", "MissingArgument", "Endpoint", "Denied", "NotFound", "Timeout", "Unavailable",
   "Conflict", "OverBudget", "Refused"} \X Text
  \cup {"InvalidArgument"} \X Text \X Text
  \cup {"DepthExceeded"} \X Nat \X Text
  \cup {"RetryAfter", "Unsupported"} \X Option(Nat) \X Text

Transient == {"Timeout", "Unavailable"}

FailureClass(e) ==
  CASE e[1] \in Transient    -> "transient"
    [] e[1] = "RetryAfter"   -> "retry-after"
    [] e[1] = "OverBudget"   -> "over-budget"
    [] e[1] = "Denied"       -> "denied"
    [] e[1] = "Refused"      -> "refused"
    [] e[1] = "Endpoint"     -> "unknown"
    [] OTHER                 -> "permanent"

LaterFailures == {"DepthExceeded", "RetryAfter", "OverBudget", "Refused", "Unsupported"}

(* downgrade_error: a failure as its peer can receive it. *)
DowngradeError(e, peer) ==
  IF e[1] = "Conflict" /\ peer < ConflictSince THEN <<"Endpoint", Word("Conflict") \o e[2]>>
  ELSE IF e[1] \in LaterFailures /\ peer < IssueWithSince THEN <<"Endpoint", Display(e)>>
  ELSE e

(* encode_reply puts a failure into its peer's terms before it writes it. *)
DowngradeReply(reply, peer) ==
  IF reply[1] = "ErrorTyped" THEN <<"ErrorTyped", DowngradeError(reply[2], peer)>> ELSE reply

(* reply_error: what a reply raises, the rendering's own words stripped off *)
(* a flat failure.                                                          *)
ReplyError(reply) ==
  CASE reply[1] = "ErrorTyped" -> {reply[2]}
    [] reply[1] = "Error" ->
         LET text == reply[2]
         IN  {<<"Endpoint", IF text # <<>> /\ SubSeq(text, 1, 1) = Word("Endpoint")
                            THEN Tail(text) ELSE text>>}
    [] OTHER -> {}
-----------------------------------------------------------------------------
(* Which call carries a request: build_issue_call and downgrade_call.  A    *)
(* value that may be None is a sequence of at most one.                     *)

Or(option, default) == IF option = <<>> THEN default ELSE option[1]

Root == <<"Root">>

Bug_PoolToAll(request, capability, version, retries, timeLeft, trace) ==
  IF retries # <<>> \/ timeLeft # <<>>
  THEN <<"IssueWith", request, Or(capability, Root), <<trace, retries, timeLeft>>>>
  ELSE IF trace # <<>> THEN <<"IssueTraced", request, Or(capability, Root), trace[1]>>
  ELSE IF capability = <<>> THEN <<"Issue", request>>
  ELSE <<"IssueAs", request, capability[1]>>

Bug_TraceFirst(request, capability, version, retries, timeLeft, trace) ==
  IF trace # <<>> THEN <<"IssueTraced", request, Or(capability, Root), trace[1]>>
  ELSE IF (retries # <<>> \/ timeLeft # <<>>) /\ Or(version, 0) >= IssueWithSince
  THEN <<"IssueWith", request, Or(capability, Root), <<trace, retries, timeLeft>>>>
  ELSE IF capability = <<>> THEN <<"Issue", request>>
  ELSE <<"IssueAs", request, capability[1]>>

BuildIssueCall(request, capability, version, retries, timeLeft, trace) ==
  IF (retries # <<>> \/ timeLeft # <<>>) /\ Or(version, 0) >= IssueWithSince
  THEN <<"IssueWith", request, Or(capability, Root), <<trace, retries, timeLeft>>>>
  ELSE IF trace # <<>> THEN <<"IssueTraced", request, Or(capability, Root), trace[1]>>
  ELSE IF capability = <<>> THEN <<"Issue", request>>
  ELSE <<"IssueAs", request, capability[1]>>

Bug_DropTrace(call, version) ==
  IF call[1] = "IssueWith" /\ Or(version, 0) < IssueWithSince
  THEN <<"IssueAs", call[2], call[3]>> ELSE call

DowngradeCall(call, version) ==
  IF call[1] = "IssueWith" /\ Or(version, 0) < IssueWithSince
  THEN IF call[4][1] # <<>> THEN <<"IssueTraced", call[2], call[3], call[4][1][1]>>
       ELSE <<"IssueAs", call[2], call[3]>>
  ELSE call
-----------------------------------------------------------------------------
(* Frames and hellos. *)

BigEndian(n) == <<n \div 16777216, (n \div 65536) % 256, (n \div 256) % 256, n % 256>>

FromBigEndian(b) == 16777216 * b[1] + 65536 * b[2] + 256 * b[3] + b[4]

Frame(payload) == BigEndian(Len(payload)) \o payload

(* The first frame of a stream and the bytes after it, once it is all there. *)
ReadFrame(bytes) ==
  LET end == 4 + FromBigEndian(SubSeq(bytes, 1, 4))
  IN  IF Len(bytes) < 4 \/ Len(bytes) < end THEN {}
      ELSE {<<SubSeq(bytes, 5, end), SubSeq(bytes, end + 1, Len(bytes))>>}

Oversized(bytes) == Len(bytes) >= 4 /\ FromBigEndian(SubSeq(bytes, 1, 4)) > MaxFrame

HelloMagic == <<73, 75, 87, 72>>

Hello(version, mode) == [version |-> version, mode |-> mode]

EncodeHello(hello) == HelloMagic \o BigEndian(hello.version) \o <<hello.mode>>

(* A mode this side does not know, or none, is the default. *)
DecodeHello(payload) ==
  IF Len(payload) < 8 \/ SubSeq(payload, 1, 4) # HelloMagic THEN {}
  ELSE {Hello(FromBigEndian(SubSeq(payload, 5, 8)),
              IF Len(payload) > 8 /\ payload[9] = 1 THEN 1 ELSE 0)}
=============================================================================
