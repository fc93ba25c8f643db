------------------------ MODULE QuicConnectionProofs ------------------------
(***************************************************************************)
(* Proofs about QuicConnection, for every set of verdicts, versions, reply *)
(* lengths, frame limit and number of calls.                               *)
(*                                                                         *)
(* The callbacks are functions of a connection and its callers' futures;   *)
(* so are the parts of the invariant, c and f below.                       *)
(***************************************************************************)
EXTENDS QuicConnection, SequenceTheorems, TLAPS

Chunk   == Nat \X Nat
Future  == {Pending, <<"timed out">>, <<"cancelled">>}
           \cup {<<"failed", e>> : e \in Failures} \cup {<<"reply", r>> : r \in Seq(Chunk)}
CloseSet == [code : Nat, typed : BOOLEAN, alpn : BOOLEAN]

Table   == UNION {[D -> Seq(Chunk)] : D \in SUBSET Nat}

ConnSet ==
  [handshook : BOOLEAN, confirmed : BOOLEAN, ready : BOOLEAN, over : BOOLEAN,
   version : {0} \cup Versions, failure : {None} \cup Failures, closing : Seq(CloseSet),
   finished : SUBSET Nat, resets : SUBSET Nat, calls : Table, arrived : Seq(Nat)]

Types(c, f) ==
  /\ c \in ConnSet
  /\ f \in Seq(Future) /\ length \in Seq(ReplyLengths) /\ Len(length) = Len(f)
  /\ Len(c.arrived) = Len(f)
  /\ DOMAIN c.calls \subseteq DOMAIN f /\ c.finished \subseteq DOMAIN f /\ c.resets \subseteq DOMAIN f

(* What is known of the door, and what the end is called.                  *)
Lawful(c) ==
  /\ c.confirmed => Confirms /\ c.handshook
  /\ c.handshook /\ c.failure = None =>
       c.version \in Versions /\ verdict \in {"untrusted", "unenrolled", "welcome"}
  /\ c.version \in Versions => c.handshook
  /\ c.ready /\ c.failure = None => c.confirmed
  /\ c.failure # None => c.closing # <<>>
  /\ c.closing # <<>> => c.closing[1] \in {Own, Idle} \cup Closes(c.handshook)
  /\ c.failure = "unenrolled" => verdict = "unenrolled"
  /\ c.failure = "refused"    => verdict = "untrusted"
  /\ c.failure = "pin"        => verdict \in {"uncertified", "stranger"}
  /\ c.failure = "protocol"   => verdict \in {"unversioned", "alpnless"}
  /\ c.failure = "lost" /\ c.handshook => c.closing[1] \in {Own, Idle} \/ verdict = "welcome"

(* A call is made only on a connection the dial found open.                *)
Opened(c, f) ==
  /\ dial \in {"up", "dropped"} => c.version \in Versions /\ Confirms
  /\ f # <<>> => dial \in {"up", "dropped"}

(* The table of calls, and what has come of each reply.                    *)
Tabled(c, f) ==
  /\ \A s \in DOMAIN c.calls :
       /\ f[s] \in {Pending, <<"cancelled">>}
       /\ c.calls[s] = Chunks(s, 0, c.arrived[s]) /\ c.arrived[s] <= MaxFrame
  /\ \A s \in DOMAIN f :
       /\ f[s] = Pending => s \in DOMAIN c.calls
       /\ c.arrived[s] <= length[s]
       /\ s \in c.finished => f[s] # Pending
       /\ f[s][1] = "reply" => f[s][2] = Chunks(s, 0, length[s]) /\ length[s] <= MaxFrame
       /\ f[s][1] = "failed" => c.closing # <<>> \/ s \in c.resets \/ length[s] > MaxFrame
       /\ f[s][1] = "failed" /\ s \in c.finished => length[s] > MaxFrame
  /\ c.failure # None => c.calls = <<>>

Good(c, f) == Types(c, f) /\ Lawful(c) /\ Opened(c, f) /\ Tabled(c, f)

IInv ==
  /\ verdict \in Verdicts /\ dial \in {"waiting", "up", "failed", "dropped"}
  /\ Len(futures) <= MaxCalls
  /\ Good(conn, futures)

St(c, f) == [conn |-> c, futures |-> f]

-----------------------------------------------------------------------------
(* Data. *)

LEMMA FutureKinds ==
  /\ Pending[1] = "pending" /\ <<"timed out">>[1] = "timed out" /\ <<"cancelled">>[1] = "cancelled"
  /\ \A e : <<"failed", e>>[1] = "failed" /\ <<"failed", e>>[2] = e
  /\ \A r : <<"reply", r>>[1] = "reply" /\ <<"reply", r>>[2] = r
  /\ \A e : <<"failed", e>> # Pending
  /\ \A r : <<"reply", r>> # Pending
  /\ <<"timed out">> # Pending /\ <<"cancelled">> # Pending
BY DEF Pending

LEMMA ChunksAre ==
  ASSUME NEW s \in Nat, NEW a \in Nat, NEW b \in Nat, a <= b
  PROVE  /\ Chunks(s, a, b) \in Seq(Chunk)
         /\ Len(Chunks(s, a, b)) = b - a
         /\ \A i \in 1 .. b - a : Chunks(s, a, b)[i] = <<s, a + i>>
<1>1. b - a \in Nat
  OBVIOUS
<1>2. \A i \in 1 .. b - a : a + i \in Nat
  OBVIOUS
<1>3. Chunks(s, a, b) \in [1 .. b - a -> Chunk]
  BY <1>2 DEF Chunks, Chunk
<1>4. Chunks(s, a, b) \in Seq(Chunk)
  BY <1>1, <1>3, SeqDef
<1>5. Len(Chunks(s, a, b)) \in Nat /\ DOMAIN Chunks(s, a, b) = 1 .. Len(Chunks(s, a, b))
      /\ DOMAIN Chunks(s, a, b) = 1 .. b - a
  BY <1>4, <1>3, LenProperties
<1>6. Len(Chunks(s, a, b)) = b - a
  BY <1>1, <1>5
<1> QED BY <1>4, <1>6 DEF Chunks

LEMMA ChunksWhole ==
  ASSUME NEW s \in Nat, NEW n \in Nat
  PROVE  /\ Chunks(s, 0, n) \in Seq(Chunk) /\ Len(Chunks(s, 0, n)) = n
         /\ \A i \in 1 .. n : Chunks(s, 0, n)[i] = <<s, i>>
<1>1. /\ Chunks(s, 0, n) \in Seq(Chunk) /\ Len(Chunks(s, 0, n)) = n - 0
      /\ \A i \in 1 .. n - 0 : Chunks(s, 0, n)[i] = <<s, 0 + i>>
  <2>1. 0 \in Nat /\ 0 <= n
    OBVIOUS
  <2> QED BY <2>1, ChunksAre
<1>2. n - 0 = n /\ \A i \in 1 .. n : 0 + i = i
  OBVIOUS
<1> QED BY <1>1, <1>2

LEMMA NoTable ==
  ASSUME NEW t \in Table, DOMAIN t = {}
  PROVE  t = <<>>
<1>1. <<>> \in [1 .. 0 -> Seq(Chunk)]
  OBVIOUS
<1> QED BY <1>1 DEF Table

(* What has come joins what came before. *)
LEMMA ChunksJoin ==
  ASSUME NEW s \in Nat, NEW a \in Nat, NEW b \in Nat, a <= b
  PROVE  Chunks(s, 0, a) \o Chunks(s, a, b) = Chunks(s, 0, b)
<1> DEFINE x == Chunks(s, 0, a)
           y == Chunks(s, a, b)
           z == Chunks(s, 0, b)
<1>1. /\ x \in Seq(Chunk) /\ Len(x) = a /\ \A i \in 1 .. a : x[i] = <<s, i>>
      /\ z \in Seq(Chunk) /\ Len(z) = b /\ \A i \in 1 .. b : z[i] = <<s, i>>
  BY ChunksWhole
<1>2. y \in Seq(Chunk) /\ Len(y) = b - a /\ \A i \in 1 .. b - a : y[i] = <<s, a + i>>
  BY ChunksAre
<1> HIDE DEF x, y, z
<1>3. /\ x \o y \in Seq(Chunk) /\ Len(x \o y) = Len(x) + Len(y)
      /\ \A i \in 1 .. Len(x) + Len(y) : (x \o y)[i] = IF i <= Len(x) THEN x[i] ELSE y[i - Len(x)]
  BY <1>1, <1>2, ConcatProperties
<1>4. Len(x \o y) = Len(z) /\ Len(x \o y) = b
  BY <1>1, <1>2, <1>3
<1>5. ASSUME NEW i \in 1 .. b PROVE (x \o y)[i] = z[i]
  <2>1. CASE i <= a
    <3>1. i \in 1 .. a /\ i \in 1 .. Len(x) + Len(y) /\ i <= Len(x)
      BY <1>1, <1>2, <2>1
    <3> QED BY <1>1, <1>3, <3>1
  <2>2. CASE ~(i <= a)
    <3>1. i - a \in 1 .. b - a /\ a + (i - a) = i /\ i \in 1 .. Len(x) + Len(y)
      BY <1>1, <1>2, <2>2
    <3> QED BY <1>1, <1>2, <1>3, <2>2, <3>1
  <2> QED BY <2>1, <2>2
<1>6. x \o y = z
  BY <1>1, <1>3, <1>4, <1>5, SeqEqual
<1> QED BY <1>6 DEF x, y, z

(* A sequence whose elements are replaced. *)
LEMMA SameLength ==
  ASSUME NEW S, NEW f \in Seq(S), NEW g \in [DOMAIN f -> S]
  PROVE  g \in Seq(S) /\ Len(g) = Len(f) /\ DOMAIN g = DOMAIN f
<1>1. Len(f) \in Nat /\ DOMAIN f = 1 .. Len(f)
  BY LenProperties
<1>2. g \in Seq(S)
  BY <1>1, SeqDef
<1>3. Len(g) \in Nat /\ DOMAIN g = 1 .. Len(g) /\ DOMAIN g = DOMAIN f
  BY <1>2, LenProperties
<1>4. Len(g) = Len(f)
  BY <1>1, <1>3
<1> QED BY <1>2, <1>3, <1>4

-----------------------------------------------------------------------------
(* The handshake. *)

(* A step of the connection's that is no call's. *)
LEMMA ScalarsKeepTables ==
  ASSUME NEW c, NEW f, NEW d, Types(c, f), Tabled(c, f), d \in ConnSet,
         d.calls = c.calls, d.arrived = c.arrived, d.finished = c.finished, d.resets = c.resets,
         c.closing # <<>> => d.closing # <<>>,
         d.failure # None => d.failure = c.failure \/ c.calls = <<>>
  PROVE  Types(d, f) /\ Tabled(d, f)
BY DEF Types, Tabled

LEMMA HandshakeGood ==
  ASSUME verdict \in Verdicts,
         NEW c, NEW f, Good(c, f), ~c.handshook, c.closing = <<>>, NEW frame \in Handshakes
  PROVE  Good(HandshakeCompleted(St(c, f), frame).conn, HandshakeCompleted(St(c, f), frame).futures)
<1> DEFINE h == HandshakeCompleted(St(c, f), frame)
           d == h.conn
<1>1. /\ c \in ConnSet /\ c.failure = None /\ ~c.confirmed /\ c.version \notin Versions
      /\ f = <<>> /\ dial \notin {"up", "dropped"} /\ c.calls = <<>>
  <2>1. c \in ConnSet /\ c.failure = None /\ ~c.confirmed /\ c.version \notin Versions
        /\ f = <<>> /\ dial \notin {"up", "dropped"}
    BY DEF Good, Types, Lawful, Opened
  <2>2. DOMAIN c.calls = {}
    BY <2>1 DEF Good, Types
  <2>3. c.calls \in Table
    BY <2>1 DEF ConnSet
  <2> QED BY <2>1, <2>2, <2>3, NoTable
<1>2. verdict # "unversioned"
      /\ (frame.cert = IF verdict = "uncertified" THEN "none" ELSE IF verdict = "stranger" THEN "other" ELSE "pinned")
      /\ (verdict = "alpnless" => frame.alpn = 0)
      /\ (verdict # "alpnless" => frame.alpn \in Versions)
  BY DEF Handshakes
<1>3. 0 \notin Versions /\ Verdicts \subseteq AllVerdicts
  BY ConnectionAssumption
<1>4. CASE frame.cert # "pinned" \/ frame.alpn \notin Versions
  <2> DEFINE why == IF frame.cert # "pinned" THEN "pin" ELSE "protocol"
  <2>1. h = Refuse([St(c, f) EXCEPT !.conn.handshook = TRUE], why)
    <3> DEFINE x == [St(c, f) EXCEPT !.conn.handshook = TRUE]
    <3>1. CASE frame.cert # "pinned"
      <4>1. h = Refuse(x, "pin")
        BY <3>1 DEF HandshakeCompleted
      <4>2. why = "pin"
        BY <3>1
      <4> QED BY <4>1, <4>2
    <3>2. CASE frame.cert = "pinned"
      <4>1. h = Refuse(x, "protocol")
        BY <1>4, <3>2 DEF HandshakeCompleted
      <4>2. why = "protocol"
        BY <3>2
      <4> QED BY <4>1, <4>2
    <3> QED BY <3>1, <3>2
  <2>2. /\ d \in ConnSet /\ h.futures = f
        /\ d.handshook /\ d.confirmed = c.confirmed /\ d.ready /\ d.version = c.version
        /\ d.failure = why /\ d.closing = <<Own>> /\ d.calls = c.calls /\ d.arrived = c.arrived
        /\ d.finished = c.finished /\ d.resets = c.resets
    <3> DEFINE x == [St(c, f) EXCEPT !.conn.handshook = TRUE]
               b == x.conn
               e == [Shut(b) EXCEPT !.failure = why, !.ready = TRUE]
    <3>1. /\ b \in ConnSet /\ b.handshook /\ b.confirmed = c.confirmed /\ b.version = c.version
          /\ b.closing = c.closing /\ b.calls = c.calls /\ b.arrived = c.arrived
          /\ b.finished = c.finished /\ b.resets = c.resets
          /\ x.futures = f
      BY <1>1 DEF ConnSet, St
    <3>2. <<Own>> \in Seq(CloseSet) /\ why \in Failures
      BY DEF Own, Close, CloseSet, Failures, Trust
    <3>3. Shut(b) = [b EXCEPT !.closing = <<Own>>]
      BY <1>1, <3>1 DEF Shut
    <3> HIDE DEF h, why
    <3>4. /\ e \in ConnSet /\ e.handshook /\ e.confirmed = c.confirmed /\ e.ready /\ e.version = c.version
          /\ e.failure = why /\ e.closing = <<Own>> /\ e.calls = c.calls /\ e.arrived = c.arrived
          /\ e.finished = c.finished /\ e.resets = c.resets
      <4> HIDE DEF x
      <4> QED BY <3>1, <3>2, <3>3 DEF ConnSet
    <3>5. h.conn = e /\ h.futures = f
      BY <2>1, <3>1 DEF Refuse, St
    <3> QED BY <3>4, <3>5
  <2>3. why = "pin" => verdict \in {"uncertified", "stranger"}
    BY <1>2
  <2>4. why = "protocol" => verdict = "alpnless"
    BY <1>2, <1>4
  <2> HIDE DEF h, why
  <2>5. why \in {"pin", "protocol"} /\ <<Own>> # <<>> /\ <<Own>>[1] = Own
    BY DEF why
  <2>6. Lawful(d)
    BY <1>1, <2>2, <2>3, <2>4, <2>5 DEF Lawful, None
  <2>7. Opened(d, f)
    BY <1>1, <2>2 DEF Opened
  <2>8. Types(d, f) /\ Tabled(d, f)
    BY <1>1, <2>2, <2>5, ScalarsKeepTables DEF Good
  <2> QED BY <2>2, <2>6, <2>7, <2>8 DEF Good, h
<1>5. CASE frame.cert = "pinned" /\ frame.alpn \in Versions
  <2>1. /\ d \in ConnSet /\ h.futures = f
        /\ d.handshook /\ d.confirmed = c.confirmed /\ d.version = frame.alpn
        /\ (d.ready <=> c.ready \/ c.confirmed)
        /\ d.failure = c.failure /\ d.closing = c.closing /\ d.calls = c.calls /\ d.arrived = c.arrived
        /\ d.finished = c.finished /\ d.resets = c.resets
    BY <1>1, <1>5 DEF HandshakeCompleted, St, ConnSet
  <2>2. verdict \in {"untrusted", "unenrolled", "welcome"}
    BY <1>2, <1>3, <1>5 DEF AllVerdicts
  <2> HIDE DEF h
  <2>3. ~c.ready
    BY <1>1 DEF Good, Lawful
  <2>4. Lawful(d) /\ Opened(d, f)
    BY <1>1, <1>5, <2>1, <2>2, <2>3 DEF Lawful, Opened, None
  <2>5. Types(d, f) /\ Tabled(d, f)
    BY <1>1, <2>1, ScalarsKeepTables DEF Good
  <2> QED BY <2>1, <2>4, <2>5 DEF Good, h
<1> QED BY <1>4, <1>5

(* The confirmation. *)
LEMMA ConfirmGood ==
  ASSUME NEW c, NEW f, Good(c, f), c.handshook, Confirms
  PROVE  Good([c EXCEPT !.confirmed = TRUE], f)
<1> DEFINE d == [c EXCEPT !.confirmed = TRUE]
<1>1. /\ d \in ConnSet /\ d.confirmed /\ d.handshook = c.handshook /\ d.version = c.version
      /\ d.failure = c.failure /\ d.closing = c.closing /\ d.calls = c.calls /\ d.arrived = c.arrived
      /\ d.finished = c.finished /\ d.resets = c.resets
  BY DEF Good, Types, ConnSet
<1> HIDE DEF d
<1>2. Lawful(d) /\ Opened(d, f)
  BY <1>1 DEF Good, Lawful, Opened
<1>3. Types(d, f) /\ Tabled(d, f)
  BY <1>1, ScalarsKeepTables DEF Good
<1> QED BY <1>2, <1>3 DEF Good, d
-----------------------------------------------------------------------------
(* A call's data, and its end. *)

(* A step of a call's. *)
LEMMA CallsKeepScalars ==
  ASSUME NEW c, NEW f, Lawful(c), Opened(c, f), NEW d, NEW g, Len(g) = Len(f), f \in Seq(Future), g \in Seq(Future),
         d.handshook = c.handshook, d.confirmed = c.confirmed, d.ready = c.ready, d.version = c.version,
         d.failure = c.failure, d.closing = c.closing
  PROVE  Lawful(d) /\ Opened(d, g)
<1>1. g # <<>> => f # <<>>
  BY EmptySeq
<1> QED BY <1>1 DEF Lawful, Opened

LEMMA FewerCalls ==
  ASSUME NEW calls \in Table, NEW s
  PROVE  /\ Without(calls, s) \in Table
         /\ DOMAIN Without(calls, s) = DOMAIN calls \ {s}
         /\ \A t \in DOMAIN calls \ {s} : Without(calls, s)[t] = calls[t]
<1>1. PICK D \in SUBSET Nat : calls \in [D -> Seq(Chunk)]
  BY DEF Table
<1>2. Without(calls, s) \in [D \ {s} -> Seq(Chunk)]
  BY <1>1 DEF Without
<1> QED BY <1>1, <1>2 DEF Table, Without

(* A call's future is done, and its entry gone. *)
LEMMA SettledGood ==
  ASSUME NEW c, NEW f, Types(c, f), Tabled(c, f), NEW s \in DOMAIN f, NEW d \in ConnSet, NEW v \in Future,
         v # Pending,
         d.calls = Without(c.calls, s),
         c.finished \subseteq d.finished, d.finished \subseteq c.finished \cup {s},
         c.resets \subseteq d.resets, d.resets \subseteq c.resets \cup {s},
         Len(d.arrived) = Len(f), d.arrived[s] <= length[s],
         \A t \in DOMAIN f \ {s} : d.arrived[t] = c.arrived[t],
         d.closing = c.closing, d.failure = c.failure,
         v[1] = "reply" => v[2] = Chunks(s, 0, length[s]) /\ length[s] <= MaxFrame,
         v[1] = "failed" => d.closing # <<>> \/ s \in d.resets \/ length[s] > MaxFrame,
         v[1] = "failed" /\ s \in d.finished => length[s] > MaxFrame
  PROVE  LET g == [f EXCEPT ![s] = v]
         IN  /\ Types(d, g) /\ Tabled(d, g)
             /\ g \in Seq(Future) /\ Len(g) = Len(f)
<1> DEFINE g == [f EXCEPT ![s] = v]
<1>1. f \in Seq(Future) /\ c.calls \in Table /\ d.calls \in Table
  BY DEF Types, ConnSet
<1>2. g \in [DOMAIN f -> Future]
  BY <1>1, LenProperties
<1>3. g \in Seq(Future) /\ Len(g) = Len(f) /\ DOMAIN g = DOMAIN f
  <2> HIDE DEF g
  <2> QED BY <1>1, <1>2, SameLength
<1>4. g[s] = v /\ \A t \in DOMAIN f \ {s} : g[t] = f[t]
  BY <1>1
<1>5. DOMAIN d.calls = DOMAIN c.calls \ {s} /\ \A t \in DOMAIN d.calls : d.calls[t] = c.calls[t]
  <2>1. /\ DOMAIN Without(c.calls, s) = DOMAIN c.calls \ {s}
        /\ \A t \in DOMAIN c.calls \ {s} : Without(c.calls, s)[t] = c.calls[t]
    BY <1>1, FewerCalls
  <2>2. DOMAIN d.calls = DOMAIN c.calls \ {s}
    BY <2>1
  <2>3. ASSUME NEW t \in DOMAIN d.calls PROVE d.calls[t] = c.calls[t]
    BY <2>1, <2>2
  <2> QED BY <2>2, <2>3
<1> HIDE DEF g
<1>6. Types(d, g)
  BY <1>3, <1>5 DEF Types
<1>7. Tabled(d, g)
  <2>1. ASSUME NEW t \in DOMAIN d.calls
        PROVE  /\ g[t] \in {Pending, <<"cancelled">>}
               /\ d.calls[t] = Chunks(t, 0, d.arrived[t]) /\ d.arrived[t] <= MaxFrame
    <3>1. t \in DOMAIN c.calls /\ t # s /\ t \in DOMAIN f
      BY <1>5 DEF Types
    <3> QED BY <1>4, <1>5, <3>1 DEF Tabled
  <2>2. ASSUME NEW t \in DOMAIN g
        PROVE  /\ g[t] = Pending => t \in DOMAIN d.calls
               /\ d.arrived[t] <= length[t]
               /\ t \in d.finished => g[t] # Pending
               /\ g[t][1] = "reply" => g[t][2] = Chunks(t, 0, length[t]) /\ length[t] <= MaxFrame
               /\ g[t][1] = "failed" => d.closing # <<>> \/ t \in d.resets \/ length[t] > MaxFrame
               /\ g[t][1] = "failed" /\ t \in d.finished => length[t] > MaxFrame
    <3>1. CASE t = s
      BY <1>4, <3>1
    <3>2. CASE t # s
      BY <1>3, <1>4, <1>5, <3>2 DEF Tabled
    <3> QED BY <3>1, <3>2
  <2>3. d.failure # None => d.calls = <<>>
    <3>1. ASSUME d.failure # None PROVE DOMAIN d.calls = {}
      BY <3>1, <1>5 DEF Tabled
    <3> QED BY <1>1, <3>1, NoTable
  <2> QED BY <2>1, <2>2, <2>3 DEF Tabled
<1> QED BY <1>3, <1>6, <1>7 DEF g

(* Bytes of a reply. *)
LEMMA DataGood ==
  ASSUME NEW c, NEW f, Good(c, f), c.closing = <<>>,
         NEW s \in DOMAIN f, s \notin c.resets,
         NEW n \in Nat, c.arrived[s] <= n, n <= length[s],
         NEW frame, frame.stream = s, frame.upTo = n, frame.fin => n = length[s]
  PROVE  LET h == StreamDataReceived(St(c, f), frame)
         IN  Good(h.conn, h.futures) /\ Len(h.futures) = Len(f)
<1> DEFINE st     == St(c, f)
           heard  == [st EXCEPT !.conn.arrived[s] = n,
                                !.conn.finished = @ \cup (IF frame.fin THEN {s} ELSE {})]
           d      == heard.conn
           buffer == c.calls[s] \o Chunks(s, c.arrived[s], n)
           h      == StreamDataReceived(st, frame)
           g      == h.futures
<1>1. /\ f \in Seq(Future) /\ c \in ConnSet /\ c.calls \in Table /\ DOMAIN c.calls \subseteq DOMAIN f
      /\ Len(c.arrived) = Len(f) /\ c.arrived \in Seq(Nat) /\ s \in Nat /\ c.arrived[s] \in Nat
      /\ length \in Seq(ReplyLengths) /\ Len(length) = Len(f) /\ length[s] \in Nat /\ MaxFrame \in Nat
      /\ s \in DOMAIN c.arrived
  <2>1. f \in Seq(Future) /\ c \in ConnSet /\ Len(c.arrived) = Len(f)
        /\ length \in Seq(ReplyLengths) /\ Len(length) = Len(f) /\ DOMAIN c.calls \subseteq DOMAIN f
    BY DEF Good, Types
  <2>2. c.arrived \in Seq(Nat) /\ c.calls \in Table
    BY <2>1 DEF ConnSet
  <2>3. s \in 1 .. Len(f) /\ DOMAIN c.arrived = 1 .. Len(f) /\ Len(f) \in Nat
    BY <2>1, <2>2, LenProperties
  <2>4. length[s] \in ReplyLengths /\ c.arrived[s] \in Nat
    BY <2>1, <2>2, <2>3, ElementOfSeq
  <2>5. s \in Nat /\ s \in DOMAIN c.arrived
    BY <2>3
  <2>6. length[s] \in Nat /\ MaxFrame \in Nat
    BY <2>4, ConnectionAssumption
  <2> QED BY <2>1, <2>2, <2>4, <2>5, <2>6
<1>2. /\ d \in ConnSet /\ d.arrived = [c.arrived EXCEPT ![s] = n]
      /\ d.finished = c.finished \cup (IF frame.fin THEN {s} ELSE {})
      /\ d.handshook = c.handshook /\ d.confirmed = c.confirmed /\ d.ready = c.ready /\ d.version = c.version
      /\ d.failure = c.failure /\ d.closing = c.closing /\ d.calls = c.calls /\ d.resets = c.resets
  <2>1. [c.arrived EXCEPT ![s] = n] \in Seq(Nat)
    BY <1>1, ExceptSeq
  <2> QED BY <1>1, <2>1 DEF St, ConnSet
<1>3. /\ Len(d.arrived) = Len(f) /\ d.arrived[s] = n
      /\ \A t \in DOMAIN f \ {s} : d.arrived[t] = c.arrived[t]
  <2>1. Len([c.arrived EXCEPT ![s] = n]) = Len(c.arrived)
    BY <1>1, ExceptSeq
  <2>2. DOMAIN f = DOMAIN c.arrived
    BY <1>1, LenProperties
  <2> QED BY <1>1, <1>2, <2>1, <2>2
<1>4. st.conn = c /\ st.futures = f /\ heard.futures = f /\ heard.conn = d
  BY DEF St
<1>5. s \in DOMAIN c.calls => /\ buffer = Chunks(s, 0, n) /\ Len(buffer) = n
                              /\ f[s] \in {Pending, <<"cancelled">>}
  <2>1. ASSUME s \in DOMAIN c.calls PROVE buffer = Chunks(s, 0, n)
    <3>1. c.calls[s] = Chunks(s, 0, c.arrived[s])
      BY <2>1 DEF Good, Tabled
    <3>2. s \in Nat /\ c.arrived[s] \in Nat /\ c.arrived[s] <= n
      BY <1>1
    <3>3. Chunks(s, 0, c.arrived[s]) \o Chunks(s, c.arrived[s], n) = Chunks(s, 0, n)
      BY <3>2, ChunksJoin, ZenonT(40)
    <3> QED BY <3>1, <3>3
  <2>2. Len(Chunks(s, 0, n)) = n
    BY <1>1, ChunksWhole
  <2> QED BY <2>1, <2>2 DEF Good, Tabled
<1>6. h = IF s \notin DOMAIN c.calls THEN heard
          ELSE IF Len(buffer) > MaxFrame THEN FailCall(heard, s, "protocol")
          ELSE IF frame.fin /\ f[s] = Pending
          THEN [conn    |-> [heard.conn EXCEPT !.calls = Without(@, s)],
                futures |-> [f EXCEPT ![s] = <<"reply", buffer>>]]
          ELSE [heard EXCEPT !.conn.calls[s] = buffer]
  BY <1>4 DEF StreamDataReceived
<1> HIDE DEF st, heard, d, h, buffer
<1>7. CASE s \notin DOMAIN c.calls
  <2>1. h.conn = d /\ h.futures = f
    BY <1>4, <1>6, <1>7 DEF h, d
  <2>2. Types(d, f)
    BY <1>2, <1>3 DEF Good, Types
  <2>3. Tabled(d, f)
    <3>1. f[s] # Pending /\ (f[s][1] = "failed" => length[s] > MaxFrame)
      BY <1>7 DEF Good, Tabled
    <3>2. \A t \in DOMAIN f : t # s => d.arrived[t] = c.arrived[t] /\ (t \in d.finished <=> t \in c.finished)
      BY <1>2, <1>3
    <3> QED BY <1>1, <1>2, <1>3, <1>7, <3>1, <3>2 DEF Good, Tabled
  <2>4. Lawful(d) /\ Opened(d, f)
    BY <1>1, <1>2, CallsKeepScalars DEF Good
  <2> QED BY <2>1, <2>2, <2>3, <2>4 DEF Good, h, st
<1> DEFINE e == [d EXCEPT !.calls = Without(@, s)]
<1>8. /\ e \in ConnSet /\ e.calls = Without(c.calls, s) /\ e.arrived = d.arrived /\ e.finished = d.finished
      /\ e.handshook = c.handshook /\ e.confirmed = c.confirmed /\ e.ready = c.ready /\ e.version = c.version
      /\ e.failure = c.failure /\ e.closing = c.closing /\ e.resets = c.resets
  <2>1. Without(c.calls, s) \in Table
    BY <1>1, FewerCalls
  <2> QED BY <1>2, <2>1 DEF ConnSet
<1> HIDE DEF e
<1>9. ASSUME NEW v \in Future, v # Pending,
             v[1] = "reply" => v[2] = Chunks(s, 0, length[s]) /\ length[s] <= MaxFrame,
             v[1] = "failed" => length[s] > MaxFrame
      PROVE  Good(e, [f EXCEPT ![s] = v]) /\ Len([f EXCEPT ![s] = v]) = Len(f)
  <2> DEFINE k == [f EXCEPT ![s] = v]
  <2>1. /\ Types(c, f) /\ Tabled(c, f)
        /\ c.finished \subseteq e.finished /\ e.finished \subseteq c.finished \cup {s}
        /\ c.resets \subseteq e.resets /\ e.resets \subseteq c.resets \cup {s}
        /\ Len(e.arrived) = Len(f) /\ e.arrived[s] <= length[s]
        /\ \A t \in DOMAIN f \ {s} : e.arrived[t] = c.arrived[t]
    BY <1>2, <1>3, <1>8 DEF Good
  <2>2. Types(e, k) /\ Tabled(e, k) /\ k \in Seq(Future) /\ Len(k) = Len(f)
    BY <1>8, <1>9, <2>1, SettledGood
  <2> HIDE DEF k
  <2>3. Lawful(e) /\ Opened(e, k)
    BY <1>1, <1>8, <2>2, CallsKeepScalars DEF Good
  <2> QED BY <2>2, <2>3 DEF Good, k
<1>10. CASE s \in DOMAIN c.calls /\ Len(buffer) > MaxFrame
  <2>1. h = FailCall(heard, s, "protocol")
    BY <1>6, <1>10
  <2> DEFINE v == IF f[s] = Pending THEN <<"failed", "protocol">> ELSE f[s]
  <2>2. h.conn = e /\ h.futures = [f EXCEPT ![s] = v]
    BY <1>2, <1>4, <1>10, <2>1 DEF FailCall, e
  <2>3. v \in Future /\ v # Pending /\ v[1] # "reply" /\ length[s] > MaxFrame
    <3>1. f[s] \in {Pending, <<"cancelled">>} /\ length[s] > MaxFrame
      BY <1>1, <1>5, <1>10
    <3>2. <<"failed", "protocol">> \in Future /\ <<"cancelled">> \in Future
      BY DEF Future, Failures
    <3>3. CASE f[s] = Pending
      <4>1. v = <<"failed", "protocol">>
        BY <3>3
      <4> HIDE DEF v
      <4> QED BY <3>1, <3>2, <4>1, FutureKinds
    <3>4. CASE f[s] # Pending
      <4>1. v = <<"cancelled">>
        BY <3>1, <3>4
      <4> HIDE DEF v
      <4> QED BY <3>1, <3>2, <4>1, FutureKinds
    <3> QED BY <3>3, <3>4
  <2> HIDE DEF v
  <2> QED BY <1>9, <2>2, <2>3 DEF h, st
<1>11. CASE s \in DOMAIN c.calls /\ ~(Len(buffer) > MaxFrame) /\ frame.fin /\ f[s] = Pending
  <2> DEFINE v == <<"reply", buffer>>
  <2>1. h.conn = e /\ h.futures = [f EXCEPT ![s] = v]
    BY <1>4, <1>6, <1>11 DEF e
  <2>2. /\ buffer = Chunks(s, 0, length[s]) /\ n = length[s] /\ length[s] <= MaxFrame
        /\ buffer \in Seq(Chunk)
    <3>1. buffer = Chunks(s, 0, n) /\ n = length[s] /\ ~(n > MaxFrame)
      BY <1>5, <1>11
    <3>2. Chunks(s, 0, n) \in Seq(Chunk)
      BY <1>1, ChunksWhole
    <3> QED BY <1>1, <3>1, <3>2
  <2>3. v \in Future /\ v # Pending /\ v[1] = "reply" /\ v[2] = buffer
    BY <2>2, FutureKinds DEF Future
  <2> HIDE DEF v
  <2>4. v[1] # "failed"
    BY <2>3
  <2> QED BY <1>9, <2>1, <2>2, <2>3, <2>4 DEF h, st
<1>12. CASE s \in DOMAIN c.calls /\ ~(Len(buffer) > MaxFrame) /\ ~(frame.fin /\ f[s] = Pending)
  <2>1. h = [heard EXCEPT !.conn.calls[s] = buffer]
    BY <1>6, <1>12
  <2> DEFINE k == h.conn
  <2>2. buffer \in Seq(Chunk) /\ buffer = Chunks(s, 0, n) /\ n <= MaxFrame
    <3>1. buffer = Chunks(s, 0, n) /\ ~(n > MaxFrame)
      BY <1>5, <1>12
    <3>2. Chunks(s, 0, n) \in Seq(Chunk)
      BY <1>1, ChunksWhole
    <3> QED BY <1>1, <3>1, <3>2
  <2>3. [c.calls EXCEPT ![s] = buffer] \in Table
    <3>1. PICK D \in SUBSET Nat : c.calls \in [D -> Seq(Chunk)]
      BY <1>1 DEF Table
    <3>2. [c.calls EXCEPT ![s] = buffer] \in [D -> Seq(Chunk)]
      BY <2>2, <3>1
    <3> QED BY <3>2 DEF Table
  <2>4. /\ h.futures = f
        /\ k \in ConnSet /\ k.arrived = d.arrived /\ k.finished = d.finished
        /\ k.calls = [c.calls EXCEPT ![s] = buffer]
        /\ k.handshook = c.handshook /\ k.confirmed = c.confirmed /\ k.ready = c.ready /\ k.version = c.version
        /\ k.failure = c.failure /\ k.closing = c.closing /\ k.resets = c.resets
    <3>1. k = [d EXCEPT !.calls[s] = buffer] /\ h.futures = f
      <4>1. DOMAIN heard = {"conn", "futures"}
        BY DEF heard, St, st
      <4> QED BY <1>4, <2>1, <4>1
    <3>2. k = [d EXCEPT !.calls = [c.calls EXCEPT ![s] = buffer]]
      BY <1>2, <3>1
    <3> HIDE DEF k
    <3>3. k.calls = [c.calls EXCEPT ![s] = buffer] /\ k \in ConnSet
      BY <1>2, <2>3, <3>2 DEF ConnSet
    <3>4. /\ k.arrived = d.arrived /\ k.finished = d.finished
          /\ k.handshook = c.handshook /\ k.confirmed = c.confirmed /\ k.ready = c.ready
          /\ k.version = c.version /\ k.failure = c.failure /\ k.closing = c.closing
          /\ k.resets = c.resets
      BY <1>2, <3>2 DEF ConnSet
    <3> QED BY <3>1, <3>3, <3>4
  <2> HIDE DEF k
  <2>5. Types(k, f)
    BY <1>2, <1>3, <2>4 DEF Good, Types
  <2>6. Tabled(k, f)
    <3>1. DOMAIN k.calls = DOMAIN c.calls /\ k.calls[s] = buffer
          /\ \A t \in DOMAIN c.calls : t # s => k.calls[t] = c.calls[t]
      <4>1. PICK D \in SUBSET Nat : c.calls \in [D -> Seq(Chunk)]
        BY <1>1 DEF Table
      <4> QED BY <1>12, <2>4, <4>1
    <3>2. /\ k.arrived[s] = n /\ \A t \in DOMAIN f : t # s => k.arrived[t] = c.arrived[t] /\ (t \in k.finished <=> t \in c.finished)
          /\ (s \in k.finished /\ s \notin c.finished => frame.fin)
      BY <1>2, <1>3, <2>4
    <3>3. k.failure # None => k.calls = <<>>
      <4>1. ASSUME c.failure # None PROVE FALSE
        <5>1. c.calls = <<>>
          BY <4>1 DEF Good, Tabled
        <5> QED BY <5>1, <1>12
      <4> QED BY <4>1, <2>4
    <3>4. \A t \in DOMAIN k.calls :
            /\ f[t] \in {Pending, <<"cancelled">>}
            /\ k.calls[t] = Chunks(t, 0, k.arrived[t]) /\ k.arrived[t] <= MaxFrame
      <4>1. ASSUME NEW t \in DOMAIN k.calls
            PROVE  /\ f[t] \in {Pending, <<"cancelled">>}
                   /\ k.calls[t] = Chunks(t, 0, k.arrived[t]) /\ k.arrived[t] <= MaxFrame
        <5>1. CASE t = s
          BY <1>5, <1>12, <2>2, <3>1, <3>2, <5>1
        <5>2. CASE t # s
          <6>1. t \in DOMAIN c.calls /\ t \in DOMAIN f
            BY <1>1, <3>1
          <6> QED BY <3>1, <3>2, <5>2, <6>1 DEF Good, Tabled
        <5> QED BY <5>1, <5>2
      <4> QED BY <4>1
    <3>5. ASSUME NEW t \in DOMAIN f
          PROVE  /\ f[t] = Pending => t \in DOMAIN k.calls
                 /\ k.arrived[t] <= length[t]
                 /\ t \in k.finished => f[t] # Pending
                 /\ f[t][1] = "reply" => f[t][2] = Chunks(t, 0, length[t]) /\ length[t] <= MaxFrame
                 /\ f[t][1] = "failed" => k.closing # <<>> \/ t \in k.resets \/ length[t] > MaxFrame
                 /\ f[t][1] = "failed" /\ t \in k.finished => length[t] > MaxFrame
      <4>1. CASE t # s
        BY <2>4, <3>1, <3>2, <4>1 DEF Good, Tabled
      <4>2. CASE t = s
        <5>1. f[s][1] # "failed" /\ f[s][1] # "reply"
          BY <1>5, <1>12, FutureKinds
        <5>2. s \in k.finished => f[s] # Pending
          BY <1>12, <3>2 DEF Good, Tabled
        <5> QED BY <1>12, <3>1, <3>2, <4>2, <5>1, <5>2
      <4> QED BY <4>1, <4>2
    <3> QED BY <3>3, <3>4, <3>5 DEF Tabled
  <2>7. Lawful(k) /\ Opened(k, f)
    BY <1>1, <2>4, CallsKeepScalars DEF Good
  <2> QED BY <2>4, <2>5, <2>6, <2>7 DEF Good, k, h, st
<1> QED BY <1>7, <1>10, <1>11, <1>12

(* A reply broken off. *)
LEMMA ResetGood ==
  ASSUME NEW c, NEW f, Good(c, f), NEW s \in DOMAIN f, s \notin c.finished
  PROVE  LET h == [FailCall(St(c, f), s, "lost") EXCEPT !.conn.resets = @ \cup {s}]
         IN  Good(h.conn, h.futures) /\ Len(h.futures) = Len(f)
<1> DEFINE h == [FailCall(St(c, f), s, "lost") EXCEPT !.conn.resets = @ \cup {s}]
           d == h.conn
           v == IF s \in DOMAIN c.calls /\ f[s] = Pending THEN <<"failed", "lost">> ELSE f[s]
           g == [f EXCEPT ![s] = v]
<1>1. /\ f \in Seq(Future) /\ c \in ConnSet /\ c.calls \in Table /\ c.resets \subseteq Nat /\ s \in Nat
      /\ Len(c.arrived) = Len(f) /\ f[s] \in Future
  <2>1. f \in Seq(Future) /\ c \in ConnSet /\ Len(c.arrived) = Len(f)
    BY DEF Good, Types
  <2>2. s \in 1 .. Len(f) /\ Len(f) \in Nat
    BY <2>1, LenProperties
  <2>3. f[s] \in Future /\ s \in Nat
    BY <2>1, <2>2, ElementOfSeq
  <2> QED BY <2>1, <2>3 DEF ConnSet
<1>2. h.futures = g
  BY DEF FailCall, St
<1>3. /\ d \in ConnSet /\ d.calls = Without(c.calls, s) /\ d.resets = c.resets \cup {s}
      /\ d.arrived = c.arrived /\ d.finished = c.finished
      /\ d.handshook = c.handshook /\ d.confirmed = c.confirmed /\ d.ready = c.ready /\ d.version = c.version
      /\ d.failure = c.failure /\ d.closing = c.closing
  <2>1. Without(c.calls, s) \in Table
    BY <1>1, FewerCalls
  <2> QED BY <1>1, <2>1 DEF FailCall, St, ConnSet
<1>4. f[s] = Pending => s \in DOMAIN c.calls
  BY DEF Good, Tabled
<1>5. v \in Future /\ v # Pending
  <2>1. <<"failed", "lost">> \in Future
    BY DEF Future, Failures
  <2> QED BY <1>1, <1>4, <2>1, FutureKinds
<1>6. v[1] = "reply" => v[2] = Chunks(s, 0, length[s]) /\ length[s] <= MaxFrame
  <2>1. CASE v = f[s]
    BY <2>1 DEF Good, Tabled
  <2>2. CASE v # f[s]
    <3>1. v = <<"failed", "lost">>
      BY <2>2
    <3> HIDE DEF v
    <3> QED BY <3>1, FutureKinds
  <2> QED BY <2>1, <2>2
<1> HIDE DEF h, d, v
<1>7. /\ Types(c, f) /\ Tabled(c, f) /\ c.arrived[s] <= length[s]
  BY DEF Good, Tabled
<1>8. Types(d, g) /\ Tabled(d, g) /\ g \in Seq(Future) /\ Len(g) = Len(f)
  BY <1>1, <1>3, <1>5, <1>6, <1>7, SettledGood
<1> HIDE DEF g
<1>9. Lawful(d) /\ Opened(d, g)
  BY <1>1, <1>3, <1>8, CallsKeepScalars DEF Good
<1> QED BY <1>2, <1>8, <1>9 DEF Good, h, d

-----------------------------------------------------------------------------
(* The end of the connection. *)

LEMMA ClosesAre ==
  /\ Own \in CloseSet /\ Idle \in CloseSet
  /\ \A h \in BOOLEAN : Closes(h) \subseteq CloseSet
<1>1. /\ \A n \in Nat : Close(n, TRUE, FALSE) \in CloseSet /\ Close(n, FALSE, FALSE) \in CloseSet
      /\ Close(256 + 40, TRUE, FALSE) \in CloseSet /\ Close(256 + 42, TRUE, FALSE) \in CloseSet
      /\ Close(256 + 80, TRUE, FALSE) \in CloseSet /\ Close(256 + 120, TRUE, FALSE) \in CloseSet
      /\ Close(256 + 40, TRUE, TRUE) \in CloseSet
  BY DEF Close, CloseSet
<1>2. ASSUME NEW h \in BOOLEAN PROVE Closes(h) \subseteq CloseSet
  <2>1. CASE verdict = "unversioned"
    <3>1. Closes(h) \in {{}, {Close(256 + 120, TRUE, FALSE), Close(256 + 40, TRUE, TRUE)}}
      BY <2>1 DEF Closes
    <3> QED BY <1>1, <3>1, ZenonT(40)
  <2>2. CASE verdict = "untrusted" /\ h
    <3>1. Closes(h) = {Close(256 + 42, TRUE, FALSE), Close(256 + 40, TRUE, FALSE)}
      BY <2>2 DEF Closes
    <3> QED BY <1>1, <3>1, ZenonT(40)
  <2>3. CASE verdict = "unenrolled" /\ h
    BY <1>1, <2>3, ZenonT(40) DEF Closes, Unauthorized
  <2>4. CASE verdict = "welcome" /\ h
    <3>1. Closes(h) = {Close(3, FALSE, FALSE), Close(0, FALSE, FALSE),
                       Close(1, TRUE, FALSE), Close(2, TRUE, FALSE)}
      BY <2>4 DEF Closes, Aged
    <3>2. /\ Close(3, FALSE, FALSE) \in CloseSet /\ Close(0, FALSE, FALSE) \in CloseSet
          /\ Close(1, TRUE, FALSE) \in CloseSet /\ Close(2, TRUE, FALSE) \in CloseSet
      BY <1>1, ZenonT(40)
    <3> QED BY <3>1, <3>2
  <2>5. CASE /\ verdict # "unversioned" /\ ~(verdict = "untrusted" /\ h)
             /\ ~(verdict = "unenrolled" /\ h) /\ ~(verdict = "welcome" /\ h)
    BY <1>1, <2>5, ZenonT(60) DEF Closes
  <2> QED BY <2>1, <2>2, <2>3, <2>4, <2>5
<1> QED BY <1>1, <1>2 DEF Own, Idle

(* What the end is called. *)
LEMMA WhyEndedLawful ==
  ASSUME NEW h \in BOOLEAN, NEW close \in {Own, Idle} \cup Closes(h),
         h => verdict \in {"untrusted", "unenrolled", "welcome"}
  PROVE  LET why == WhyEnded(h, close)
         IN  /\ why \in {"protocol", "refused", "unenrolled", "lost"}
             /\ why = "unenrolled" => verdict = "unenrolled"
             /\ why = "refused"    => verdict = "untrusted"
             /\ why = "protocol"   => verdict = "unversioned"
             /\ why = "lost" /\ h  => close \in {Own, Idle} \/ verdict = "welcome"
<1> DEFINE why == WhyEnded(h, close)
<1>1. CASE close \in {Own, Idle}
  BY <1>1 DEF WhyEnded, Own, Idle, Close, Unauthorized, NoVersion
<1>2. CASE close \in Closes(h)
  <2>1. CASE verdict = "unversioned"
    BY <1>2, <2>1 DEF WhyEnded, Closes, Close, Unauthorized, NoVersion
  <2>2. CASE verdict = "untrusted" /\ h
    BY <1>2, <2>2 DEF WhyEnded, Closes, Close, Unauthorized, NoVersion, CertificateAlerts
  <2>3. CASE verdict = "unenrolled" /\ h
    BY <1>2, <2>3 DEF WhyEnded, Closes, Close, Unauthorized, NoVersion
  <2>4. CASE verdict = "welcome" /\ h
    BY <1>2, <2>4 DEF WhyEnded, Closes, Close, Unauthorized, NoVersion, Aged
  <2>5. CASE ~h /\ verdict # "unversioned"
    BY <1>2, <2>5 DEF WhyEnded, Closes, Close, Unauthorized, NoVersion
  <2> QED BY <2>1, <2>2, <2>3, <2>4, <2>5
<1> QED BY <1>1, <1>2

(* Closed, and not yet told. *)
LEMMA ClosedGood ==
  ASSUME NEW c, NEW f, Good(c, f), c.closing = <<>>, NEW close \in {Own, Idle} \cup Closes(c.handshook)
  PROVE  Good([c EXCEPT !.closing = <<close>>], f)
<1> DEFINE d == [c EXCEPT !.closing = <<close>>]
<1>1. close \in CloseSet /\ c \in ConnSet /\ c.failure = None
  <2>1. c \in ConnSet /\ c.failure = None
    BY DEF Good, Types, Lawful
  <2>2. c.handshook \in BOOLEAN
    BY <2>1 DEF ConnSet
  <2> QED BY <2>1, <2>2, ClosesAre
<1>2. <<close>> \in Seq(CloseSet) /\ <<close>> # <<>> /\ <<close>>[1] = close
  BY <1>1
<1>3. /\ d \in ConnSet /\ d.confirmed = c.confirmed /\ d.handshook = c.handshook /\ d.version = c.version
      /\ d.ready = c.ready
      /\ d.failure = c.failure /\ d.closing = <<close>> /\ d.calls = c.calls /\ d.arrived = c.arrived
      /\ d.finished = c.finished /\ d.resets = c.resets
  BY <1>1, <1>2 DEF ConnSet
<1> HIDE DEF d
<1>4. Lawful(d) /\ Opened(d, f)
  BY <1>1, <1>2, <1>3 DEF Good, Lawful, Opened, None
<1>5. Types(d, f) /\ Tabled(d, f)
  BY <1>1, <1>2, <1>3, ScalarsKeepTables DEF Good
<1> QED BY <1>4, <1>5 DEF Good, d

Told(c, f, why) ==
  [s \in DOMAIN f |-> IF s \in DOMAIN c.calls /\ f[s] = Pending THEN <<"failed", why>> ELSE f[s]]

(* Ended, and every waiting call told. *)
LEMMA EndedGood ==
  ASSUME NEW c, NEW f, Good(c, f), c.closing # <<>>, NEW d \in ConnSet,
         d.failure = IF c.failure = None THEN WhyEnded(c.handshook, c.closing[1]) ELSE c.failure,
         d.ready, d.calls = <<>>,
         d.handshook = c.handshook, d.confirmed = c.confirmed, d.version = c.version,
         d.closing = c.closing, d.arrived = c.arrived, d.finished = c.finished, d.resets = c.resets
  PROVE  Good(d, Told(c, f, d.failure)) /\ Len(Told(c, f, d.failure)) = Len(f)
<1> DEFINE why == WhyEnded(c.handshook, c.closing[1])
           g   == Told(c, f, d.failure)
<1>1. /\ c \in ConnSet /\ f \in Seq(Future) /\ c.handshook \in BOOLEAN /\ c.failure \in {None} \cup Failures
      /\ Types(c, f) /\ Tabled(c, f) /\ Lawful(c) /\ Opened(c, f)
  BY DEF Good, Types, ConnSet
<1>2. c.failure = None =>
        /\ why \in {"protocol", "refused", "unenrolled", "lost"}
        /\ why = "unenrolled" => verdict = "unenrolled"
        /\ why = "refused"    => verdict = "untrusted"
        /\ why = "protocol"   => verdict = "unversioned"
        /\ why = "lost" /\ c.handshook => c.closing[1] \in {Own, Idle} \/ verdict = "welcome"
  <2>1. SUFFICES ASSUME c.failure = None
                 PROVE  /\ why \in {"protocol", "refused", "unenrolled", "lost"}
                        /\ why = "unenrolled" => verdict = "unenrolled"
                        /\ why = "refused"    => verdict = "untrusted"
                        /\ why = "protocol"   => verdict = "unversioned"
                        /\ why = "lost" /\ c.handshook => c.closing[1] \in {Own, Idle} \/ verdict = "welcome"
    OBVIOUS
  <2>2. c.closing[1] \in {Own, Idle} \cup Closes(c.handshook)
    BY <1>1 DEF Lawful
  <2>3. c.handshook => verdict \in {"untrusted", "unenrolled", "welcome"}
    BY <1>1, <2>1 DEF Lawful
  <2> QED BY <1>1, <2>2, <2>3, WhyEndedLawful
<1> HIDE DEF why
<1>3. d.failure = (IF c.failure = None THEN why ELSE c.failure) /\ d.failure \in Failures
  BY <1>1, <1>2 DEF why, Failures, Trust
<1>4. d.failure # None
  BY <1>3 DEF Failures, Trust, None
<1>5. Lawful(d)
  BY <1>1, <1>2, <1>3, <1>4 DEF Lawful, None
<1>6. g \in Seq(Future) /\ Len(g) = Len(f) /\ DOMAIN g = DOMAIN f
  <2>1. ASSUME NEW s \in DOMAIN f PROVE g[s] \in Future
    <3>1. s \in 1 .. Len(f)
      BY <1>1, LenProperties
    <3>2. f[s] \in Future
      BY <1>1, <3>1, ElementOfSeq
    <3>3. <<"failed", d.failure>> \in Future
      BY <1>3 DEF Future
    <3> QED BY <3>2, <3>3 DEF Told
  <2>2. g \in [DOMAIN f -> Future]
    BY <2>1 DEF Told
  <2> HIDE DEF g
  <2> QED BY <1>1, <2>2, SameLength
<1>7. \A s \in DOMAIN f :
        /\ g[s] # Pending
        /\ g[s] = f[s] \/ (g[s] = <<"failed", d.failure>> /\ f[s] = Pending)
  BY <1>1, FutureKinds DEF Told, Tabled
<1> HIDE DEF g
<1>8. Opened(d, g)
  <2>1. g # <<>> => f # <<>>
    BY <1>1, <1>6, EmptySeq
  <2> QED BY <1>1, <2>1 DEF Opened
<1>9. Types(d, g)
  BY <1>1, <1>6 DEF Types
<1>10. Tabled(d, g)
  <2>1. ASSUME NEW s \in DOMAIN g
        PROVE  /\ d.arrived[s] <= length[s]
               /\ g[s][1] = "reply" => g[s][2] = Chunks(s, 0, length[s]) /\ length[s] <= MaxFrame
               /\ g[s][1] = "failed" /\ s \in d.finished => length[s] > MaxFrame
    <3>1. CASE g[s] = f[s]
      BY <1>1, <1>6, <3>1 DEF Tabled
    <3>2. CASE g[s] = <<"failed", d.failure>> /\ f[s] = Pending
      BY <1>1, <1>6, <3>2, FutureKinds DEF Tabled
    <3> QED BY <1>6, <1>7, <3>1, <3>2
  <2>2. \A s \in DOMAIN g : g[s] # Pending
    BY <1>6, <1>7
  <2>3. DOMAIN d.calls = {}
    OBVIOUS
  <2> QED BY <2>1, <2>2, <2>3 DEF Tabled
<1> QED BY <1>5, <1>6, <1>8, <1>9, <1>10 DEF Good, g
-----------------------------------------------------------------------------
(* A datagram. *)

IsSt(st) == st = St(st.conn, st.futures)

LEMMA EveryState ==
  ASSUME NEW c, NEW f
  PROVE  /\ IsSt(St(c, f)) /\ St(c, f).conn = c /\ St(c, f).futures = f
         /\ \A d : IsSt([St(c, f) EXCEPT !.conn = d])
         /\ \A d, g : IsSt([conn |-> d, futures |-> g])
BY DEF IsSt, St

(* A callback changes the connection and the futures, and nothing else.    *)
LEMMA CallbacksKeepShape ==
  ASSUME NEW c, NEW f, NEW frame, frame.kind \in {"handshake", "done", "data", "reset", "close"}
  PROVE  IsSt(Heard(St(c, f), frame))
<1> DEFINE st == St(c, f)
<1>1. /\ \A d : IsSt([st EXCEPT !.conn = d])
      /\ \A d, g : IsSt([conn |-> d, futures |-> g])
  BY EveryState
<1>2. CASE frame.kind = "handshake"
  <2>1. IsSt(HandshakeCompleted(st, frame))
    <3> DEFINE heard == [st EXCEPT !.conn.handshook = TRUE]
    <3>1. \A d : IsSt([heard EXCEPT !.conn = d])
      <4>1. IsSt(heard)
        <5>1. heard = [st EXCEPT !.conn = [c EXCEPT !.handshook = TRUE]]
          BY DEF St
        <5> HIDE DEF heard
        <5> QED BY <1>1, <5>1
      <4> HIDE DEF heard
      <4>2. heard = St(heard.conn, heard.futures)
        BY <4>1 DEF IsSt
      <4> QED BY <4>2, EveryState
    <3>2. CASE frame.cert # "pinned"
      BY <3>1, <3>2 DEF HandshakeCompleted, Refuse
    <3>3. CASE frame.cert = "pinned" /\ frame.alpn \notin Versions
      BY <3>1, <3>3 DEF HandshakeCompleted, Refuse
    <3>4. CASE frame.cert = "pinned" /\ frame.alpn \in Versions
      BY <3>4 DEF HandshakeCompleted, IsSt, St
    <3> QED BY <3>2, <3>3, <3>4
  <2> QED BY <1>2, <2>1 DEF Heard
<1>3. CASE frame.kind = "done"
  BY <1>3 DEF Heard, IsSt, St
<1>4. CASE frame.kind = "data"
  <2>1. IsSt(StreamDataReceived(st, frame))
    BY DEF StreamDataReceived, FailCall, IsSt, St
  <2> QED BY <1>4, <2>1 DEF Heard
<1>5. CASE frame.kind = "reset"
  BY <1>5 DEF Heard, FailCall, IsSt, St
<1>6. CASE frame.kind = "close"
  BY <1>6 DEF Heard, IsSt, St
<1> QED BY <1>2, <1>3, <1>4, <1>5, <1>6

(* One event. *)
LEMMA HeardGood ==
  ASSUME verdict \in Verdicts, NEW c, NEW f, Good(c, f), Len(f) = Len(futures), NEW frame \in Frames(c)
  PROVE  LET h == Heard(St(c, f), frame)
         IN  Good(h.conn, h.futures) /\ Len(h.futures) = Len(futures) /\ IsSt(h)
<1> DEFINE h == Heard(St(c, f), frame)
<1>1. /\ c.closing = <<>> /\ f \in Seq(Future) /\ c \in ConnSet /\ c.handshook \in BOOLEAN
      /\ DOMAIN f = Streams /\ c.arrived \in Seq(Nat) /\ Len(c.arrived) = Len(f)
      /\ length \in Seq(ReplyLengths) /\ Len(length) = Len(f)
  <2>1. /\ c.closing = <<>> /\ f \in Seq(Future) /\ c \in ConnSet /\ Len(c.arrived) = Len(f)
        /\ length \in Seq(ReplyLengths) /\ Len(length) = Len(f)
    BY DEF Good, Types, Frames
  <2>2. DOMAIN f = 1 .. Len(f)
    BY <2>1, LenProperties
  <2> QED BY <2>1, <2>2 DEF ConnSet, Streams
<1>2. \/ ~c.handshook /\ frame \in Handshakes
      \/ c.handshook /\ Confirms /\ frame = Frame("done")
      \/ \E s \in Streams \ (c.finished \cup c.resets) : frame \in Pieces(c, s)
      \/ \E s \in Streams \ (c.finished \cup c.resets) : frame = [kind |-> "reset", stream |-> s]
      \/ \E close \in Closes(c.handshook) : frame = [kind |-> "close", close |-> close]
  <2> DEFINE data  == UNION {Pieces(c, s) : s \in Streams \ (c.finished \cup c.resets)}
             reset == {[kind |-> "reset", stream |-> s] : s \in Streams \ (c.finished \cup c.resets)}
             close == {[kind |-> "close", close |-> k] : k \in Closes(c.handshook)}
             shake == IF c.handshook THEN {} ELSE Handshakes
             done  == IF c.handshook /\ Confirms /\ ~c.confirmed THEN {Frame("done")} ELSE {}
  <2>1. frame \in shake \cup done \cup data \cup reset \cup close
    BY <1>1 DEF Frames
  <2>2. frame \in data => \E s \in Streams \ (c.finished \cup c.resets) : frame \in Pieces(c, s)
    OBVIOUS
  <2>3. frame \in reset =>
          \E s \in Streams \ (c.finished \cup c.resets) : frame = [kind |-> "reset", stream |-> s]
    OBVIOUS
  <2>4. frame \in close => \E k \in Closes(c.handshook) : frame = [kind |-> "close", close |-> k]
    OBVIOUS
  <2>5. /\ frame \in shake => ~c.handshook /\ frame \in Handshakes
        /\ frame \in done => c.handshook /\ Confirms /\ frame = Frame("done")
    OBVIOUS
  <2> HIDE DEF data, reset, close, shake, done
  <2> QED BY <2>1, <2>2, <2>3, <2>4, <2>5
<1>3. CASE ~c.handshook /\ frame \in Handshakes
  <2>1. frame.kind = "handshake"
    BY <1>3 DEF Handshakes
  <2>2. h = HandshakeCompleted(St(c, f), frame)
    BY <2>1 DEF Heard
  <2>3. Good(HandshakeCompleted(St(c, f), frame).conn, HandshakeCompleted(St(c, f), frame).futures)
    BY <1>1, <1>3, HandshakeGood
  <2>4. HandshakeCompleted(St(c, f), frame).futures = f
    BY DEF HandshakeCompleted, Refuse, St
  <2> QED BY <2>1, <2>2, <2>3, <2>4, CallbacksKeepShape
<1>4. CASE c.handshook /\ Confirms /\ frame = Frame("done")
  <2>1. frame.kind = "done"
    BY <1>4 DEF Frame
  <2>2. h.conn = [c EXCEPT !.confirmed = TRUE] /\ h.futures = f
    BY <2>1 DEF Heard, St
  <2> QED BY <1>4, <2>1, <2>2, ConfirmGood, CallbacksKeepShape
<1>5. ASSUME NEW s \in Streams \ (c.finished \cup c.resets), frame \in Pieces(c, s)
      PROVE  Good(h.conn, h.futures) /\ Len(h.futures) = Len(futures) /\ IsSt(h)
  <2>0. c.arrived[s] \in Nat /\ length[s] \in Nat /\ c.arrived[s] <= length[s]
        /\ s \in DOMAIN f /\ s \notin c.resets
    <3>1. s \in 1 .. Len(c.arrived) /\ s \in 1 .. Len(length)
      BY <1>1 DEF Streams
    <3>2. c.arrived[s] \in Nat /\ length[s] \in ReplyLengths
      BY <1>1, <3>1, ElementOfSeq
    <3>3. length[s] \in Nat
      BY <3>2, ConnectionAssumption
    <3>4. s \in DOMAIN f /\ c.arrived[s] <= length[s]
      BY <1>1 DEF Good, Tabled
    <3> QED BY <3>2, <3>3, <3>4
  <2>1. PICK n \in Nat : /\ frame.kind = "data" /\ frame.stream = s /\ frame.upTo = n
                          /\ c.arrived[s] <= n /\ n <= length[s] /\ (frame.fin => n = length[s])
    <3>1. CASE frame = [kind |-> "data", stream |-> s, upTo |-> length[s], fin |-> TRUE]
      BY <2>0, <3>1
    <3>2. CASE \E n \in (c.arrived[s] + 1) .. length[s] :
                 frame = [kind |-> "data", stream |-> s, upTo |-> n, fin |-> FALSE]
      BY <2>0, <3>2
    <3> QED BY <1>5, <3>1, <3>2 DEF Pieces
  <2>2. h = StreamDataReceived(St(c, f), frame)
    BY <2>1 DEF Heard
  <2>4. Good(StreamDataReceived(St(c, f), frame).conn, StreamDataReceived(St(c, f), frame).futures)
        /\ Len(StreamDataReceived(St(c, f), frame).futures) = Len(f)
    BY <1>1, <2>0, <2>1, DataGood
  <2> QED BY <2>1, <2>2, <2>4, CallbacksKeepShape
<1>6. ASSUME NEW s \in Streams \ (c.finished \cup c.resets), frame = [kind |-> "reset", stream |-> s]
      PROVE  Good(h.conn, h.futures) /\ Len(h.futures) = Len(futures) /\ IsSt(h)
  <2>1. frame.kind = "reset" /\ frame.stream = s /\ s \in DOMAIN f /\ s \notin c.finished
    BY <1>1, <1>6
  <2>2. h = [FailCall(St(c, f), s, "lost") EXCEPT !.conn.resets = @ \cup {s}]
    BY <2>1 DEF Heard
  <2> DEFINE r == [FailCall(St(c, f), s, "lost") EXCEPT !.conn.resets = @ \cup {s}]
  <2>3. Good(r.conn, r.futures) /\ Len(r.futures) = Len(f)
    BY <2>1, ResetGood
  <2>4. IsSt(h)
    BY <2>1, CallbacksKeepShape
  <2> QED BY <2>2, <2>3, <2>4
<1>7. ASSUME NEW close \in Closes(c.handshook), frame = [kind |-> "close", close |-> close]
      PROVE  Good(h.conn, h.futures) /\ Len(h.futures) = Len(futures) /\ IsSt(h)
  <2>1. frame.kind = "close" /\ frame.close = close
    BY <1>7
  <2>2. h.conn = [c EXCEPT !.closing = <<close>>] /\ h.futures = f
    BY <2>1 DEF Heard, St
  <2> QED BY <1>1, <2>1, <2>2, ClosedGood, CallbacksKeepShape
<1> QED BY <1>2, <1>3, <1>4, <1>5, <1>6, <1>7

(* What is left in the connection once its events are heard. *)
LEMMA JudgeGood ==
  ASSUME NEW st, IsSt(st), Good(st.conn, st.futures)
  PROVE  LET j == Judge(st) IN Good(j.conn, j.futures) /\ Len(j.futures) = Len(st.futures)
<1> DEFINE c == st.conn
           f == st.futures
           j == Judge(st)
<1>1. st = [conn |-> c, futures |-> f] /\ c \in ConnSet /\ c.closing \in Seq(CloseSet)
  BY DEF IsSt, St, Good, Types, ConnSet
<1> HIDE DEF c, f, j
<1>2. CASE c.closing # <<>> /\ c.failure = None
  <2> DEFINE d == j.conn
  <2>1. j = Terminated(st, c.closing[1])
    BY <1>2 DEF Judge, c, j
  <2>2. WhyEnded(c.handshook, c.closing[1]) \in Failures /\ <<>> \in Table
    <3>1. <<>> \in [{} -> Seq(Chunk)]
      OBVIOUS
    <3>2. /\ c.handshook \in BOOLEAN /\ c.closing[1] \in {Own, Idle} \cup Closes(c.handshook)
          /\ c.handshook => verdict \in {"untrusted", "unenrolled", "welcome"}
      BY <1>1, <1>2 DEF Good, Lawful, ConnSet, c
    <3> QED BY <3>1, <3>2, WhyEndedLawful DEF Table, Failures, Trust
  <2>3. /\ d \in ConnSet /\ d.failure = WhyEnded(c.handshook, c.closing[1]) /\ d.ready /\ d.calls = <<>>
        /\ d.handshook = c.handshook /\ d.confirmed = c.confirmed /\ d.version = c.version
        /\ d.closing = c.closing /\ d.arrived = c.arrived /\ d.finished = c.finished /\ d.resets = c.resets
        /\ j.futures = Told(c, f, d.failure)
    BY <1>1, <1>2, <2>1, <2>2 DEF Terminated, ConnSet, Told, c, f
  <2> HIDE DEF d
  <2> QED BY <1>2, <2>3, EndedGood DEF c, d, f, j
<1>3. CASE ~(c.closing # <<>> /\ c.failure = None) /\ c.handshook /\ c.failure = None /\ c.confirmed
  <2> DEFINE d == j.conn
  <2>1. j = [st EXCEPT !.conn.ready = TRUE]
    BY <1>3 DEF Judge, c, j
  <2>2. /\ d \in ConnSet /\ d.ready /\ d.failure = c.failure /\ d.calls = c.calls
        /\ d.handshook = c.handshook /\ d.confirmed = c.confirmed /\ d.version = c.version
        /\ d.closing = c.closing /\ d.arrived = c.arrived /\ d.finished = c.finished /\ d.resets = c.resets
        /\ j.futures = f
    BY <1>1, <2>1 DEF ConnSet
  <2> HIDE DEF d
  <2>3. Lawful(d) /\ Opened(d, f)
    BY <1>3, <2>2 DEF Good, Lawful, Opened, c, f
  <2>4. Types(d, f) /\ Tabled(d, f)
    BY <2>2, ScalarsKeepTables DEF Good, c, f
  <2> QED BY <2>2, <2>3, <2>4 DEF Good, d, f, j
<1>4. CASE /\ ~(c.closing # <<>> /\ c.failure = None)
           /\ ~(c.handshook /\ c.failure = None /\ c.confirmed)
  BY <1>4 DEF Judge, c, f, j
<1> QED BY <1>2, <1>3, <1>4 DEF j, f
-----------------------------------------------------------------------------
(* The steps. *)

LEMMA StateIs == State = St(conn, futures) /\ State.conn = conn /\ State.futures = futures
BY DEF State, St

(* The parts of the invariant, of what the connection becomes. *)
LEMMA SameDoor ==
  ASSUME UNCHANGED <<verdict, length, dial>>, Good(conn', futures'), Len(futures') = Len(futures), IInv
  PROVE  IInv'
<1>1. Types(conn', futures') => Types(conn, futures)'
  BY DEF Types
<1>2. Lawful(conn') => Lawful(conn)'
  <2>1. Closes(conn.handshook)' = Closes(conn'.handshook) /\ Confirms' = Confirms
    BY DEF Closes, Confirms
  <2> QED BY <2>1 DEF Lawful
<1>3. Opened(conn', futures') => Opened(conn, futures)'
  BY DEF Opened, Confirms
<1>4. Tabled(conn', futures') => Tabled(conn, futures)'
  BY DEF Tabled
<1> QED BY <1>1, <1>2, <1>3, <1>4 DEF IInv, Good

LEMMA DatagramKeeps == IInv /\ Datagram => IInv'
<1> SUFFICES ASSUME IInv, Datagram PROVE IInv'
  OBVIOUS
<1>1. PICK frames \in Datagrams : Becomes(Received(frames))
  BY DEF Datagram
<1> DEFINE st == HeardAll(State, frames)
<1>2. IsSt(st) /\ Good(st.conn, st.futures) /\ Len(st.futures) = Len(futures)
  <2>1. CASE \E frame \in Frames(conn) : frames = <<frame>>
    <3>1. PICK frame \in Frames(conn) : frames = <<frame>>
      BY <2>1
    <3>2. st = Heard(St(conn, futures), frame)
      <4>1. Len(frames) = 1 /\ frames[1] = frame
        BY <3>1
      <4> QED BY <4>1, StateIs DEF HeardAll
    <3> HIDE DEF st
    <3> QED BY <3>2, HeardGood DEF IInv
  <2>2. CASE \E frame \in Frames(conn) : \E next \in Frames(Heard(State, frame).conn) : frames = <<frame, next>>
    <3>1. PICK frame \in Frames(conn) : \E next \in Frames(Heard(State, frame).conn) : frames = <<frame, next>>
      BY <2>2
    <3>2. PICK next \in Frames(Heard(State, frame).conn) : frames = <<frame, next>>
      BY <3>1
    <3> DEFINE h == Heard(State, frame)
               c == h.conn
               f == h.futures
    <3>3. Good(c, f) /\ Len(f) = Len(futures) /\ IsSt(h)
      BY StateIs, HeardGood DEF IInv
    <3>4. st = Heard(h, next)
      <4>1. Len(frames) # 1 /\ frames[1] = frame /\ frames[2] = next
        BY <3>2
      <4> QED BY <4>1 DEF HeardAll
    <3>5. h = St(c, f) /\ next \in Frames(c)
      BY <3>2, <3>3 DEF IsSt
    <3> HIDE DEF h, c, f, st
    <3> QED BY <3>3, <3>4, <3>5, HeardGood DEF IInv
  <2> QED BY <2>1, <2>2 DEF Datagrams
<1> HIDE DEF st
<1>3. Good(Judge(st).conn, Judge(st).futures) /\ Len(Judge(st).futures) = Len(futures)
  BY <1>2, JudgeGood
<1>4. conn' = Judge(st).conn /\ futures' = Judge(st).futures
  BY <1>1 DEF Becomes, Received, st
<1>5. UNCHANGED <<verdict, length, dial>>
  BY DEF Datagram
<1> QED BY <1>3, <1>4, <1>5, SameDoor

LEMMA StrayDatagramKeeps == IInv /\ StrayDatagram => IInv'
<1> SUFFICES ASSUME IInv, StrayDatagram PROVE IInv'
  OBVIOUS
<1>1. IsSt(State) /\ Good(State.conn, State.futures)
  BY StateIs DEF IInv, IsSt
<1>2. Good(Judge(State).conn, Judge(State).futures) /\ Len(Judge(State).futures) = Len(futures)
  BY <1>1, StateIs, JudgeGood
<1>3. conn' = Judge(State).conn /\ futures' = Judge(State).futures /\ UNCHANGED <<verdict, length, dial>>
  BY DEF StrayDatagram, Becomes
<1> QED BY <1>2, <1>3, SameDoor

LEMMA DrainedKeeps == IInv /\ Drained => IInv'
<1> SUFFICES ASSUME IInv, Drained PROVE IInv'
  OBVIOUS
<1>1. conn \in ConnSet /\ Good(conn, futures) /\ conn.closing # <<>>
  BY DEF IInv, Good, Types, Drained
<1>2. conn.failure = None => WhyEnded(conn.handshook, conn.closing[1]) \in Failures
  <2>1. ASSUME conn.failure = None
        PROVE  /\ conn.handshook \in BOOLEAN /\ conn.closing[1] \in {Own, Idle} \cup Closes(conn.handshook)
               /\ conn.handshook => verdict \in {"untrusted", "unenrolled", "welcome"}
    BY <1>1, <2>1 DEF Good, Lawful, ConnSet
  <2> QED BY <2>1, WhyEndedLawful DEF Failures, Trust
<1>3. <<>> \in Table
  <2>1. <<>> \in [{} -> Seq(Chunk)]
    OBVIOUS
  <2> QED BY <2>1 DEF Table
<1>4. /\ conn' = [Terminated(State, conn.closing[1]) EXCEPT !.conn.over = TRUE].conn
      /\ futures' = [Terminated(State, conn.closing[1]) EXCEPT !.conn.over = TRUE].futures
      /\ UNCHANGED <<verdict, length, dial>>
  BY DEF Drained, Becomes
<1>5. /\ conn' \in ConnSet
      /\ conn'.failure = IF conn.failure = None THEN WhyEnded(conn.handshook, conn.closing[1]) ELSE conn.failure
      /\ conn'.ready /\ conn'.calls = <<>>
      /\ conn'.handshook = conn.handshook /\ conn'.confirmed = conn.confirmed /\ conn'.version = conn.version
      /\ conn'.closing = conn.closing /\ conn'.arrived = conn.arrived /\ conn'.finished = conn.finished
      /\ conn'.resets = conn.resets
      /\ futures' = Told(conn, futures, conn'.failure)
  BY <1>1, <1>2, <1>3, <1>4, StateIs DEF Terminated, ConnSet, Told
<1>6. Good(conn', Told(conn, futures, conn'.failure)) /\ Len(Told(conn, futures, conn'.failure)) = Len(futures)
  BY <1>1, <1>5, EndedGood
<1> QED BY <1>4, <1>5, <1>6, SameDoor

LEMMA HearsNothingKeeps == IInv /\ HearsNothing => IInv'
<1> SUFFICES ASSUME IInv, HearsNothing PROVE IInv'
  OBVIOUS
<1> DEFINE c == [conn EXCEPT !.closing = <<Idle>>]
<1>1. conn \in ConnSet /\ Good(conn, futures) /\ conn.closing = <<>> /\ conn.failure = None
  BY DEF IInv, Good, Types, Lawful, HearsNothing
<1>2. Good(c, futures)
  BY <1>1, ClosedGood
<1>3. /\ c.closing = <<Idle>> /\ c.failure = None /\ c.calls = conn.calls /\ c.handshook = conn.handshook
      /\ c.confirmed = conn.confirmed /\ c.version = conn.version /\ c.arrived = conn.arrived
      /\ c.finished = conn.finished /\ c.resets = conn.resets
  BY <1>1 DEF ConnSet
<1>4. WhyEnded(conn.handshook, Idle) = "lost"
  BY DEF WhyEnded, Idle, Close
<1>5. <<>> \in Table /\ <<Idle>> \in Seq(CloseSet) /\ <<Idle>> # <<>> /\ <<Idle>>[1] = Idle
  <2>1. <<>> \in [{} -> Seq(Chunk)]
    OBVIOUS
  <2>2. <<>> \in Table
    BY <2>1 DEF Table
  <2>3. Idle \in CloseSet
    BY ClosesAre
  <2> QED BY <2>2, <2>3
<1>6. /\ conn' = [Terminated(State, Idle) EXCEPT !.conn.over = TRUE, !.conn.closing = <<Idle>>].conn
      /\ futures' = [Terminated(State, Idle) EXCEPT !.conn.over = TRUE, !.conn.closing = <<Idle>>].futures
      /\ UNCHANGED <<verdict, length, dial>>
  BY DEF HearsNothing, Becomes
<1> HIDE DEF c
<1>7. /\ conn' \in ConnSet /\ conn'.failure = "lost" /\ conn'.ready /\ conn'.calls = <<>>
      /\ conn'.handshook = conn.handshook /\ conn'.confirmed = conn.confirmed /\ conn'.version = conn.version
      /\ conn'.closing = <<Idle>> /\ conn'.arrived = conn.arrived /\ conn'.finished = conn.finished
      /\ conn'.resets = conn.resets
  BY <1>1, <1>4, <1>5, <1>6, StateIs, ZenonT(60) DEF Terminated, ConnSet, Failures
<1>8. futures' = Told(c, futures, "lost")
  BY <1>1, <1>3, <1>4, <1>6, StateIs DEF Terminated, Told
<1>9. Good(conn', Told(c, futures, conn'.failure)) /\ Len(Told(c, futures, conn'.failure)) = Len(futures)
  BY <1>2, <1>3, <1>4, <1>5, <1>7, EndedGood
<1> QED BY <1>6, <1>7, <1>8, <1>9, SameDoor

(* The client's own close. *)
LEMMA ShutGood ==
  ASSUME NEW c, NEW f, Good(c, f)
  PROVE  Good(Shut(c), f) /\ Shut(c).version = c.version
<1>1. CASE c.closing = <<>>
  <2>1. Good([c EXCEPT !.closing = <<Own>>], f)
    BY <1>1, ClosedGood
  <2>2. [c EXCEPT !.closing = <<Own>>].version = c.version
    BY DEF Good, Types, ConnSet
  <2> QED BY <1>1, <2>1, <2>2 DEF Shut
<1>2. CASE c.closing # <<>>
  BY <1>2 DEF Shut
<1> QED BY <1>1, <1>2

LEMMA NewDial ==
  ASSUME IInv, UNCHANGED <<verdict, length, futures>>, Good(conn', futures),
         dial' \in {"waiting", "up", "failed", "dropped"}, Opened(conn, futures)'
  PROVE  IInv'
<1>1. Types(conn, futures)'
  BY DEF Good, Types
<1>2. Lawful(conn)'
  <2>1. Closes(conn.handshook)' = Closes(conn'.handshook) /\ Confirms' = Confirms
    BY DEF Closes, Confirms
  <2> QED BY <2>1 DEF Good, Lawful
<1>3. Tabled(conn, futures)'
  BY DEF Good, Tabled
<1> QED BY <1>1, <1>2, <1>3 DEF IInv, Good

LEMMA DialedKeeps == IInv /\ Dialed => IInv'
<1> SUFFICES ASSUME IInv, Dialed PROVE IInv'
  OBVIOUS
<1>1. dial = "waiting" /\ conn.ready /\ UNCHANGED <<verdict, length, futures>> /\ Good(conn, futures)
      /\ futures = <<>>
  BY DEF IInv, Dialed, Good, Opened
<1>2. CASE conn.failure = None
  <2>1. dial' = "up" /\ conn' = conn
    BY <1>2 DEF Dialed
  <2>2. conn.version \in Versions /\ Confirms
    BY <1>1, <1>2 DEF Good, Lawful
  <2>3. Opened(conn, futures)'
    BY <1>1, <2>1, <2>2 DEF Opened, Confirms
  <2> QED BY <1>1, <2>1, <2>3, NewDial
<1>3. CASE conn.failure # None
  <2>1. dial' = "failed" /\ conn' = Shut(conn)
    BY <1>3 DEF Dialed
  <2>2. Good(conn', futures)
    BY <1>1, <2>1, ShutGood
  <2>3. Opened(conn, futures)'
    BY <1>1, <2>1 DEF Opened
  <2> QED BY <1>1, <2>1, <2>2, <2>3, NewDial
<1> QED BY <1>2, <1>3

LEMMA DialTimesOutKeeps == IInv /\ DialTimesOut => IInv'
<1> SUFFICES ASSUME IInv, DialTimesOut PROVE IInv'
  OBVIOUS
<1>1. /\ dial = "waiting" /\ dial' = "failed" /\ conn' = Shut(conn)
      /\ UNCHANGED <<verdict, length, futures>> /\ Good(conn, futures)
  BY DEF IInv, DialTimesOut
<1>2. Good(conn', futures)
  BY <1>1, ShutGood
<1>3. Opened(conn, futures)'
  BY <1>1 DEF Good, Opened
<1> QED BY <1>1, <1>2, <1>3, NewDial

LEMMA DropKeeps == IInv /\ Drop => IInv'
<1> SUFFICES ASSUME IInv, Drop PROVE IInv'
  OBVIOUS
<1>1. /\ dial = "up" /\ dial' = "dropped" /\ conn' = Shut(conn)
      /\ UNCHANGED <<verdict, length, futures>> /\ Good(conn, futures)
  BY DEF IInv, Drop
<1>2. Good(conn', futures) /\ conn'.version = conn.version
  BY <1>1, ShutGood
<1>3. Opened(conn, futures)'
  BY <1>1, <1>2 DEF Good, Opened, Confirms
<1> QED BY <1>1, <1>2, <1>3, NewDial

LEMMA WaitTimesOutKeeps == ASSUME IInv, NEW s \in Streams, WaitTimesOut(s) PROVE IInv'
<1> DEFINE v == <<"timed out">>
           g == [futures EXCEPT ![s] = v]
<1>1. /\ futures[s] = Pending /\ futures' = g /\ conn' = [conn EXCEPT !.calls = Without(@, s)]
      /\ UNCHANGED <<verdict, length, dial>>
      /\ Good(conn, futures) /\ conn \in ConnSet /\ futures \in Seq(Future) /\ conn.calls \in Table
  BY DEF WaitTimesOut, IInv, Good, Types, ConnSet
<1>2. s \in DOMAIN futures
  BY <1>1, LenProperties DEF Streams
<1>3. v \in Future /\ v # Pending /\ v[1] # "reply" /\ v[1] # "failed"
  BY FutureKinds DEF Future
<1>4. /\ conn' \in ConnSet /\ conn'.calls = Without(conn.calls, s)
      /\ conn'.handshook = conn.handshook /\ conn'.confirmed = conn.confirmed /\ conn'.ready = conn.ready
      /\ conn'.version = conn.version /\ conn'.failure = conn.failure /\ conn'.closing = conn.closing
      /\ conn'.arrived = conn.arrived /\ conn'.finished = conn.finished /\ conn'.resets = conn.resets
  <2>1. Without(conn.calls, s) \in Table
    BY <1>1, FewerCalls
  <2> QED BY <1>1, <2>1 DEF ConnSet
<1>5. Types(conn, futures) /\ Tabled(conn, futures) /\ Len(conn.arrived) = Len(futures)
      /\ conn.arrived[s] <= length[s]
  BY <1>1, <1>2 DEF Good, Types, Tabled
<1> HIDE DEF v
<1>6. Types(conn', g) /\ Tabled(conn', g) /\ g \in Seq(Future) /\ Len(g) = Len(futures)
  BY <1>2, <1>3, <1>4, <1>5, SettledGood
<1> HIDE DEF g
<1>7. Lawful(conn') /\ Opened(conn', g)
  BY <1>1, <1>4, <1>6, CallsKeepScalars DEF Good
<1>8. Good(conn', futures')
  BY <1>1, <1>6, <1>7 DEF Good
<1> QED BY <1>1, <1>6, <1>8, SameDoor

LEMMA CallerCancelledKeeps == ASSUME IInv, NEW s \in Streams, CallerCancelled(s) PROVE IInv'
<1> DEFINE g == [futures EXCEPT ![s] = <<"cancelled">>]
<1>1. /\ futures[s] = Pending /\ futures' = g /\ UNCHANGED <<verdict, length, dial, conn>>
      /\ Good(conn, futures) /\ futures \in Seq(Future)
  BY DEF CallerCancelled, IInv, Good, Types
<1>2. s \in DOMAIN futures
  BY <1>1, LenProperties DEF Streams
<1>3. g \in Seq(Future) /\ Len(g) = Len(futures) /\ DOMAIN g = DOMAIN futures
  <2>1. g \in [DOMAIN futures -> Future]
    <3>1. <<"cancelled">> \in Future /\ futures \in [DOMAIN futures -> Future]
      BY <1>1, LenProperties DEF Future
    <3> QED BY <1>2, <3>1
  <2> HIDE DEF g
  <2> QED BY <1>1, <2>1, SameLength
<1>4. g[s] = <<"cancelled">> /\ \A t \in DOMAIN futures \ {s} : g[t] = futures[t]
  BY <1>1, <1>2
<1>5. g[s] # Pending /\ g[s][1] # "reply" /\ g[s][1] # "failed"
  <2> HIDE DEF g
  <2> QED BY <1>4, FutureKinds
<1> HIDE DEF g
<1>6. Types(conn, g) /\ Opened(conn, g)
  <2>1. g # <<>> => futures # <<>>
    BY <1>1, <1>3, EmptySeq
  <2> QED BY <1>1, <1>3, <2>1 DEF Good, Types, Opened
<1>7. Tabled(conn, g)
  <2>1. ASSUME NEW t \in DOMAIN conn.calls
        PROVE  /\ g[t] \in {Pending, <<"cancelled">>}
               /\ conn.calls[t] = Chunks(t, 0, conn.arrived[t]) /\ conn.arrived[t] <= MaxFrame
    <3>1. t \in DOMAIN futures
      BY <1>1 DEF Good, Types
    <3> QED BY <1>1, <1>4, <3>1 DEF Good, Tabled
  <2>2. ASSUME NEW t \in DOMAIN g
        PROVE  /\ g[t] = Pending => t \in DOMAIN conn.calls
               /\ conn.arrived[t] <= length[t]
               /\ t \in conn.finished => g[t] # Pending
               /\ g[t][1] = "reply" => g[t][2] = Chunks(t, 0, length[t]) /\ length[t] <= MaxFrame
               /\ g[t][1] = "failed" => conn.closing # <<>> \/ t \in conn.resets \/ length[t] > MaxFrame
               /\ g[t][1] = "failed" /\ t \in conn.finished => length[t] > MaxFrame
    <3>1. CASE t = s
      BY <1>1, <1>2, <1>5, <3>1 DEF Good, Tabled
    <3>2. CASE t # s
      BY <1>1, <1>3, <1>4, <3>2 DEF Good, Tabled
    <3> QED BY <3>1, <3>2
  <2> QED BY <1>1, <2>1, <2>2 DEF Good, Tabled
<1>8. Good(conn', futures')
  BY <1>1, <1>6, <1>7 DEF Good
<1> QED BY <1>1, <1>3, <1>8, SameDoor

LEMMA SendCallKeeps == IInv /\ SendCall => IInv'
<1> SUFFICES ASSUME IInv, SendCall PROVE IInv'
  OBVIOUS
<1> DEFINE new == Len(futures) + 1
           g == Append(futures, Pending)
<1>1. /\ dial = "up" /\ conn.failure = None /\ Len(futures) < MaxCalls
      /\ futures' = g /\ UNCHANGED <<verdict, dial>>
      /\ conn' = [conn EXCEPT !.calls = With(@, new), !.arrived = Append(@, 0)]
      /\ Good(conn, futures) /\ conn \in ConnSet /\ futures \in Seq(Future)
      /\ length \in Seq(ReplyLengths) /\ Len(length) = Len(futures)
      /\ conn.arrived \in Seq(Nat) /\ Len(conn.arrived) = Len(futures)
      /\ conn.calls \in Table
      /\ DOMAIN conn.calls \subseteq DOMAIN futures /\ conn.finished \subseteq DOMAIN futures
      /\ conn.resets \subseteq DOMAIN futures
  BY DEF SendCall, IInv, Good, Types, ConnSet
<1>2. PICK n \in ReplyLengths : length' = Append(length, n)
  BY DEF SendCall
<1>3. /\ Len(futures) \in Nat /\ DOMAIN futures = 1 .. Len(futures) /\ new \in Nat /\ new \notin DOMAIN futures
      /\ n \in Nat /\ MaxFrame \in Nat
  BY <1>1, LenProperties, ConnectionAssumption
<1>4. /\ g \in Seq(Future) /\ Len(g) = new /\ DOMAIN g = DOMAIN futures \cup {new}
      /\ g[new] = Pending /\ \A s \in DOMAIN futures : g[s] = futures[s]
  <2>1. Pending \in Future
    BY DEF Future
  <2>2. g \in Seq(Future) /\ Len(g) = new /\ g[new] = Pending /\ \A s \in 1 .. Len(futures) : g[s] = futures[s]
    BY <1>1, <2>1, AppendProperties
  <2>3. DOMAIN g = 1 .. new
    BY <2>2, LenProperties
  <2> QED BY <1>3, <2>2, <2>3
<1>5. /\ length' \in Seq(ReplyLengths) /\ Len(length') = new
      /\ length'[new] = n /\ \A s \in DOMAIN futures : length'[s] = length[s]
  BY <1>1, <1>2, <1>3, AppendProperties
<1> DEFINE a == Append(conn.arrived, 0)
           k == With(conn.calls, new)
<1>6. /\ a \in Seq(Nat) /\ Len(a) = new /\ a[new] = 0 /\ \A s \in DOMAIN futures : a[s] = conn.arrived[s]
  BY <1>1, <1>3, AppendProperties
<1>7. /\ k \in Table /\ DOMAIN k = DOMAIN conn.calls \cup {new}
      /\ k[new] = <<>> /\ \A s \in DOMAIN conn.calls : k[s] = conn.calls[s]
  <2>1. PICK D \in SUBSET Nat : conn.calls \in [D -> Seq(Chunk)]
    BY <1>1 DEF Table
  <2>2. new \notin D
    BY <1>1, <1>3, <2>1
  <2>3. k = [x \in D \cup {new} |-> IF x = new THEN <<>> ELSE conn.calls[x]]
    BY <2>1 DEF With
  <2>4. k \in [{new} \cup D -> Seq(Chunk)]
    <3> HIDE DEF k, new
    <3>1. <<>> \in Seq(Chunk) /\ D \cup {new} = {new} \cup D
      OBVIOUS
    <3> QED BY <2>1, <2>3, <3>1
  <2>5. {new} \cup D \in SUBSET Nat
    BY <1>3
  <2> HIDE DEF k
  <2>6. k \in Table
    BY <2>4, <2>5 DEF Table
  <2> QED BY <2>1, <2>2, <2>3, <2>6
<1> HIDE DEF a, k
<1>8. /\ conn' \in ConnSet /\ conn'.calls = k /\ conn'.arrived = a
      /\ conn'.handshook = conn.handshook /\ conn'.confirmed = conn.confirmed /\ conn'.ready = conn.ready
      /\ conn'.version = conn.version /\ conn'.failure = conn.failure /\ conn'.closing = conn.closing
      /\ conn'.finished = conn.finished /\ conn'.resets = conn.resets
  BY <1>1, <1>6, <1>7 DEF ConnSet, a, k
<1>9. Chunks(new, 0, 0) = <<>>
  <2>1. Chunks(new, 0, 0) \in Seq(Chunk) /\ Len(Chunks(new, 0, 0)) = 0
    BY <1>3, ChunksWhole
  <2> QED BY <2>1, EmptySeq
<1> HIDE DEF g, new
<1>10. Types(conn, futures)'
  BY <1>1, <1>4, <1>5, <1>6, <1>7, <1>8 DEF Types
<1>11. Lawful(conn)'
  <2>1. Closes(conn.handshook)' = Closes(conn.handshook) /\ Confirms' = Confirms
    BY <1>1, <1>8 DEF Closes, Confirms
  <2> QED BY <1>1, <1>8, <2>1 DEF Good, Lawful
<1>12. Opened(conn, futures)'
  BY <1>1, <1>8 DEF Good, Opened, Confirms
<1>13. Tabled(conn, futures)'
  <2>1. ASSUME NEW s \in DOMAIN k
        PROVE  /\ g[s] \in {Pending, <<"cancelled">>}
               /\ k[s] = Chunks(s, 0, a[s]) /\ a[s] <= MaxFrame
    <3>1. CASE s = new
      BY <1>3, <1>4, <1>6, <1>7, <1>9, <3>1
    <3>2. CASE s # new
      <4>1. s \in DOMAIN conn.calls /\ s \in DOMAIN futures
        BY <1>1, <1>7, <3>2
      <4> QED BY <1>1, <1>4, <1>6, <1>7, <4>1 DEF Good, Tabled
    <3> QED BY <3>1, <3>2
  <2>2. ASSUME NEW s \in DOMAIN g
        PROVE  /\ g[s] = Pending => s \in DOMAIN k
               /\ a[s] <= length'[s]
               /\ s \in conn.finished => g[s] # Pending
               /\ g[s][1] = "reply" => g[s][2] = Chunks(s, 0, length'[s]) /\ length'[s] <= MaxFrame
               /\ g[s][1] = "failed" => conn.closing # <<>> \/ s \in conn.resets \/ length'[s] > MaxFrame
               /\ g[s][1] = "failed" /\ s \in conn.finished => length'[s] > MaxFrame
    <3>1. CASE s = new
      <4>1. g[s] = Pending /\ g[s][1] # "reply" /\ g[s][1] # "failed"
        BY <1>4, <3>1, FutureKinds
      <4>2. s \in DOMAIN k /\ a[s] = 0 /\ length'[s] = n /\ s \notin conn.finished
        BY <1>1, <1>3, <1>5, <1>6, <1>7, <3>1
      <4> QED BY <1>3, <4>1, <4>2
    <3>2. CASE s # new
      <4>1. s \in DOMAIN futures
        BY <1>4, <3>2
      <4> QED BY <1>1, <1>4, <1>5, <1>6, <1>7, <4>1, SMTT(30) DEF Good, Tabled
    <3> QED BY <3>1, <3>2
  <2> QED BY <1>1, <1>8, <2>1, <2>2 DEF Tabled, g
<1>14. Len(futures') <= MaxCalls
  <2>1. Len(futures') = Len(futures) + 1 /\ MaxCalls \in Nat
    BY <1>1, <1>4, ConnectionAssumption DEF new
  <2> QED BY <1>1, <1>3, <2>1
<1> QED BY <1>1, <1>10, <1>11, <1>12, <1>13, <1>14 DEF IInv, Good

-----------------------------------------------------------------------------
(* The invariant. *)

LEMMA Initially == Init => IInv
<1> SUFFICES ASSUME Init PROVE IInv
  OBVIOUS
<1>1. <<>> \in Table
  <2>1. <<>> \in [{} -> Seq(Chunk)]
    OBVIOUS
  <2> QED BY <2>1 DEF Table
<1>2. /\ conn \in ConnSet /\ conn.closing = <<>> /\ conn.failure = None /\ ~conn.handshook /\ ~conn.confirmed
      /\ ~conn.ready /\ conn.version = 0 /\ conn.calls = <<>> /\ conn.arrived = <<>>
      /\ conn.finished = {} /\ conn.resets = {}
      /\ futures = <<>> /\ length = <<>> /\ dial = "waiting"
  BY <1>1 DEF Init, ConnSet
<1>3. Types(conn, futures) /\ Tabled(conn, futures) /\ Opened(conn, futures)
  BY <1>2 DEF Types, Tabled, Opened
<1>4. Lawful(conn)
  BY <1>2, ConnectionAssumption DEF Lawful, None
<1>5. Len(futures) <= MaxCalls /\ verdict \in Verdicts
  BY <1>2, ConnectionAssumption DEF Init
<1> QED BY <1>2, <1>3, <1>4, <1>5 DEF IInv, Good

LEMMA Inductive == IInv /\ [Next]_vars => IInv'
<1> SUFFICES ASSUME IInv, [Next]_vars PROVE IInv'
  OBVIOUS
<1>1. CASE UNCHANGED vars
  <2>1. conn' = conn /\ futures' = futures /\ UNCHANGED <<verdict, length, dial>>
    BY <1>1 DEF vars
  <2>2. Good(conn', futures') /\ Len(futures') = Len(futures)
    BY <2>1 DEF IInv
  <2> QED BY <2>1, <2>2, SameDoor
<1>2. CASE \E s \in Streams : WaitTimesOut(s) \/ CallerCancelled(s)
  BY <1>2, WaitTimesOutKeeps, CallerCancelledKeeps
<1> QED BY <1>1, <1>2, DatagramKeeps, StrayDatagramKeeps, DrainedKeeps, HearsNothingKeeps, DialedKeeps,
           DialTimesOutKeeps, SendCallKeeps, DropKeeps DEF Next

THEOREM Invariance == Spec => []IInv
BY Initially, Inductive, PTL DEF Spec

(* Whatever the door does, a reply is never torn, mixed with another's, or  *)
(* longer than a frame may be (quic_event_received).                       *)
THEOREM WholeReplies == Spec => []RepliesWhole
<1>1. IInv => RepliesWhole
  <2> SUFFICES ASSUME IInv, NEW s \in Streams, futures[s][1] = "reply"
               PROVE  futures[s][2] = Chunks(s, 0, length[s]) /\ length[s] <= MaxFrame
    BY DEF RepliesWhole
  <2>1. s \in DOMAIN futures
    BY LenProperties DEF IInv, Good, Types, Streams
  <2> QED BY <2>1 DEF IInv, Good, Tabled
<1> QED BY <1>1, Invariance, PTL

(* A reply that came to its end is not lost to the close of the connection  *)
(* it came on (datagram_received).                                         *)
THEOREM ReplyFirst == Spec => []ReplyBeatsClose
<1>1. IInv => ReplyBeatsClose
  <2> SUFFICES ASSUME IInv, NEW s \in Streams, s \in conn.finished, length[s] <= MaxFrame
               PROVE  futures[s][1] # "failed"
    BY DEF ReplyBeatsClose
  <2>1. s \in DOMAIN futures /\ length[s] \in Nat /\ MaxFrame \in Nat
    <3>1. s \in 1 .. Len(futures) /\ s \in 1 .. Len(length) /\ length \in Seq(ReplyLengths)
          /\ futures \in Seq(Future)
      BY DEF IInv, Good, Types, Streams
    <3>2. length[s] \in ReplyLengths /\ DOMAIN futures = 1 .. Len(futures)
      BY <3>1, ElementOfSeq, LenProperties
    <3> QED BY <3>1, <3>2, ConnectionAssumption
  <2> QED BY <2>1 DEF IInv, Good, Tabled
<1> QED BY <1>1, Invariance, PTL

(* Nothing is sent to a door that was not found to be the pinned one, of a  *)
(* version of the client's, and to have accepted it (wait_ready).          *)
THEOREM OnlyTheTrustedHear == Spec => []StrangersHearNothing
<1>1. IInv => StrangersHearNothing
  <2> SUFFICES ASSUME IInv, Streams # {}
               PROVE  verdict \in {"unenrolled", "welcome"} /\ conn.version \in Versions
    BY DEF StrangersHearNothing
  <2>1. futures # <<>>
    BY DEF Streams
  <2> QED BY <2>1 DEF IInv, Good, Opened, Confirms
<1> QED BY <1>1, Invariance, PTL

(* The table of calls holds what is awaited, and what its caller gave up by *)
(* being cancelled, within one frame each (_calls, cancel_call).           *)
THEOREM LeftoversAreBounded == Spec => []LeftoversBounded
<1>1. IInv => LeftoversBounded
  <2> SUFFICES ASSUME IInv PROVE LeftoversBounded
    OBVIOUS
  <2>1. futures \in Seq(Future) /\ DOMAIN futures = Streams /\ DOMAIN conn.calls \subseteq DOMAIN futures
        /\ conn.arrived \in Seq(Nat) /\ Len(conn.arrived) = Len(futures)
    <3>1. futures \in Seq(Future) /\ DOMAIN conn.calls \subseteq DOMAIN futures
          /\ conn.arrived \in Seq(Nat) /\ Len(conn.arrived) = Len(futures)
      BY DEF IInv, Good, Types, ConnSet
    <3> QED BY <3>1, LenProperties DEF Streams
  <2>2. ASSUME NEW s \in DOMAIN conn.calls
        PROVE  futures[s] \in {Pending, <<"cancelled">>} /\ Len(conn.calls[s]) <= MaxFrame
    <3>1. /\ futures[s] \in {Pending, <<"cancelled">>}
          /\ conn.calls[s] = Chunks(s, 0, conn.arrived[s]) /\ conn.arrived[s] <= MaxFrame
      BY DEF IInv, Good, Tabled
    <3>2. s \in Nat /\ conn.arrived[s] \in Nat
      <4>1. s \in 1 .. Len(conn.arrived)
        BY <2>1 DEF Streams
      <4> QED BY <2>1, <4>1, ElementOfSeq
    <3>3. Len(Chunks(s, 0, conn.arrived[s])) = conn.arrived[s]
      BY <3>2, ChunksWhole
    <3> QED BY <3>1, <3>3
  <2>3. \A s \in Streams : futures[s] = Pending => s \in DOMAIN conn.calls
    BY <2>1 DEF IInv, Good, Tabled
  <2>4. conn.failure # None => conn.calls = <<>>
    BY DEF IInv, Good, Tabled
  <2> QED BY <2>2, <2>3, <2>4 DEF LeftoversBounded
<1> QED BY <1>1, Invariance, PTL

(* The end of a connection is called what it was (_why_ended).             *)
THEOREM RefusalsAreNamed == Spec => []RefusalsNamed
<1>1. IInv => RefusalsNamed
  BY DEF IInv, Good, Lawful, RefusalsNamed
<1> QED BY <1>1, Invariance, PTL

(* Why a connection cannot carry calls is settled once: a refusal of trust  *)
(* is not made a connection lost by the close that follows (_terminated).  *)
THEOREM ReasonStands == Spec => FirstReasonStands
<1>1. IInv /\ [Next]_vars => [conn.failure # None => conn'.failure = conn.failure]_vars
  <2> SUFFICES ASSUME IInv, Next, conn.failure # None PROVE conn'.failure = conn.failure
    OBVIOUS
  <2>1. conn \in ConnSet /\ conn.closing # <<>>
    BY DEF IInv, Good, Types, Lawful
  <2>2. ASSUME Datagram PROVE FALSE
    <3>1. Frames(conn) = {}
      BY <2>1 DEF Frames
    <3> QED BY <2>2, <3>1 DEF Datagram, Datagrams
  <2>3. CASE StrayDatagram
    BY <2>1, <2>3, StateIs DEF StrayDatagram, Becomes, Judge
  <2>4. CASE Drained
    <3>1. conn' = [Terminated(State, conn.closing[1]) EXCEPT !.conn.over = TRUE].conn
      BY <2>4 DEF Drained, Becomes
    <3> QED BY <2>1, <3>1, StateIs DEF Terminated, ConnSet
  <2>5. ASSUME HearsNothing PROVE FALSE
    BY <2>1, <2>5 DEF HearsNothing
  <2>6. Shut(conn).failure = conn.failure
    BY <2>1 DEF Shut, ConnSet
  <2>7. CASE Dialed \/ DialTimesOut \/ Drop
    BY <2>6, <2>7 DEF Dialed, DialTimesOut, Drop
  <2>8. ASSUME SendCall PROVE FALSE
    BY <2>8 DEF SendCall
  <2>9. ASSUME NEW s \in Streams, WaitTimesOut(s) \/ CallerCancelled(s) PROVE conn'.failure = conn.failure
    BY <2>1, <2>9 DEF WaitTimesOut, CallerCancelled, ConnSet
  <2> QED BY <2>2, <2>3, <2>4, <2>5, <2>7, <2>8, <2>9 DEF Next
<1> QED BY <1>1, Invariance, PTL DEF Spec, FirstReasonStands

(* The types of the state. *)
THEOREM TypeCorrect == Spec => []TypeOK
<1>1. IInv => TypeOK
  <2> SUFFICES ASSUME IInv PROVE TypeOK
    OBVIOUS
  <2>1. /\ conn \in ConnSet /\ futures \in Seq(Future) /\ length \in Seq(ReplyLengths) /\ Len(length) = Len(futures)
        /\ conn.arrived \in Seq(Nat) /\ Len(conn.arrived) = Len(futures)
        /\ DOMAIN futures = Streams /\ DOMAIN conn.arrived = Streams
        /\ DOMAIN conn.calls \subseteq Streams /\ conn.finished \subseteq Streams /\ conn.resets \subseteq Streams
    <3>1. /\ conn \in ConnSet /\ futures \in Seq(Future) /\ length \in Seq(ReplyLengths) /\ Len(length) = Len(futures)
          /\ conn.arrived \in Seq(Nat) /\ Len(conn.arrived) = Len(futures)
          /\ DOMAIN conn.calls \subseteq DOMAIN futures /\ conn.finished \subseteq DOMAIN futures
          /\ conn.resets \subseteq DOMAIN futures
      BY DEF IInv, Good, Types, ConnSet
    <3> QED BY <3>1, LenProperties DEF Streams
  <2>2. ASSUME NEW s \in Streams
        PROVE  \/ futures[s] \in {Pending, <<"timed out">>, <<"cancelled">>}
               \/ futures[s][1] = "failed" /\ futures[s][2] \in Failures
               \/ futures[s][1] = "reply"
    <3>1. futures[s] \in Future
      BY <2>1, ElementOfSeq DEF Streams
    <3>2. CASE \E e \in Failures : futures[s] = <<"failed", e>>
      BY <3>2, FutureKinds, ZenonT(60)
    <3>3. CASE \E r \in Seq(Chunk) : futures[s] = <<"reply", r>>
      BY <3>3, FutureKinds
    <3> QED BY <3>1, <3>2, <3>3 DEF Future
  <2>3. [f \in Fields |-> conn[f]] \in ConnType
    BY <2>1 DEF ConnType, ConnSet, Fields, CloseSet
  <2> QED BY <2>1, <2>2, <2>3 DEF TypeOK, IInv
<1> QED BY <1>1, Invariance, PTL
=============================================================================
