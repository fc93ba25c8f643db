---------------------------- MODULE ExchangeProofs ----------------------------
(***************************************************************************)
(* Proofs about Exchange, for every door, intent, failure, result and pair *)
(* of versions, and every codec that keeps what it is given                *)
(* (CodecAssumption).                                                      *)
(***************************************************************************)
EXTENDS Exchange, CheckProofs

Byte == 0 .. 255

-----------------------------------------------------------------------------
(* Frames. *)

\* The four bytes of a length give the length back.
LEMMA LengthKept ==
  ASSUME NEW n \in Nat, n <= MaxLength
  PROVE  /\ BigEndian(n) \in Seq(Byte) /\ Len(BigEndian(n)) = 4
         /\ FromBigEndian(BigEndian(n)) = n
<1>1. n \div 16777216 \in Byte /\ (n \div 65536) % 256 \in Byte /\ (n \div 256) % 256 \in Byte
      /\ n % 256 \in Byte
  BY SMT DEF Byte, MaxLength
<1>2. FromBigEndian(BigEndian(n)) = n
  BY SMT DEF BigEndian, FromBigEndian, MaxLength
<1> QED BY <1>1, <1>2, SMT DEF BigEndian

\* Either of two sequences put together can be cut off again.
LEMMA CutTwo ==
  ASSUME NEW S, NEW s \in Seq(S), NEW t \in Seq(S)
  PROVE  /\ SubSeq(s \o t, 1, Len(s)) = s
         /\ SubSeq(s \o t, Len(s) + 1, Len(s \o t)) = t
<1>1. SubSeq(s \o t, 1, Len(s)) = s
  BY SubSeqOfConcat1, SubSeqFull
<1>2. SubSeq(s \o t, Len(s) + 1, Len(s) + Len(t)) = t
  BY SubSeqOfConcat2, SubSeqFull
<1> QED BY <1>1, <1>2

\* So can each of three.
LEMMA CutThree ==
  ASSUME NEW S, NEW b \in Seq(S), NEW p \in Seq(S), NEW r \in Seq(S)
  PROVE  /\ (b \o p) \o r \in Seq(S)
         /\ Len((b \o p) \o r) = Len(b) + Len(p) + Len(r)
         /\ SubSeq((b \o p) \o r, 1, Len(b)) = b
         /\ SubSeq((b \o p) \o r, Len(b) + 1, Len(b) + Len(p)) = p
         /\ SubSeq((b \o p) \o r, Len(b) + Len(p) + 1, Len((b \o p) \o r)) = r
<1>1. b \o p \in Seq(S) /\ Len(b \o p) = Len(b) + Len(p)
  BY Joined
<1>2. (b \o p) \o r \in Seq(S) /\ Len((b \o p) \o r) = Len(b \o p) + Len(r)
  BY <1>1, Joined
<1>3. SubSeq((b \o p) \o r, Len(b \o p) + 1, Len((b \o p) \o r)) = r
  BY <1>1, CutTwo
<1>4. (b \o p) \o r = b \o (p \o r) /\ p \o r \in Seq(S) /\ Len(p \o r) = Len(p) + Len(r)
  BY Joined, ConcatAssociative
<1>5. SubSeq((b \o p) \o r, 1, Len(b)) = b
  BY <1>4, CutTwo
<1>6. SubSeq((b \o p) \o r, 1, Len(b \o p)) = b \o p
  BY <1>1, CutTwo
<1>7. SubSeq((b \o p) \o r, Len(b) + 1, Len(b) + Len(p)) = p
  <2>1. SubSeq((b \o p) \o r, Len(b) + 1, Len(b) + Len(p))
        = SubSeq(b \o p, Len(b) + 1, Len(b) + Len(p))
    BY <1>1, <1>2, <1>6, Joined
  <2> QED BY <2>1, <1>1, CutTwo
<1> QED BY <1>1, <1>2, <1>3, <1>5, <1>7
\* A frame is read as it was written, and what follows it is left.
LEMMA FrameKept ==
  ASSUME NEW p \in Seq(Byte), Len(p) <= MaxLength, NEW r \in Seq(Byte)
  PROVE  /\ Frame(p) \in Seq(Byte) /\ Frame(p) \o r \in Seq(Byte)
         /\ ReadFrame(Frame(p) \o r) = {<<p, r>>}
<1>1. PICK b \in Seq(Byte) : b = BigEndian(Len(p)) /\ Len(b) = 4 /\ FromBigEndian(b) = Len(p)
  BY LengthKept
<1> HIDE DEF Byte
<1>2. /\ (b \o p) \o r \in Seq(Byte) /\ Len((b \o p) \o r) = Len(b) + Len(p) + Len(r)
      /\ SubSeq((b \o p) \o r, 1, Len(b)) = b
      /\ SubSeq((b \o p) \o r, Len(b) + 1, Len(b) + Len(p)) = p
      /\ SubSeq((b \o p) \o r, Len(b) + Len(p) + 1, Len((b \o p) \o r)) = r
  BY CutThree
<1>3. PICK s : s = (b \o p) \o r
  OBVIOUS
<1>4. ReadFrame(s) = {<<p, r>>}
  <2>1. SubSeq(s, 1, 4) = b /\ Len(s) = 4 + Len(p) + Len(r) /\ Len(p) \in Nat /\ Len(r) \in Nat
    BY <1>1, <1>2, <1>3
  <2>2. SubSeq(s, 5, 4 + Len(p)) = p /\ SubSeq(s, 4 + Len(p) + 1, Len(s)) = r
    <3>1. Len(b) + 1 = 5 /\ Len(b) + Len(p) = 4 + Len(p)
      BY <1>1
    <3>2. SubSeq(s, Len(b) + 1, Len(b) + Len(p)) = p
      BY <1>2, <1>3
    <3>3. SubSeq(s, Len(b) + Len(p) + 1, Len(s)) = r
      BY <1>2, <1>3
    <3> QED BY <3>1, <3>2, <3>3
  <2>3. 4 + FromBigEndian(SubSeq(s, 1, 4)) = 4 + Len(p)
    BY <2>1, <1>1
  <2>4. ~(Len(s) < 4 \/ Len(s) < 4 + Len(p))
    BY <2>1
  <2> QED BY <2>2, <2>3, <2>4 DEF ReadFrame
<1>5. b \o p \in Seq(Byte)
  BY Joined
<1> QED BY <1>1, <1>2, <1>3, <1>4, <1>5 DEF Frame

LEMMA NoFrame == ReadFrame(<<>>) = {}
BY DEF ReadFrame

LEMMA BytesAssociate ==
  ASSUME NEW s \in Seq(Byte), NEW t \in Seq(Byte), NEW u \in Seq(Byte)
  PROVE  (s \o t) \o u = s \o (t \o u)
BY ConcatAssociative

LEMMA FrameIsBytes ==
  ASSUME NEW p \in Seq(Byte), Len(p) <= MaxFrame
  PROVE  Frame(p) \in Seq(Byte)
<1>1. Len(p) <= MaxLength
  BY FrameAssumption, LenProperties, SMT DEF MaxLength
<1> QED BY <1>1, FrameKept, EmptySeq

(* What is left of a stream when the payloads lo + 1 .. hi are under way in *)
(* it, each in a frame of its own.                                          *)
Framed(stream, lo, hi, payloads) ==
  \E rest \in [lo .. hi -> Seq(Byte)] :
    /\ rest[lo] = stream /\ rest[hi] = <<>>
    /\ \A i \in (lo + 1) .. hi :
         /\ payloads[i] \in Seq(Byte) /\ Len(payloads[i]) <= MaxFrame
         /\ rest[i - 1] = Frame(payloads[i]) \o rest[i]

LEMMA NothingFramed ==
  ASSUME NEW lo \in Nat, NEW payloads
  PROVE  Framed(<<>>, lo, lo, payloads)
<1> DEFINE rest == [i \in lo .. lo |-> <<>>]
<1>1. rest \in [lo .. lo -> Seq(Byte)]
  BY EmptySeq
<1>2. rest[lo] = <<>> /\ (lo + 1) .. lo = {}
  OBVIOUS
<1> HIDE DEF rest
<1> QED BY <1>1, <1>2 DEF Framed

\* A frame more goes to the end of the stream.
LEMMA FrameAdded ==
  ASSUME NEW lo \in Nat, NEW hi \in Nat, lo <= hi, NEW stream, NEW old, NEW new,
         Framed(stream, lo, hi, old),
         \A i \in (lo + 1) .. hi : new[i] = old[i],
         new[hi + 1] \in Seq(Byte), Len(new[hi + 1]) <= MaxFrame
  PROVE  Framed(stream \o Frame(new[hi + 1]), lo, hi + 1, new)
<1>1. PICK rest \in [lo .. hi -> Seq(Byte)] :
        /\ rest[lo] = stream /\ rest[hi] = <<>>
        /\ \A i \in (lo + 1) .. hi :
             /\ old[i] \in Seq(Byte) /\ Len(old[i]) <= MaxFrame
             /\ rest[i - 1] = Frame(old[i]) \o rest[i]
  BY DEF Framed
<1>2. PICK last : last = Frame(new[hi + 1])
  OBVIOUS
<1>3. last \in Seq(Byte) /\ last = last \o <<>> /\ <<>> \o last = last /\ <<>> \in Seq(Byte)
  BY <1>2, FrameIsBytes, ConcatEmptySeq, EmptySeq
<1> DEFINE longer == [i \in lo .. (hi + 1) |-> IF i = hi + 1 THEN <<>> ELSE rest[i] \o last]
<1>4. longer \in [lo .. (hi + 1) -> Seq(Byte)]
  BY <1>1, <1>3, Joined
<1>5. longer[lo] = stream \o last /\ longer[hi + 1] = <<>> /\ longer[hi] = last
  BY <1>1, <1>3
<1>6. ASSUME NEW i \in (lo + 1) .. (hi + 1)
      PROVE  /\ new[i] \in Seq(Byte) /\ Len(new[i]) <= MaxFrame
             /\ longer[i - 1] = Frame(new[i]) \o longer[i]
  <2>1. CASE i = hi + 1
    <3>1. i - 1 = hi /\ new[i] = new[hi + 1]
      BY <2>1
    <3>2. longer[i - 1] = last /\ longer[i] = <<>>
      BY <2>1, <3>1, <1>5
    <3> HIDE DEF longer
    <3> QED BY <3>1, <3>2, <1>2, <1>3
  <2>2. CASE i # hi + 1
    <3>1. i \in (lo + 1) .. hi /\ i \in lo .. hi /\ i - 1 \in lo .. hi /\ i - 1 # hi + 1
      BY <2>2
    <3>2. new[i] \in Seq(Byte) /\ Len(new[i]) <= MaxFrame /\ rest[i - 1] = Frame(new[i]) \o rest[i]
      BY <3>1, <1>1
    <3>3. longer[i - 1] = rest[i - 1] \o last /\ longer[i] = rest[i] \o last
      BY <3>1, <2>2
    <3>4. Frame(new[i]) \in Seq(Byte) /\ rest[i] \in Seq(Byte)
      BY <3>1, <3>2, <1>1, FrameIsBytes
    <3>5. PICK f, r : f = Frame(new[i]) /\ r = rest[i]
      OBVIOUS
    <3>6. f \in Seq(Byte) /\ r \in Seq(Byte)
      BY <3>4, <3>5
    <3>7. (f \o r) \o last = f \o (r \o last)
      BY <3>6, <1>3, BytesAssociate
    <3> HIDE DEF longer
    <3> QED BY <3>2, <3>3, <3>5, <3>7
  <2> QED BY <2>1, <2>2
<1> HIDE DEF longer
<1> QED BY <1>2, <1>4, <1>5, <1>6 DEF Framed

\* What a reader finds: the first payload, or nothing.
LEMMA FirstFrame ==
  ASSUME NEW lo \in Nat, NEW hi \in Nat, lo <= hi, NEW stream, NEW payloads,
         Framed(stream, lo, hi, payloads)
  PROVE  /\ lo = hi => ReadFrame(stream) = {}
         /\ lo < hi =>
              /\ payloads[lo + 1] \in Seq(Byte)
              /\ \E left : /\ ReadFrame(stream) = {<<payloads[lo + 1], left>>}
                           /\ Framed(left, lo + 1, hi, payloads)
<1>1. PICK rest \in [lo .. hi -> Seq(Byte)] :
        /\ rest[lo] = stream /\ rest[hi] = <<>>
        /\ \A i \in (lo + 1) .. hi :
             /\ payloads[i] \in Seq(Byte) /\ Len(payloads[i]) <= MaxFrame
             /\ rest[i - 1] = Frame(payloads[i]) \o rest[i]
  BY DEF Framed
<1>2. CASE lo = hi
  BY <1>1, <1>2, NoFrame
<1>3. CASE lo < hi
  <2>1. lo + 1 \in (lo + 1) .. hi /\ lo + 1 \in lo .. hi /\ lo + 1 - 1 = lo
    BY <1>3
  <2>2. /\ payloads[lo + 1] \in Seq(Byte) /\ Len(payloads[lo + 1]) <= MaxFrame
        /\ rest[lo] = Frame(payloads[lo + 1]) \o rest[lo + 1]
        /\ rest[lo + 1] \in Seq(Byte)
    <3>1. PICK k : k = lo + 1
      OBVIOUS
    <3>2. k \in (lo + 1) .. hi /\ k \in lo .. hi /\ k - 1 = lo
      BY <2>1, <3>1
    <3>3. /\ payloads[k] \in Seq(Byte) /\ Len(payloads[k]) <= MaxFrame
          /\ rest[k - 1] = Frame(payloads[k]) \o rest[k] /\ rest[k] \in Seq(Byte)
      BY <3>2, <1>1
    <3> QED BY <3>1, <3>2, <3>3
  <2>3. Len(payloads[lo + 1]) <= MaxLength
    BY <2>2, FrameAssumption, LenProperties, SMT DEF MaxLength
  <2>4. ReadFrame(stream) = {<<payloads[lo + 1], rest[lo + 1]>>}
    BY <2>2, <2>3, <1>1, FrameKept
  <2>5. Framed(rest[lo + 1], lo + 1, hi, payloads)
    <3> DEFINE fewer == [i \in (lo + 1) .. hi |-> rest[i]]
    <3>1. fewer \in [(lo + 1) .. hi -> Seq(Byte)]
      BY <1>1
    <3>2. fewer[lo + 1] = rest[lo + 1] /\ fewer[hi] = <<>>
      BY <1>1, <1>3
    <3>3. ASSUME NEW i \in (lo + 2) .. hi
          PROVE  /\ payloads[i] \in Seq(Byte) /\ Len(payloads[i]) <= MaxFrame
                 /\ fewer[i - 1] = Frame(payloads[i]) \o fewer[i]
      <4>1. i \in (lo + 1) .. hi /\ i - 1 \in (lo + 1) .. hi
        OBVIOUS
      <4> QED BY <4>1, <1>1
    <3> HIDE DEF fewer
    <3>4. lo + 1 + 1 = lo + 2
      OBVIOUS
    <3> QED BY <3>1, <3>2, <3>3, <3>4 DEF Framed
  <2> QED BY <1>3, <2>2, <2>4, <2>5
<1> QED BY <1>2, <1>3
-----------------------------------------------------------------------------
(* Hellos. *)

LEMMA HelloKept ==
  ASSUME NEW v \in Versions, NEW m \in {0, 1}
  PROVE  LET bytes == EncodeHello(Hello(v, m))
         IN  /\ bytes \in Seq(Byte) /\ Len(bytes) <= MaxLength
             /\ DecodeHello(bytes) = {Hello(v, m)}
<1>1. v \in Nat /\ v <= MaxLength /\ v \in 7 .. 9
  BY SMT DEF Versions, OldestVersion, ProtocolVersion, MaxLength
<1>2. PICK b \in Seq(Byte) : b = BigEndian(v) /\ Len(b) = 4 /\ FromBigEndian(b) = v
  BY <1>1, LengthKept
<1>3. PICK s : s = HelloMagic
  OBVIOUS
<1>4. s \in Seq(Byte) /\ Len(s) = 4
  BY <1>3, SMT DEF HelloMagic, Byte
<1>5. PICK t : t = <<m>>
  OBVIOUS
<1>6. t \in Seq(Byte) /\ Len(t) = 1 /\ t[1] = m
  BY <1>5, SMT DEF Byte
<1>7. /\ (s \o b) \o t \in Seq(Byte) /\ Len((s \o b) \o t) = Len(s) + Len(b) + Len(t)
      /\ SubSeq((s \o b) \o t, 1, Len(s)) = s
      /\ SubSeq((s \o b) \o t, Len(s) + 1, Len(s) + Len(b)) = b
  <2> SUFFICES \A x, y, z \in Seq(Byte) :
        /\ (x \o y) \o z \in Seq(Byte) /\ Len((x \o y) \o z) = Len(x) + Len(y) + Len(z)
        /\ SubSeq((x \o y) \o z, 1, Len(x)) = x
        /\ SubSeq((x \o y) \o z, Len(x) + 1, Len(x) + Len(y)) = y
    BY <1>4, <1>6
  <2> QED BY CutThree
<1>8. s \o b \in Seq(Byte) /\ Len(s \o b) = Len(s) + Len(b)
  BY <1>4, Joined
<1>9. ((s \o b) \o t)[Len(s \o b) + 1] = t[1]
  <2>1. \A i \in 1 .. Len(t) : ((s \o b) \o t)[Len(s \o b) + i] = t[i]
    BY <1>6, <1>8, Joined
  <2>2. 1 \in 1 .. Len(t)
    BY <1>6
  <2> QED BY <2>1, <2>2
<1>10. PICK h : h = (s \o b) \o t
  OBVIOUS
<1>11. /\ h \in Seq(Byte) /\ Len(h) = 9 /\ SubSeq(h, 1, 4) = s /\ SubSeq(h, 5, 8) = b /\ h[9] = m
  <2>1. Len(s) = 4 /\ Len(b) = 4 /\ Len(s) + 1 = 5 /\ Len(s) + Len(b) = 8 /\ Len(s \o b) + 1 = 9
        /\ Len(s) + Len(b) + Len(t) = 9
    BY <1>2, <1>4, <1>6, <1>8
  <2> QED BY <2>1, <1>6, <1>7, <1>9, <1>10
<1>12. h = EncodeHello(Hello(v, m))
  BY <1>2, <1>3, <1>5, <1>10 DEF EncodeHello, Hello
<1>13. DecodeHello(h) = {Hello(v, m)}
  <2>1. ~(Len(h) < 8 \/ SubSeq(h, 1, 4) # HelloMagic)
    BY <1>3, <1>11
  <2>2. (IF Len(h) > 8 /\ h[9] = 1 THEN 1 ELSE 0) = m
    BY <1>11
  <2>3. FromBigEndian(SubSeq(h, 5, 8)) = v
    BY <1>2, <1>11
  <2> QED BY <2>1, <2>2, <2>3 DEF DecodeHello
<1>14. Len(h) <= MaxLength
  BY <1>11, SMT DEF MaxLength
<1> QED BY <1>11, <1>12, <1>13, <1>14

\* The hello the client sends, and the one it is answered with.
LEMMA HelloRead ==
  ASSUME NEW v \in Versions, NEW m \in {0, 1}
  PROVE  /\ Frame(EncodeHello(Hello(v, m))) \in Seq(Byte)
         /\ ReadFrame(Frame(EncodeHello(Hello(v, m)))) = {<<EncodeHello(Hello(v, m)), <<>>>>}
<1>1. PICK p : p = EncodeHello(Hello(v, m))
  OBVIOUS
<1>2. p \in Seq(Byte) /\ Len(p) <= MaxLength /\ <<>> \in Seq(Byte)
  BY <1>1, HelloKept, EmptySeq
<1>3. /\ Frame(p) \in Seq(Byte) /\ ReadFrame(Frame(p) \o <<>>) = {<<p, <<>>>>}
  BY <1>2, FrameKept
<1> QED BY <1>1, <1>3, ConcatEmptySeq
-----------------------------------------------------------------------------
(* Where texts lie in one another. *)

\* A text starts at a place of another when it is what is found from there on.
LEMMA StartsPointwise ==
  ASSUME NEW S, NEW t \in Seq(S), NEW T \in Seq(S), NEW k \in Nat \ {0}
  PROVE  StartsAt(t, T, k) <=> /\ k + Len(t) - 1 <= Len(T)
                               /\ \A i \in 1 .. Len(t) : T[k + i - 1] = t[i]
<1> SUFFICES ASSUME k + Len(t) - 1 <= Len(T)
             PROVE  SubSeq(T, k, k + Len(t) - 1) = t
                    <=> \A i \in 1 .. Len(t) : T[k + i - 1] = t[i]
  BY DEF StartsAt
<1>1. PICK n \in Nat : n = Len(t) /\ k + n - 1 \in Int
  BY LenProperties
<1>2. \A i \in k .. (k + n - 1) : T[i] \in S
  <2>1. \A i \in k .. (k + n - 1) : i \in 1 .. Len(T)
    BY <1>1, LenProperties
  <2> QED BY <2>1, ElementOfSeq
<1>3. PICK u : u = SubSeq(T, k, k + n - 1)
  OBVIOUS
<1>4. /\ u \in Seq(S)
      /\ Len(u) = IF k <= k + n - 1 THEN k + n - 1 - k + 1 ELSE 0
      /\ \A i \in 1 .. (k + n - 1 - k + 1) : u[i] = T[k + i - 1]
  <2>1. k \in Int
    OBVIOUS
  <2> QED BY <1>1, <1>2, <1>3, <2>1, SubSeqProperties
<1>5. Len(u) = n /\ \A i \in 1 .. n : u[i] = T[k + i - 1]
  <2>1. k + n - 1 - k + 1 = n /\ (IF k <= k + n - 1 THEN k + n - 1 - k + 1 ELSE 0) = n
    OBVIOUS
  <2> QED BY <1>4, <2>1
<1>6. (\A i \in 1 .. n : u[i] = t[i]) => u = t
  BY <1>1, <1>4, <1>5, SeqEqual
<1>7. u = t <=> \A i \in 1 .. n : T[k + i - 1] = t[i]
  BY <1>5, <1>6
<1> QED BY <1>1, <1>3, <1>7

\* Where the parts of a text lie in it: one after the other.
Cuts(s, T, p) ==
  /\ p \in [1 .. (Len(s) + 1) -> Nat \ {0}]
  /\ p[1] = 1 /\ p[Len(s) + 1] = Len(T) + 1
  /\ \A k \in 1 .. Len(s) : p[k + 1] = p[k] + Len(s[k]) /\ StartsAt(s[k], T, p[k])

\* Parts put together lie one after the other.
LEMMA PartsLie ==
  ASSUME NEW S, NEW s \in Seq(Seq(S))
  PROVE  FlattenSeq(s) \in Seq(S) /\ \E p : Cuts(s, FlattenSeq(s), p)
<1>1. CASE s = <<>>
  <2>1. Len(s) = 0 /\ Len(<<>>) = 0 /\ <<>> \in Seq(S)
    BY <1>1, EmptySeq
  <2>2. PICK p : p = [k \in 1 .. 1 |-> 1]
    OBVIOUS
  <2>3. Cuts(s, <<>>, p)
    BY <2>1, <2>2 DEF Cuts
  <2> QED BY <1>1, <2>1, <2>3, NothingFlattened
<1>2. CASE s # <<>>
  <2>1. PICK L \in Nat \ {0} : L = Len(s) /\ \A i \in 1 .. L : s[i] \in Seq(S)
    BY <1>2, EmptySeq
  <2>2. PICK T : T = FlattenSeq(s)
    OBVIOUS
  <2>3. PICK f \in [1 .. L -> Seq(S)] :
          /\ f[1] = s[1]
          /\ \A i \in 1 .. (L - 1) : f[i + 1] = f[i] \o s[i + 1]
          /\ T = f[L]
    BY <1>2, <2>1, <2>2, Flattened
  <2>4. T \in Seq(S)
    BY <2>1, <2>3
  <2>5. ASSUME NEW i \in 1 .. (L - 1)
        PROVE  /\ Len(f[i + 1]) = Len(f[i]) + Len(s[i + 1])
               /\ Len(f[i]) \in Nat /\ Len(s[i + 1]) \in Nat
               /\ \A j \in 1 .. Len(f[i]) : f[i + 1][j] = f[i][j]
               /\ \A j \in 1 .. Len(s[i + 1]) : f[i + 1][Len(f[i]) + j] = s[i + 1][j]
    <3>1. PICK u, v, w : u = f[i] /\ v = s[i + 1] /\ w = f[i + 1]
      OBVIOUS
    <3>2. u \in Seq(S) /\ v \in Seq(S) /\ w = u \o v
      <4>1. i \in 1 .. L /\ i + 1 \in 1 .. L
        OBVIOUS
      <4>2. f[i] \in Seq(S) /\ s[i + 1] \in Seq(S) /\ f[i + 1] = f[i] \o s[i + 1]
        BY <2>1, <2>3, <4>1
      <4> QED BY <3>1, <4>2
    <3>3. /\ Len(w) = Len(u) + Len(v) /\ Len(u) \in Nat /\ Len(v) \in Nat
          /\ \A j \in 1 .. (Len(u) + Len(v)) : w[j] = IF j <= Len(u) THEN u[j] ELSE v[j - Len(u)]
      BY <3>2, ConcatProperties, LenProperties
    <3>4. \A j \in 1 .. Len(u) : w[j] = u[j]
      BY <3>3
    <3>5. ASSUME NEW j \in 1 .. Len(v) PROVE w[Len(u) + j] = v[j]
      <4>1. /\ Len(u) + j \in 1 .. (Len(u) + Len(v)) /\ ~ (Len(u) + j <= Len(u))
            /\ Len(u) + j - Len(u) = j
        BY <3>3
      <4> QED BY <4>1, <3>3
    <3> QED BY <3>1, <3>3, <3>4, <3>5
  <2> DEFINE Q == {n \in Nat : /\ Len(f[L - n]) <= Len(T)
                               /\ \A j \in 1 .. Len(f[L - n]) : T[j] = f[L - n][j]}
  <2>6. \A k \in 1 .. L : /\ Len(f[k]) \in Nat /\ Len(f[k]) <= Len(T)
                          /\ \A j \in 1 .. Len(f[k]) : T[j] = f[k][j]
    <3>1. 0 \in Q
      <4>1. L - 0 = L /\ Len(T) \in Nat
        BY <2>4, LenProperties
      <4> QED BY <4>1, <2>3
    <3>2. ASSUME NEW n \in 0 .. ((L - 1) - 1), n \in Q PROVE n + 1 \in Q
      <4>1. PICK i \in 1 .. (L - 1) : i = L - (n + 1) /\ i + 1 = L - n
        OBVIOUS
      <4>2. Len(f[i + 1]) <= Len(T) /\ \A j \in 1 .. Len(f[i + 1]) : T[j] = f[i + 1][j]
        BY <3>2, <4>1
      <4>3. Len(T) \in Nat
        BY <2>4, LenProperties
      <4>4. Len(f[i]) <= Len(T) /\ \A j \in 1 .. Len(f[i]) : T[j] = f[i][j]
        <5>1. PICK a, b, c : a = Len(f[i]) /\ b = Len(s[i + 1]) /\ c = Len(f[i + 1])
          OBVIOUS
        <5>2. /\ a \in Nat /\ b \in Nat /\ c = a + b
              /\ \A j \in 1 .. a : f[i + 1][j] = f[i][j]
          BY <2>5, <5>1
        <5>3. c <= Len(T) /\ \A j \in 1 .. c : T[j] = f[i + 1][j]
          BY <4>2, <5>1
        <5>4. a <= Len(T) /\ \A j \in 1 .. a : j \in 1 .. c
          BY <4>3, <5>2, <5>3
        <5>5. \A j \in 1 .. a : T[j] = f[i][j]
          BY <5>2, <5>3, <5>4
        <5> QED BY <5>1, <5>4, <5>5
      <4>5. n + 1 \in Nat
        OBVIOUS
      <4> QED BY <4>1, <4>4, <4>5
    <3>3. L - 1 \in Nat
      OBVIOUS
    <3>4. \A n \in 0 .. (L - 1) : n \in Q
      <4> HIDE DEF Q
      <4> QED BY <3>1, <3>2, <3>3, UpTo
    <3>5. ASSUME NEW k \in 1 .. L
          PROVE  /\ Len(f[k]) \in Nat /\ Len(f[k]) <= Len(T)
                 /\ \A j \in 1 .. Len(f[k]) : T[j] = f[k][j]
      <4>1. PICK n \in 0 .. (L - 1) : n = L - k /\ L - n = k
        OBVIOUS
      <4>2. n \in Q
        BY <3>4
      <4>3. f[k] \in Seq(S)
        BY <2>3
      <4> QED BY <4>1, <4>2, <4>3, LenProperties
    <3> QED BY <3>5
  <2>7. PICK p : p = [k \in 1 .. (L + 1) |-> IF k = 1 THEN 1 ELSE Len(f[k - 1]) + 1]
    OBVIOUS
  <2>8. p \in [1 .. (L + 1) -> Nat \ {0}]
    <3>1. ASSUME NEW k \in 1 .. (L + 1), k # 1 PROVE Len(f[k - 1]) + 1 \in Nat \ {0}
      <4>1. k - 1 \in 1 .. L
        BY <3>1
      <4>2. Len(f[k - 1]) \in Nat
        BY <4>1, <2>6
      <4> QED BY <4>2
    <3> QED BY <2>7, <3>1
  <2>9. p[1] = 1 /\ p[L + 1] = Len(T) + 1
    <3>1. 1 \in 1 .. (L + 1) /\ L + 1 \in 1 .. (L + 1) /\ L + 1 # 1 /\ (L + 1) - 1 = L
      OBVIOUS
    <3> QED BY <2>3, <2>7, <3>1
  <2>10. ASSUME NEW k \in 1 .. L
         PROVE  p[k + 1] = p[k] + Len(s[k]) /\ StartsAt(s[k], T, p[k])
    <3>1. p[k + 1] = Len(f[k]) + 1 /\ p[k] \in Nat \ {0}
      <4>1. k \in 1 .. (L + 1) /\ k + 1 \in 1 .. (L + 1) /\ k + 1 # 1 /\ (k + 1) - 1 = k
        OBVIOUS
      <4> QED BY <2>7, <2>8, <4>1
    <3>2. PICK m \in Nat : m = Len(s[k]) /\ s[k] \in Seq(S)
      BY <2>1, LenProperties
    <3>3. CASE k = 1
      <4>1. p[k] = 1 /\ f[k] = s[k]
        BY <2>3, <2>9, <3>3
      <4>2. m <= Len(T) /\ \A j \in 1 .. m : T[j] = s[k][j]
        BY <2>6, <3>2, <4>1
      <4>3. 1 + m - 1 = m /\ \A j \in 1 .. m : 1 + j - 1 = j
        OBVIOUS
      <4>4. StartsAt(s[k], T, 1)
        <5>1. 1 \in Nat \ {0}
          OBVIOUS
        <5>2. /\ 1 + Len(s[k]) - 1 <= Len(T)
              /\ \A j \in 1 .. Len(s[k]) : T[1 + j - 1] = s[k][j]
          BY <3>2, <4>2, <4>3
        <5> QED BY <2>4, <3>2, <5>1, <5>2, StartsPointwise
      <4> QED BY <3>1, <3>2, <4>1, <4>4
    <3>4. CASE k # 1
      <4>1. PICK i \in 1 .. (L - 1) : i = k - 1 /\ i + 1 = k
        BY <3>4
      <4>2. p[k] = Len(f[i]) + 1
        BY <2>7, <3>4, <4>1
      <4>3. PICK h \in Nat : h = Len(f[i])
        BY <2>5
      <4>4. /\ Len(f[k]) = h + m
            /\ \A j \in 1 .. m : f[k][h + j] = s[k][j]
        <5>1. /\ Len(f[i + 1]) = Len(f[i]) + Len(s[i + 1])
              /\ \A j \in 1 .. Len(s[i + 1]) : f[i + 1][Len(f[i]) + j] = s[i + 1][j]
          BY <2>5
        <5> QED BY <5>1, <3>2, <4>1, <4>3
      <4>5. Len(T) \in Nat /\ h + m <= Len(T) /\ \A j \in 1 .. (h + m) : T[j] = f[k][j]
        BY <2>4, <2>6, <4>4, LenProperties
      <4>6. (h + 1) + m - 1 <= Len(T) /\ \A j \in 1 .. m : T[(h + 1) + j - 1] = s[k][j]
        <5>1. (h + 1) + m - 1 = h + m
          OBVIOUS
        <5>2. ASSUME NEW j \in 1 .. m PROVE T[(h + 1) + j - 1] = s[k][j]
          <6>1. (h + 1) + j - 1 = h + j /\ h + j \in 1 .. (h + m)
            OBVIOUS
          <6> QED BY <4>4, <4>5, <6>1
        <5> QED BY <4>5, <5>1, <5>2
      <4>7. StartsAt(s[k], T, h + 1)
        <5>1. h + 1 \in Nat \ {0}
          OBVIOUS
        <5> QED BY <2>4, <3>2, <4>6, <5>1, StartsPointwise
      <4>8. p[k + 1] = p[k] + m
        BY <3>1, <4>2, <4>3, <4>4
      <4> QED BY <3>2, <4>2, <4>3, <4>7, <4>8
    <3> QED BY <3>3, <3>4
  <2>11. Cuts(s, T, p)
    BY <2>1, <2>8, <2>9, <2>10 DEF Cuts
  <2> QED BY <2>2, <2>4, <2>11
<1> QED BY <1>1, <1>2

\* And what they lie in one after the other is they put together.
LEMMA PartsMake ==
  ASSUME NEW S, NEW s \in Seq(Seq(S)), NEW T \in Seq(S), NEW p, Cuts(s, T, p)
  PROVE  FlattenSeq(s) = T
<1>1. CASE s = <<>>
  <2>1. Len(s) = 0
    BY <1>1, EmptySeq
  <2>2. Len(T) = 0
    <3>1. p[1] = 1 /\ p[0 + 1] = Len(T) + 1
      BY <2>1 DEF Cuts
    <3> QED BY <3>1, LenProperties
  <2> QED BY <1>1, <2>2, EmptySeq, NothingFlattened
<1>2. CASE s # <<>>
  <2>1. PICK L \in Nat \ {0} : L = Len(s) /\ \A i \in 1 .. L : s[i] \in Seq(S)
    BY <1>2, EmptySeq
  <2>2. PICK f \in [1 .. L -> Seq(S)] :
          /\ f[1] = s[1]
          /\ \A i \in 1 .. (L - 1) : f[i + 1] = f[i] \o s[i + 1]
          /\ FlattenSeq(s) = f[L]
    BY <1>2, <2>1, Flattened
  <2>3. /\ p[1] = 1 /\ p[L + 1] = Len(T) + 1 /\ \A k \in 1 .. (L + 1) : p[k] \in Nat \ {0}
        /\ \A k \in 1 .. L : p[k + 1] = p[k] + Len(s[k]) /\ StartsAt(s[k], T, p[k])
    BY <2>1 DEF Cuts
  <2>4. ASSUME NEW k \in 1 .. L
        PROVE  /\ p[k] \in Nat \ {0} /\ Len(s[k]) \in Nat /\ p[k + 1] = p[k] + Len(s[k])
               /\ \A i \in 1 .. Len(s[k]) : T[p[k] + i - 1] = s[k][i]
    <3>1. PICK t, at : t = s[k] /\ at = p[k]
      OBVIOUS
    <3>2. t \in Seq(S) /\ at \in Nat \ {0} /\ StartsAt(t, T, at)
      BY <2>1, <2>3, <3>1
    <3>3. Len(t) \in Nat /\ \A i \in 1 .. Len(t) : T[at + i - 1] = t[i]
      BY <3>2, StartsPointwise, LenProperties
    <3> QED BY <2>3, <3>1, <3>2, <3>3
  <2> DEFINE Q == {n \in Nat : /\ Len(f[n + 1]) = p[n + 2] - 1
                               /\ \A j \in 1 .. Len(f[n + 1]) : f[n + 1][j] = T[j]}
  <2>5. 0 \in Q
    <3>1. 1 \in 1 .. L /\ 0 + 1 = 1 /\ 0 + 2 = 2 /\ 1 + 1 = 2
      OBVIOUS
    <3>2. p[2] = 1 + Len(s[1]) /\ Len(s[1]) \in Nat /\ \A i \in 1 .. Len(s[1]) : T[1 + i - 1] = s[1][i]
      BY <2>3, <2>4, <3>1
    <3>3. Len(f[1]) = p[2] - 1 /\ \A j \in 1 .. Len(f[1]) : f[1][j] = T[j]
      <4>1. 1 + Len(s[1]) - 1 = Len(s[1]) /\ \A i \in 1 .. Len(s[1]) : 1 + i - 1 = i
        BY <3>2
      <4> QED BY <2>2, <3>2, <4>1
    <3> QED BY <3>1, <3>3
  <2>6. ASSUME NEW n \in 0 .. ((L - 1) - 1), n \in Q PROVE n + 1 \in Q
    <3>1. PICK i \in 1 .. (L - 1) : i = n + 1 /\ i + 1 = n + 2 /\ i + 1 \in 1 .. L /\ (i + 1) + 1 = (n + 1) + 2
      OBVIOUS
    <3>2. PICK u, v, w : u = f[i] /\ v = s[i + 1] /\ w = f[i + 1]
      OBVIOUS
    <3>3. u \in Seq(S) /\ v \in Seq(S) /\ w = u \o v
      <4>1. i \in 1 .. L
        OBVIOUS
      <4>2. f[i] \in Seq(S) /\ s[i + 1] \in Seq(S) /\ f[i + 1] = f[i] \o s[i + 1]
        BY <2>1, <2>2, <3>1, <4>1
      <4> QED BY <3>2, <4>2
    <3>4. /\ Len(w) = Len(u) + Len(v) /\ Len(u) \in Nat /\ Len(v) \in Nat
          /\ \A j \in 1 .. (Len(u) + Len(v)) : w[j] = IF j <= Len(u) THEN u[j] ELSE v[j - Len(u)]
      BY <3>3, ConcatProperties, LenProperties
    <3>5. Len(u) = p[i + 1] - 1 /\ \A j \in 1 .. Len(u) : u[j] = T[j]
      BY <2>6, <3>1, <3>2
    <3>6. /\ p[i + 1] \in Nat \ {0} /\ p[(i + 1) + 1] = p[i + 1] + Len(v)
          /\ \A j \in 1 .. Len(v) : T[p[i + 1] + j - 1] = v[j]
      BY <2>4, <3>1, <3>2
    <3>7. Len(w) = p[(i + 1) + 1] - 1
      <4>1. PICK d, e, x, y : d = Len(u) /\ e = Len(v) /\ x = p[i + 1] /\ y = p[(i + 1) + 1]
        OBVIOUS
      <4>2. d \in Nat /\ e \in Nat /\ x \in Nat /\ d = x - 1 /\ y = x + e /\ Len(w) = d + e
        BY <3>4, <3>5, <3>6, <4>1
      <4>3. Len(w) = y - 1
        BY <4>2
      <4> QED BY <4>1, <4>3
    <3>8. ASSUME NEW j \in 1 .. Len(w) PROVE w[j] = T[j]
      <4>1. CASE j <= Len(u)
        BY <3>4, <3>5, <4>1
      <4>2. CASE ~ (j <= Len(u))
        <5>1. PICK d \in 1 .. Len(v) : d = j - Len(u)
          BY <3>4, <4>2
        <5>2. p[i + 1] + d - 1 = j
          <6>1. PICK q, a : q = p[i + 1] /\ a = Len(u) /\ q \in Nat /\ a \in Nat /\ a = q - 1
            BY <3>4, <3>5, <3>6
          <6>2. PICK e \in Nat : e = Len(v) /\ j \in 1 .. (a + e)
            BY <3>4, <6>1
          <6>3. d = j - a
            BY <5>1, <6>1
          <6>4. a \in Nat /\ q = a + 1 /\ j \in Int
            BY <6>1, <6>2
          <6>5. q + d - 1 = j
            BY <6>3, <6>4
          <6> QED BY <6>1, <6>5
        <5>3. w[j] = v[d]
          BY <3>4, <4>2, <5>1
        <5> QED BY <3>6, <5>2, <5>3
      <4> QED BY <4>1, <4>2
    <3>9. n + 1 \in Nat
      OBVIOUS
    <3> QED BY <3>1, <3>2, <3>7, <3>8, <3>9
  <2>7. L - 1 \in Q
    <3>1. L - 1 \in Nat /\ L - 1 \in 0 .. (L - 1)
      OBVIOUS
    <3> HIDE DEF Q
    <3>2. \A n \in 0 .. (L - 1) : n \in Q
      BY <2>5, <2>6, <3>1, UpTo
    <3> QED BY <3>1, <3>2
  <2>8. Len(f[L]) = p[L + 1] - 1 /\ \A j \in 1 .. Len(f[L]) : f[L][j] = T[j]
    <3>1. PICK n \in Q : n = L - 1 /\ n + 1 = L /\ n + 2 = L + 1
      BY <2>7
    <3> QED BY <3>1
  <2>9. f[L] \in Seq(S) /\ Len(f[L]) = Len(T)
    BY <2>2, <2>3, <2>8, LenProperties
  <2>10. f[L] = T
    BY <2>8, <2>9, SeqEqual
  <2> QED BY <2>2, <2>10
<1> QED BY <1>1, <1>2

-----------------------------------------------------------------------------
(* Names and templates. *)

PartsOver(S) == Seq([isVar : BOOLEAN, text : Seq(S)])

\* A capture ends after it began, and where the next literal first begins.
LEMMA Ended ==
  ASSUME NEW S, NEW parts \in PartsOver(S), NEW name \in Seq(S),
         NEW i \in 1 .. Len(parts), NEW pos \in 1 .. (Len(name) + 1),
         NEW end \in CaptureEnd(parts, i, name, pos)
  PROVE  /\ end \in 1 .. (Len(name) + 1) /\ pos < end
         /\ i < Len(parts) /\ ~ parts[i + 1].isVar =>
              /\ end \in Occurrences(parts[i + 1].text, name, pos)
              /\ \A o \in Occurrences(parts[i + 1].text, name, pos) : end <= o
         /\ i = Len(parts) \/ parts[i + 1].isVar => end = Len(name) + 1
<1>1. PICK M \in Nat : M = Len(name)
  BY LenProperties
<1>2. CASE i < Len(parts) /\ ~ parts[i + 1].isVar
  <2>1. PICK at : at = Occurrences(parts[i + 1].text, name, pos)
    OBVIOUS
  <2>2. at \subseteq pos .. M /\ at \subseteq Nat
    BY <1>1, <2>1 DEF Occurrences
  <2>3. at # {} /\ end = Min(at) /\ end # pos
    BY <1>2, <2>1 DEF CaptureEnd
  <2>4. end \in at /\ \A o \in at : end <= o
    BY <2>2, <2>3, LeastIsMin
  <2>5. end \in pos .. M
    BY <2>2, <2>4
  <2> QED BY <1>1, <1>2, <2>1, <2>3, <2>4, <2>5
<1>3. CASE ~ (i < Len(parts) /\ ~ parts[i + 1].isVar)
  <2>1. end = M + 1 /\ end # pos
    BY <1>1, <1>3 DEF CaptureEnd
  <2> QED BY <1>1, <1>3, <2>1
<1> QED BY <1>2, <1>3

\* What is captured from the i-th part on, by what is from the next on.
After(parts, name, i, pos, f) ==
  IF i > Len(parts) THEN IF pos = Len(name) + 1 THEN {<<>>} ELSE {}
  ELSE IF parts[i].isVar
  THEN UNION {{Bind(parts[i].text, SubSeq(name, pos, end - 1), rest) : rest \in f[i + 1][end]} :
                end \in CaptureEnd(parts, i, name, pos)}
  ELSE IF StartsAt(parts[i].text, name, pos)
  THEN f[i + 1][pos + Len(parts[i].text)]
  ELSE {}

LEMMA PartTyped ==
  ASSUME NEW S, NEW parts \in PartsOver(S), NEW i \in 1 .. Len(parts)
  PROVE  parts[i].isVar \in BOOLEAN /\ parts[i].text \in Seq(S) /\ Len(parts[i].text) \in Nat
<1>1. parts[i] \in [isVar : BOOLEAN, text : Seq(S)]
  BY ElementOfSeq DEF PartsOver
<1> QED BY <1>1, LenProperties

LEMMA AfterNext ==
  ASSUME NEW S, NEW parts \in PartsOver(S), NEW name \in Seq(S),
         NEW i \in 1 .. (Len(parts) + 1), NEW pos \in 1 .. (Len(name) + 1), NEW f, NEW g,
         i <= Len(parts) => \A end \in 1 .. (Len(name) + 1) : f[i + 1][end] = g[i + 1][end]
  PROVE  After(parts, name, i, pos, f) = After(parts, name, i, pos, g)
<1>1. CASE i > Len(parts)
  BY <1>1 DEF After
<1>2. CASE ~ (i > Len(parts))
  <2>0. i \in 1 .. Len(parts) /\ Len(parts) \in Nat
    BY <1>2, LenProperties DEF PartsOver
  <2>1. \A end \in 1 .. (Len(name) + 1) : f[i + 1][end] = g[i + 1][end]
    BY <2>0
  <2>2. CASE parts[i].isVar
    <3>1. CaptureEnd(parts, i, name, pos) \subseteq 1 .. (Len(name) + 1)
      BY <2>0, Ended
    <3> QED BY <1>2, <2>1, <2>2, <3>1 DEF After
  <2>3. CASE ~ parts[i].isVar
    <3>1. StartsAt(parts[i].text, name, pos) =>
            pos + Len(parts[i].text) \in 1 .. (Len(name) + 1)
      <4>1. Len(parts[i].text) \in Nat /\ Len(name) \in Nat
        BY <2>0, PartTyped, LenProperties
      <4> QED BY <4>1 DEF StartsAt
    <3> QED BY <1>2, <2>1, <2>3, <3>1 DEF After
  <2> QED BY <2>2, <2>3
<1> QED BY <1>1, <1>2

\* The captures are what each part makes of those of the next.
LEMMA Matched ==
  ASSUME NEW S, NEW parts \in PartsOver(S), NEW name \in Seq(S)
  PROVE  \E f : /\ Match(parts, name) = f[1][1]
                /\ \A i \in 1 .. (Len(parts) + 1), pos \in 1 .. (Len(name) + 1) :
                     f[i][pos] = After(parts, name, i, pos, f)
<1>1. PICK L \in Nat, M \in Nat : L = Len(parts) /\ M = Len(name)
  BY LenProperties DEF PartsOver
<1> DEFINE P == {n \in Nat : \E f : \A i \in (L + 1 - n) .. (L + 1), pos \in 1 .. (M + 1) :
                                f[i][pos] = After(parts, name, i, pos, f)}
<1>2. 0 \in P
  <2>1. PICK f : f = [i \in {L + 1} |-> [pos \in 1 .. (M + 1) |-> IF pos = M + 1 THEN {<<>>} ELSE {}]]
    OBVIOUS
  <2>2. ASSUME NEW i \in (L + 1 - 0) .. (L + 1), NEW pos \in 1 .. (M + 1)
        PROVE  f[i][pos] = After(parts, name, i, pos, f)
    <3>1. i = L + 1 /\ i > L
      OBVIOUS
    <3>2. f[i][pos] = IF pos = M + 1 THEN {<<>>} ELSE {}
      BY <2>1, <3>1
    <3> QED BY <1>1, <3>1, <3>2 DEF After
  <2>3. 0 \in Nat
    OBVIOUS
  <2> QED BY <2>2, <2>3
<1>3. ASSUME NEW n \in 0 .. (L - 1), n \in P PROVE n + 1 \in P
  <2>1. PICK f : \A i \in (L + 1 - n) .. (L + 1), pos \in 1 .. (M + 1) :
                    f[i][pos] = After(parts, name, i, pos, f)
    BY <1>3
  <2>2. PICK h \in 1 .. L : h = L + 1 - (n + 1) /\ h + 1 = L + 1 - n
    OBVIOUS
  <2>3. PICK g : g = [i \in h .. (L + 1) |-> [pos \in 1 .. (M + 1) |->
                        IF i = h THEN After(parts, name, h, pos, f) ELSE f[i][pos]]]
    OBVIOUS
  <2>4. ASSUME NEW i \in h .. (L + 1), NEW pos \in 1 .. (M + 1)
        PROVE  g[i][pos] = After(parts, name, i, pos, g)
    <3>1. /\ g[i][pos] = IF i = h THEN After(parts, name, h, pos, f) ELSE f[i][pos]
          /\ \A end \in 1 .. (M + 1) : i <= L => g[i + 1][end] = f[i + 1][end]
      BY <2>3
    <3>2. i \in 1 .. (Len(parts) + 1) /\ pos \in 1 .. (Len(name) + 1)
          /\ (i <= Len(parts) => \A end \in 1 .. (Len(name) + 1) : g[i + 1][end] = f[i + 1][end])
      BY <1>1, <3>1
    <3>3. After(parts, name, i, pos, g) = After(parts, name, i, pos, f)
      BY <3>2, AfterNext
    <3>4. i # h => f[i][pos] = After(parts, name, i, pos, f)
      BY <2>1, <2>2
    <3> QED BY <3>1, <3>3, <3>4
  <2>5. n + 1 \in Nat
    OBVIOUS
  <2> QED BY <2>2, <2>4, <2>5
<1>4. \A n \in 0 .. L : n \in P
  <2> HIDE DEF P
  <2> QED BY <1>2, <1>3, UpTo
<1>5. PICK f : \A i \in 1 .. (L + 1), pos \in 1 .. (M + 1) :
                  f[i][pos] = After(parts, name, i, pos, f)
  <2>1. PICK n \in P : n = L /\ L + 1 - n = 1
    BY <1>4
  <2>2. \E f : \A i \in (L + 1 - n) .. (L + 1), pos \in 1 .. (M + 1) :
                  f[i][pos] = After(parts, name, i, pos, f)
    BY <2>1
  <2> QED BY <2>1, <2>2
<1>6. PICK c : c = [i \in 1 .. (L + 1) |-> [pos \in 1 .. (M + 1) |-> f[i][pos]]]
  OBVIOUS
<1>7. ASSUME NEW i \in 1 .. (L + 1), NEW pos \in 1 .. (M + 1)
      PROVE  c[i][pos] = After(parts, name, i, pos, c)
  <2>1. /\ c[i][pos] = f[i][pos]
        /\ \A end \in 1 .. (M + 1) : i <= L => c[i + 1][end] = f[i + 1][end]
    BY <1>6
  <2>2. After(parts, name, i, pos, c) = After(parts, name, i, pos, f)
    BY <1>1, <2>1, AfterNext
  <2> QED BY <1>5, <2>1, <2>2
<1> DEFINE Is(h) == h = [i \in 1 .. (Len(parts) + 1) |-> [pos \in 1 .. (Len(name) + 1) |->
        IF i > Len(parts) THEN IF pos = Len(name) + 1 THEN {<<>>} ELSE {}
        ELSE IF parts[i].isVar
        THEN UNION {{Bind(parts[i].text, SubSeq(name, pos, end - 1), rest) :
                       rest \in h[i + 1][end]} :
                      end \in CaptureEnd(parts, i, name, pos)}
        ELSE IF StartsAt(parts[i].text, name, pos)
        THEN h[i + 1][pos + Len(parts[i].text)]
        ELSE {}]]
<1>8. Is(c)
  <2>1. c = [i \in 1 .. (L + 1) |-> [pos \in 1 .. (M + 1) |-> After(parts, name, i, pos, c)]]
    BY <1>6, <1>7
  <2> QED BY <1>1, <2>1 DEF After
<1>9. Match(parts, name) = (CHOOSE h : Is(h))[1][1]
  BY DEF Match
<1>10. PICK g : g = CHOOSE h : Is(h)
  OBVIOUS
<1>11. Is(g)
  <2> HIDE DEF Is
  <2> QED BY <1>8, <1>10
<1>12. \A i \in 1 .. (Len(parts) + 1), pos \in 1 .. (Len(name) + 1) :
         g[i][pos] = After(parts, name, i, pos, g)
  BY <1>11 DEF After
<1> QED BY <1>9, <1>10, <1>12

VariablesFrom(parts, i) == {parts[k].text : k \in {k \in i .. Len(parts) : parts[k].isVar}}

\* Where each part from the i-th on lies in a name, and what was captured.
Laid(parts, name, i, pos, b, q) ==
  /\ q \in [i .. (Len(parts) + 1) -> 1 .. (Len(name) + 1)]
  /\ q[i] = pos /\ q[Len(parts) + 1] = Len(name) + 1
  /\ \A k \in i .. Len(parts) :
       IF parts[k].isVar
       THEN /\ q[k + 1] \in CaptureEnd(parts, k, name, q[k])
            /\ b[parts[k].text] = SubSeq(name, q[k], q[k + 1] - 1)
       ELSE /\ StartsAt(parts[k].text, name, q[k])
            /\ q[k + 1] = q[k] + Len(parts[k].text)

\* What one part adds to a trace.
LEMMA TracedFurther ==
  ASSUME NEW S, NEW parts \in PartsOver(S), NEW name \in Seq(S), NamedOnce(parts),
         NEW i \in 1 .. Len(parts), NEW pos \in 1 .. (Len(name) + 1),
         NEW next \in 1 .. (Len(name) + 1), NEW b, NEW rest, NEW r,
         DOMAIN rest = VariablesFrom(parts, i + 1),
         Laid(parts, name, i + 1, next, rest, r),
         IF parts[i].isVar
         THEN /\ next \in CaptureEnd(parts, i, name, pos)
              /\ b = Bind(parts[i].text, SubSeq(name, pos, next - 1), rest)
         ELSE /\ StartsAt(parts[i].text, name, pos)
              /\ next = pos + Len(parts[i].text)
              /\ b = rest
  PROVE  /\ DOMAIN b = VariablesFrom(parts, i)
         /\ \E q : Laid(parts, name, i, pos, b, q)
<1>1. PICK L \in Nat, M \in Nat : L = Len(parts) /\ M = Len(name) /\ DOMAIN parts = 1 .. L
  BY LenProperties DEF PartsOver
<1>2. /\ VariablesFrom(parts, i) = VariablesFrom(parts, i + 1)
                                   \cup (IF parts[i].isVar THEN {parts[i].text} ELSE {})
      /\ parts[i].isVar => parts[i].text \notin VariablesFrom(parts, i + 1)
  <2>1. \A k \in i .. L : k = i \/ k \in (i + 1) .. L
    BY <1>1
  <2>2. \A k \in (i + 1) .. L : k \in i .. L /\ k # i /\ k \in 1 .. L
    BY <1>1
  <2>3. i \in i .. L /\ i \in 1 .. L
    BY <1>1
  <2> QED BY <1>1, <2>1, <2>2, <2>3 DEF VariablesFrom, NamedOnce
<1>3. DOMAIN b = VariablesFrom(parts, i)
  BY <1>2 DEF Bind
<1>4. \A n \in VariablesFrom(parts, i + 1) : b[n] = rest[n]
  BY <1>2 DEF Bind
<1>5. parts[i].isVar => b[parts[i].text] = SubSeq(name, pos, next - 1)
  BY <1>2 DEF Bind
<1>6. PICK q : q = [k \in i .. (L + 1) |-> IF k = i THEN pos ELSE r[k]]
  OBVIOUS
<1>7. /\ \A k \in (i + 1) .. (L + 1) : r[k] \in 1 .. (M + 1)
      /\ r[i + 1] = next /\ r[L + 1] = M + 1
  BY <1>1 DEF Laid
<1>8. /\ q \in [i .. (L + 1) -> 1 .. (M + 1)]
      /\ q[i] = pos /\ q[L + 1] = M + 1 /\ q[i + 1] = next
      /\ \A k \in (i + 1) .. (L + 1) : q[k] = r[k]
  <2>1. ASSUME NEW k \in i .. (L + 1) PROVE q[k] \in 1 .. (M + 1)
    BY <1>1, <1>6, <1>7
  <2>2. i \in i .. (L + 1) /\ L + 1 \in i .. (L + 1) /\ i + 1 \in i .. (L + 1)
        /\ L + 1 # i /\ i + 1 # i
    BY <1>1
  <2>3. ASSUME NEW k \in (i + 1) .. (L + 1) PROVE q[k] = r[k]
    BY <1>1, <1>6
  <2> QED BY <1>6, <1>7, <2>1, <2>2, <2>3
<1>9. ASSUME NEW k \in i .. L
      PROVE  IF parts[k].isVar
             THEN /\ q[k + 1] \in CaptureEnd(parts, k, name, q[k])
                  /\ b[parts[k].text] = SubSeq(name, q[k], q[k + 1] - 1)
             ELSE /\ StartsAt(parts[k].text, name, q[k])
                  /\ q[k + 1] = q[k] + Len(parts[k].text)
  <2>1. CASE k = i
    BY <1>5, <1>8, <2>1
  <2>2. CASE k # i
    <3>1. k \in (i + 1) .. L /\ k \in (i + 1) .. (L + 1) /\ k + 1 \in (i + 1) .. (L + 1)
      BY <1>1, <2>2
    <3>2. q[k] = r[k] /\ q[k + 1] = r[k + 1]
      BY <1>8, <3>1
    <3>3. IF parts[k].isVar
          THEN /\ r[k + 1] \in CaptureEnd(parts, k, name, r[k])
               /\ rest[parts[k].text] = SubSeq(name, r[k], r[k + 1] - 1)
          ELSE /\ StartsAt(parts[k].text, name, r[k])
               /\ r[k + 1] = r[k] + Len(parts[k].text)
      BY <1>1, <3>1 DEF Laid
    <3>4. parts[k].isVar => b[parts[k].text] = rest[parts[k].text]
      BY <1>1, <1>4, <3>1 DEF VariablesFrom
    <3> QED BY <3>2, <3>3, <3>4
  <2> QED BY <2>1, <2>2
<1>10. Laid(parts, name, i, pos, b, q)
  BY <1>1, <1>8, <1>9 DEF Laid
<1> QED BY <1>3, <1>10

\* Every match has such a trace.
LEMMA MatchTraced ==
  ASSUME NEW S, NEW parts \in PartsOver(S), NEW name \in Seq(S), NamedOnce(parts),
         NEW b \in Match(parts, name)
  PROVE  DOMAIN b = VariablesFrom(parts, 1) /\ \E q : Laid(parts, name, 1, 1, b, q)
<1>1. PICK L \in Nat, M \in Nat : L = Len(parts) /\ M = Len(name) /\ DOMAIN parts = 1 .. L
  BY LenProperties DEF PartsOver
<1>2. PICK f : /\ Match(parts, name) = f[1][1]
               /\ \A i \in 1 .. (L + 1), pos \in 1 .. (M + 1) :
                    f[i][pos] = After(parts, name, i, pos, f)
  BY <1>1, Matched
<1> DEFINE Good(i) == \A pos \in 1 .. (M + 1) : \A c \in f[i][pos] :
                        /\ DOMAIN c = VariablesFrom(parts, i)
                        /\ \E q : Laid(parts, name, i, pos, c, q)
           P == {n \in Nat : Good(L + 1 - n)}
<1>3. 0 \in P
  <2>1. ASSUME NEW pos \in 1 .. (M + 1), NEW c \in f[L + 1][pos]
        PROVE  /\ DOMAIN c = VariablesFrom(parts, L + 1)
               /\ \E q : Laid(parts, name, L + 1, pos, c, q)
    <3>1. pos = M + 1 /\ c = <<>>
      <4>1. f[L + 1][pos] = After(parts, name, L + 1, pos, f) /\ L + 1 > L
        BY <1>2
      <4> QED BY <1>1, <4>1 DEF After
    <3>2. \A k : k \notin (L + 1) .. L
      OBVIOUS
    <3>3. DOMAIN c = {} /\ VariablesFrom(parts, L + 1) = {}
      BY <1>1, <3>1, <3>2 DEF VariablesFrom
    <3>4. PICK q : q = [k \in (L + 1) .. (L + 1) |-> M + 1]
      OBVIOUS
    <3>5. Laid(parts, name, L + 1, pos, c, q)
      BY <1>1, <3>1, <3>2, <3>4 DEF Laid
    <3> QED BY <3>3, <3>5
  <2>2. 0 \in Nat /\ L + 1 - 0 = L + 1
    OBVIOUS
  <2> QED BY <2>1, <2>2
<1>4. ASSUME NEW n \in 0 .. (L - 1), n \in P PROVE n + 1 \in P
  <2>1. PICK i \in 1 .. L : i = L + 1 - (n + 1) /\ i + 1 = L + 1 - n
    OBVIOUS
  <2>2. Good(i + 1)
    BY <1>4, <2>1
  <2>3. ASSUME NEW pos \in 1 .. (M + 1), NEW c \in f[i][pos]
        PROVE  /\ DOMAIN c = VariablesFrom(parts, i)
               /\ \E q : Laid(parts, name, i, pos, c, q)
    <3>0. i \in 1 .. Len(parts) /\ pos \in 1 .. (Len(name) + 1)
      BY <1>1
    <3>1. c \in After(parts, name, i, pos, f) /\ ~ (i > Len(parts))
      BY <1>1, <1>2
    <3>2. \E next \in 1 .. (M + 1) : \E rest :
            /\ rest \in f[i + 1][next]
            /\ IF parts[i].isVar
               THEN /\ next \in CaptureEnd(parts, i, name, pos)
                    /\ c = Bind(parts[i].text, SubSeq(name, pos, next - 1), rest)
               ELSE /\ StartsAt(parts[i].text, name, pos)
                    /\ next = pos + Len(parts[i].text)
                    /\ c = rest
      <4>1. CASE parts[i].isVar
        <5>1. PICK end \in CaptureEnd(parts, i, name, pos) :
                \E rest \in f[i + 1][end] :
                  c = Bind(parts[i].text, SubSeq(name, pos, end - 1), rest)
          BY <3>1, <4>1 DEF After
        <5>2. end \in 1 .. (M + 1)
          BY <1>1, <3>0, Ended
        <5> QED BY <4>1, <5>1, <5>2
      <4>2. CASE ~ parts[i].isVar
        <5>1. StartsAt(parts[i].text, name, pos) /\ c \in f[i + 1][pos + Len(parts[i].text)]
          BY <3>1, <4>2 DEF After
        <5>2. pos + Len(parts[i].text) \in 1 .. (M + 1)
          <6>1. Len(parts[i].text) \in Nat
            BY <3>0, PartTyped
          <6> QED BY <1>1, <5>1, <6>1 DEF StartsAt
        <5> QED BY <4>2, <5>1, <5>2
      <4> QED BY <4>1, <4>2
    <3>3. PICK next \in 1 .. (M + 1) : \E rest :
            /\ rest \in f[i + 1][next]
            /\ IF parts[i].isVar
               THEN /\ next \in CaptureEnd(parts, i, name, pos)
                    /\ c = Bind(parts[i].text, SubSeq(name, pos, next - 1), rest)
               ELSE /\ StartsAt(parts[i].text, name, pos)
                    /\ next = pos + Len(parts[i].text)
                    /\ c = rest
      BY <3>2
    <3>6. PICK rest :
            /\ rest \in f[i + 1][next]
            /\ IF parts[i].isVar
               THEN /\ next \in CaptureEnd(parts, i, name, pos)
                    /\ c = Bind(parts[i].text, SubSeq(name, pos, next - 1), rest)
               ELSE /\ StartsAt(parts[i].text, name, pos)
                    /\ next = pos + Len(parts[i].text)
                    /\ c = rest
      BY <3>3
    <3>4. /\ DOMAIN rest = VariablesFrom(parts, i + 1)
          /\ \E q : Laid(parts, name, i + 1, next, rest, q)
      BY <2>2, <3>6
    <3>5. next \in 1 .. (Len(name) + 1)
      BY <1>1
    <3> HIDE DEF Good
    <3> QED BY <3>0, <3>6, <3>4, <3>5, TracedFurther
  <2>4. n + 1 \in Nat
    OBVIOUS
  <2> QED BY <2>1, <2>3, <2>4
<1>5. Good(1)
  <2>1. \A n \in 0 .. L : n \in P
    <3> HIDE DEF P
    <3> QED BY <1>3, <1>4, UpTo
  <2>2. PICK n \in P : n = L /\ L + 1 - n = 1
    <3> HIDE DEF P
    <3> QED BY <2>1
  <2> HIDE DEF Good
  <2>3. Good(L + 1 - n)
    OBVIOUS
  <2> QED BY <2>2, <2>3
<1>6. 1 \in 1 .. (M + 1)
  OBVIOUS
<1> QED BY <1>2, <1>5, <1>6

\* A name matches in at most one way, and what it captured is a value for each
\* variable.
LEMMA MatchOnce ==
  ASSUME NEW S, NEW parts \in PartsOver(S), NEW name \in Seq(S)
  PROVE  \A b, c \in Match(parts, name) :
           /\ b = c
           /\ DOMAIN b = Variables(parts) /\ \A n \in DOMAIN b : b[n] \in Seq(S)
<1>1. PICK L \in Nat, M \in Nat : L = Len(parts) /\ M = Len(name) /\ DOMAIN parts = 1 .. L
  BY LenProperties DEF PartsOver
<1>2. PICK f : /\ Match(parts, name) = f[1][1]
               /\ \A i \in 1 .. (L + 1), pos \in 1 .. (M + 1) :
                    f[i][pos] = After(parts, name, i, pos, f)
  BY <1>1, Matched
<1> DEFINE One(i) == \A pos \in 1 .. (M + 1) : \A b, c \in f[i][pos] :
                       /\ b = c
                       /\ DOMAIN b = VariablesFrom(parts, i) /\ \A n \in DOMAIN b : b[n] \in Seq(S)
           P == {n \in Nat : One(L + 1 - n)}
<1>3. 0 \in P
  <2>1. ASSUME NEW pos \in 1 .. (M + 1), NEW c \in f[L + 1][pos]
        PROVE  c = <<>>
    <3>1. f[L + 1][pos] = After(parts, name, L + 1, pos, f) /\ L + 1 > L
      BY <1>2
    <3> QED BY <1>1, <2>1, <3>1 DEF After
  <2>2. DOMAIN <<>> = {} /\ VariablesFrom(parts, L + 1) = {}
    <3>1. \A k : k \notin (L + 1) .. L
      OBVIOUS
    <3> QED BY <1>1, <3>1 DEF VariablesFrom
  <2>3. 0 \in Nat /\ L + 1 - 0 = L + 1
    OBVIOUS
  <2> QED BY <2>1, <2>2, <2>3
<1>4. ASSUME NEW n \in 0 .. (L - 1), n \in P PROVE n + 1 \in P
  <2>1. PICK i \in 1 .. L : i = L + 1 - (n + 1) /\ i + 1 = L + 1 - n
    OBVIOUS
  <2>2. One(i + 1)
    BY <1>4, <2>1
  <2>3. ASSUME NEW pos \in 1 .. (M + 1), NEW b \in f[i][pos], NEW c \in f[i][pos]
        PROVE  /\ b = c
               /\ DOMAIN b = VariablesFrom(parts, i) /\ \A v \in DOMAIN b : b[v] \in Seq(S)
    <3>0. i \in 1 .. Len(parts) /\ pos \in 1 .. (Len(name) + 1)
      BY <1>1
    <3>1. b \in After(parts, name, i, pos, f) /\ c \in After(parts, name, i, pos, f) /\ ~ (i > Len(parts))
      BY <1>1, <1>2
    <3>2. VariablesFrom(parts, i) = VariablesFrom(parts, i + 1)
                                    \cup (IF parts[i].isVar THEN {parts[i].text} ELSE {})
      <4>1. \A k \in i .. L : k = i \/ k \in (i + 1) .. L
        BY <1>1
      <4>2. \A k \in (i + 1) .. L : k \in i .. L
        BY <1>1
      <4> QED BY <1>1, <4>1, <4>2 DEF VariablesFrom
    <3>3. CASE parts[i].isVar
      <4>1. PICK end \in CaptureEnd(parts, i, name, pos) :
              \E rest \in f[i + 1][end] :
                b = Bind(parts[i].text, SubSeq(name, pos, end - 1), rest)
        BY <3>1, <3>3 DEF After
      <4>1a. PICK rest \in f[i + 1][end] :
               b = Bind(parts[i].text, SubSeq(name, pos, end - 1), rest)
        BY <4>1
      <4>2. PICK end2 \in CaptureEnd(parts, i, name, pos) :
              \E rest2 \in f[i + 1][end2] :
                c = Bind(parts[i].text, SubSeq(name, pos, end2 - 1), rest2)
        BY <3>1, <3>3 DEF After
      <4>2a. PICK rest2 \in f[i + 1][end2] :
               c = Bind(parts[i].text, SubSeq(name, pos, end2 - 1), rest2)
        BY <4>2
      <4>3. end = end2
        BY DEF CaptureEnd
      <4>4. end \in 1 .. (M + 1)
        BY <1>1, <3>0, Ended
      <4>5. /\ rest = rest2
            /\ DOMAIN rest = VariablesFrom(parts, i + 1) /\ \A v \in DOMAIN rest : rest[v] \in Seq(S)
        BY <2>2, <4>3, <4>4
      <4>6. SubSeq(name, pos, end - 1) \in Seq(S)
        <5>1. \A k \in pos .. (end - 1) : name[k] \in S
          <6>1. \A k \in 1 .. M : name[k] \in S
            BY <1>1, ElementOfSeq
          <6> QED BY <4>4, <6>1
        <5>2. pos \in Int /\ end - 1 \in Int
          BY <4>4
        <5> QED BY <5>1, <5>2, SubSeqProperties
      <4>7. DOMAIN b = {parts[i].text} \cup DOMAIN rest
            /\ \A v \in DOMAIN b : b[v] = IF v \in DOMAIN rest THEN rest[v] ELSE SubSeq(name, pos, end - 1)
        BY <4>1a DEF Bind
      <4>8. b = c
        BY <4>1a, <4>2a, <4>3, <4>5
      <4> QED BY <3>2, <3>3, <4>5, <4>6, <4>7, <4>8
    <3>4. CASE ~ parts[i].isVar
      <4>1. /\ StartsAt(parts[i].text, name, pos)
            /\ b \in f[i + 1][pos + Len(parts[i].text)] /\ c \in f[i + 1][pos + Len(parts[i].text)]
        BY <3>1, <3>4 DEF After
      <4>2. pos + Len(parts[i].text) \in 1 .. (M + 1)
        <5>1. Len(parts[i].text) \in Nat
          BY <3>0, PartTyped
        <5> QED BY <1>1, <4>1, <5>1 DEF StartsAt
      <4>3. /\ b = c
            /\ DOMAIN b = VariablesFrom(parts, i + 1) /\ \A v \in DOMAIN b : b[v] \in Seq(S)
        BY <2>2, <4>1, <4>2
      <4> QED BY <3>2, <3>4, <4>3
    <3> QED BY <3>3, <3>4
  <2>4. n + 1 \in Nat
    OBVIOUS
  <2> QED BY <2>1, <2>3, <2>4
<1>5. One(1)
  <2>1. \A n \in 0 .. L : n \in P
    <3> HIDE DEF P
    <3> QED BY <1>3, <1>4, UpTo
  <2>2. PICK n \in P : n = L /\ L + 1 - n = 1
    <3> HIDE DEF P
    <3> QED BY <2>1
  <2> HIDE DEF One
  <2>3. One(L + 1 - n)
    OBVIOUS
  <2> QED BY <2>2, <2>3
<1>6. 1 \in 1 .. (M + 1) /\ Variables(parts) = VariablesFrom(parts, 1)
  BY <1>1 DEF Variables, VariablesFrom
<1> QED BY <1>2, <1>5, <1>6

\* A literal is first found where it was put, unless what is before it made it
\* begin sooner.
LEMMA FirstEnd ==
  ASSUME NEW S, NEW name \in Seq(S), NEW v \in Seq(S), NEW t \in Seq(S), NEW at \in Nat \ {0},
         StartsAt(v, name, at), StartsAt(t, name, at + Len(v)),
         Occurrences(t, v \o t, 1) = {Len(v) + 1}
  PROVE  /\ at + Len(v) \in Occurrences(t, name, at)
         /\ \A o \in Occurrences(t, name, at) : at + Len(v) <= o
<1>1. PICK m \in Nat, n \in Nat, M \in Nat : m = Len(v) /\ n = Len(t) /\ M = Len(name)
  BY LenProperties
<1>2. PICK w : w = v \o t
  OBVIOUS
<1>3. /\ w \in Seq(S) /\ Len(w) = m + n
      /\ \A i \in 1 .. (m + n) : w[i] = IF i <= m THEN v[i] ELSE t[i - m]
  BY <1>1, <1>2, ConcatProperties
<1>4. n >= 1
  <2>1. m + 1 \in Occurrences(t, w, 1)
    BY <1>1, <1>2
  <2>2. m + 1 \in 1 .. Len(w)
    BY <2>1 DEF Occurrences
  <2> QED BY <1>1, <1>3, <2>2
<1>5. at + m - 1 <= M /\ \A i \in 1 .. m : name[at + i - 1] = v[i]
  BY <1>1, StartsPointwise
<1>6. (at + m) + n - 1 <= M /\ \A i \in 1 .. n : name[(at + m) + i - 1] = t[i]
  <2>1. at + m \in Nat \ {0}
    OBVIOUS
  <2>2. StartsAt(t, name, at + m)
    BY <1>1
  <2> QED BY <1>1, <2>1, <2>2, StartsPointwise
<1>7. ASSUME NEW x \in 1 .. (m + n) PROVE w[x] = name[at + x - 1]
  <2>1. CASE x <= m
    BY <1>3, <1>5, <2>1
  <2>2. CASE ~ (x <= m)
    <3>1. PICK i \in 1 .. n : i = x - m /\ (at + m) + i - 1 = at + x - 1
      BY <2>2
    <3> QED BY <1>3, <1>6, <2>2, <3>1
  <2> QED BY <2>1, <2>2
<1>8. at + m \in Occurrences(t, name, at)
  <2>1. at + m \in at .. M
    BY <1>4, <1>6
  <2> QED BY <1>1, <2>1 DEF Occurrences
<1>9. ASSUME NEW o \in Occurrences(t, name, at), o < at + m PROVE FALSE
  <2>1. o \in at .. M /\ StartsAt(t, name, o)
    BY <1>1 DEF Occurrences
  <2>2. \A i \in 1 .. n : name[o + i - 1] = t[i]
    <3>1. o \in Nat \ {0}
      BY <2>1
    <3>2. \A i \in 1 .. Len(t) : name[o + i - 1] = t[i]
      BY <2>1, <3>1, StartsPointwise
    <3> QED BY <1>1, <3>2
  <2>3. PICK d \in 1 .. m : d = o - at + 1
    BY <1>9, <2>1
  <2>4. \A i \in 1 .. n : w[d + i - 1] = t[i]
    <3>1. ASSUME NEW i \in 1 .. n PROVE w[d + i - 1] = t[i]
      <4>1. PICK x \in 1 .. (m + n) : x = d + i - 1 /\ at + x - 1 = o + i - 1
        BY <2>1, <2>3
      <4> QED BY <1>7, <2>2, <4>1
    <3> QED BY <3>1
  <2>5. StartsAt(t, w, d)
    <3>1. d + Len(t) - 1 <= Len(w) /\ d \in Nat \ {0}
      BY <1>1, <1>3
    <3>2. \A i \in 1 .. Len(t) : w[d + i - 1] = t[i]
      BY <1>1, <2>4
    <3> QED BY <1>3, <3>1, <3>2, StartsPointwise
  <2>6. d \in Occurrences(t, w, 1)
    <3>1. d \in 1 .. Len(w)
      BY <1>3
    <3> QED BY <2>5, <3>1 DEF Occurrences
  <2>7. d = m + 1
    BY <1>1, <1>2, <2>6
  <2> QED BY <2>7
<1>10. ASSUME NEW o \in Occurrences(t, name, at) PROVE at + m <= o
  <2>1. o \in Int
    BY <1>1 DEF Occurrences
  <2> QED BY <1>9, <2>1
<1> QED BY <1>1, <1>8, <1>10

\* A template's parts, its variables filled in.
Filled(parts, b) ==
  [i \in DOMAIN parts |-> IF parts[i].isVar THEN b[parts[i].text] ELSE parts[i].text]

LEMMA FilledTyped ==
  ASSUME NEW S, NEW parts \in PartsOver(S), NEW b,
         \A n \in Variables(parts) : b[n] \in Seq(S)
  PROVE  Filled(parts, b) \in Seq(Seq(S)) /\ Len(Filled(parts, b)) = Len(parts)
<1>1. PICK L \in Nat : L = Len(parts) /\ DOMAIN parts = 1 .. L
  BY LenProperties DEF PartsOver
<1>2. ASSUME NEW i \in 1 .. L
      PROVE  (IF parts[i].isVar THEN b[parts[i].text] ELSE parts[i].text) \in Seq(S)
  <2>1. parts[i].isVar => parts[i].text \in Variables(parts)
    BY <1>1 DEF Variables
  <2>2. parts[i].text \in Seq(S)
    BY <1>1, PartTyped
  <2> QED BY <2>1, <2>2
<1>3. PICK s : s = Filled(parts, b)
  OBVIOUS
<1>4. s \in [1 .. L -> Seq(S)]
  BY <1>1, <1>2, <1>3 DEF Filled
<1>5. s \in Seq(Seq(S)) /\ Len(s) = L
  BY <1>4
<1> QED BY <1>1, <1>3, <1>5

\* Filled in with what it captured, a template gives the name back.
LEMMA GivenBack ==
  ASSUME NEW S, NEW parts \in PartsOver(S), NEW name \in Seq(S), NamedOnce(parts),
         NEW b \in Match(parts, name)
  PROVE  Expand(parts, b) = {name}
<1>1. PICK L \in Nat, M \in Nat : L = Len(parts) /\ M = Len(name) /\ DOMAIN parts = 1 .. L
  BY LenProperties DEF PartsOver
<1>2. DOMAIN b = VariablesFrom(parts, 1) /\ \E q : Laid(parts, name, 1, 1, b, q)
  BY MatchTraced
<1>3. PICK q : Laid(parts, name, 1, 1, b, q)
  BY <1>2
<1>4. /\ \A k \in 1 .. (L + 1) : q[k] \in 1 .. (M + 1)
      /\ q \in [1 .. (L + 1) -> 1 .. (M + 1)] /\ q[1] = 1 /\ q[L + 1] = M + 1
      /\ \A k \in 1 .. L :
           IF parts[k].isVar
           THEN /\ q[k + 1] \in CaptureEnd(parts, k, name, q[k])
                /\ b[parts[k].text] = SubSeq(name, q[k], q[k + 1] - 1)
           ELSE /\ StartsAt(parts[k].text, name, q[k])
                /\ q[k + 1] = q[k] + Len(parts[k].text)
  BY <1>1, <1>3 DEF Laid
<1>5. Variables(parts) = DOMAIN b
  BY <1>1, <1>2 DEF Variables, VariablesFrom
<1>6. PICK s : s = Filled(parts, b)
  OBVIOUS
<1>7. ASSUME NEW k \in 1 .. L
      PROVE  /\ s[k] \in Seq(S) /\ q[k + 1] = q[k] + Len(s[k]) /\ StartsAt(s[k], name, q[k])
  <2>1. CASE parts[k].isVar
    <3>1. PICK at, end : at = q[k] /\ end = q[k + 1]
      OBVIOUS
    <3>2. /\ at \in 1 .. (M + 1) /\ end \in CaptureEnd(parts, k, name, at)
          /\ s[k] = SubSeq(name, at, end - 1)
      <4>1. s[k] = b[parts[k].text]
        BY <1>1, <1>6, <2>1 DEF Filled
      <4>2. k \in 1 .. (L + 1)
        OBVIOUS
      <4>3. /\ q[k] \in 1 .. (M + 1) /\ q[k + 1] \in CaptureEnd(parts, k, name, q[k])
            /\ b[parts[k].text] = SubSeq(name, q[k], q[k + 1] - 1)
        BY <1>4, <2>1, <4>2
      <4> QED BY <3>1, <4>1, <4>3
    <3>3. end \in 1 .. (M + 1) /\ at < end
      BY <1>1, <3>2, Ended
    <3>4. \A i \in at .. (end - 1) : name[i] \in S
      <4>1. \A i \in at .. (end - 1) : i \in 1 .. Len(name)
        BY <1>1, <3>2, <3>3
      <4> QED BY <4>1, ElementOfSeq
    <3>5. /\ s[k] \in Seq(S)
          /\ Len(s[k]) = IF at <= end - 1 THEN end - 1 - at + 1 ELSE 0
      <4>1. at \in Int /\ end - 1 \in Int
        BY <3>2, <3>3
      <4> QED BY <3>2, <3>4, <4>1, SubSeqProperties
    <3>6. Len(s[k]) = end - at
      BY <3>2, <3>3, <3>5
    <3>7. at + Len(s[k]) = end /\ at + Len(s[k]) - 1 = end - 1 /\ end - 1 <= Len(name)
      BY <1>1, <3>2, <3>3, <3>6
    <3>8. StartsAt(s[k], name, at)
      BY <3>2, <3>7 DEF StartsAt
    <3> QED BY <3>1, <3>5, <3>7, <3>8
  <2>2. CASE ~ parts[k].isVar
    <3>1. s[k] = parts[k].text
      BY <1>1, <1>6, <2>2 DEF Filled
    <3>2. parts[k].text \in Seq(S)
      BY <1>1, PartTyped
    <3> QED BY <1>4, <2>2, <3>1, <3>2
  <2> QED BY <2>1, <2>2
<1>8. s \in Seq(Seq(S)) /\ Len(s) = L
  <2>1. s \in [1 .. L -> Seq(S)]
    BY <1>1, <1>6, <1>7 DEF Filled
  <2> QED BY <2>1
<1>9. Cuts(s, name, q)
  <2>1. q \in [1 .. (L + 1) -> Nat \ {0}]
    BY <1>4
  <2> QED BY <1>1, <1>4, <1>7, <1>8, <2>1 DEF Cuts
<1>10. FlattenSeq(s) = name
  BY <1>8, <1>9, PartsMake
<1> QED BY <1>5, <1>6, <1>10 DEF Expand, Filled

\* Up to a part, no value holds the text after it.
EndsAsFilled(parts, a, k) ==
  \A j \in DOMAIN parts :
    j <= k /\ j < Len(parts) /\ parts[j].isVar =>
      Occurrences(parts[j + 1].text, a[parts[j].text] \o parts[j + 1].text, 1)
      = {Len(a[parts[j].text]) + 1}

\* Then what a template was filled in with at that part is what it captures.
LEMMA CapturedAsFilled ==
  ASSUME NEW S, NEW parts \in PartsOver(S), NamedOnce(parts), NEW a,
         \A n \in Variables(parts) : a[n] \in Seq(S),
         NEW name \in Expand(parts, a), NEW b \in Match(parts, name),
         NEW K \in DOMAIN parts, parts[K].isVar, EndsAsFilled(parts, a, K)
  PROVE  b[parts[K].text] = a[parts[K].text]
<1>1. PICK L \in Nat : L = Len(parts) /\ DOMAIN parts = 1 .. L
  BY LenProperties DEF PartsOver
<1>2. PICK s : s = Filled(parts, a)
  OBVIOUS
<1>3. s \in Seq(Seq(S)) /\ Len(s) = L
  BY <1>1, <1>2, FilledTyped
<1>4. name = FlattenSeq(s)
  BY <1>2 DEF Expand, Filled
<1>5. name \in Seq(S) /\ \E p : Cuts(s, name, p)
  BY <1>3, <1>4, PartsLie
<1>6. PICK p : Cuts(s, name, p)
  BY <1>5
<1>7. PICK M \in Nat : M = Len(name)
  BY <1>5, LenProperties
<1>8. /\ \A k \in 1 .. (L + 1) : p[k] \in Nat \ {0}
      /\ p[1] = 1 /\ p[L + 1] = M + 1
      /\ \A k \in 1 .. L : p[k + 1] = p[k] + Len(s[k]) /\ StartsAt(s[k], name, p[k])
  BY <1>3, <1>6, <1>7 DEF Cuts
<1>9. PICK q : Laid(parts, name, 1, 1, b, q)
  BY <1>5, MatchTraced
<1>10. /\ \A k \in 1 .. (L + 1) : q[k] \in 1 .. (M + 1)
       /\ q[1] = 1 /\ q[L + 1] = M + 1
       /\ \A k \in 1 .. L :
            IF parts[k].isVar
            THEN /\ q[k + 1] \in CaptureEnd(parts, k, name, q[k])
                 /\ b[parts[k].text] = SubSeq(name, q[k], q[k + 1] - 1)
            ELSE /\ StartsAt(parts[k].text, name, q[k])
                 /\ q[k + 1] = q[k] + Len(parts[k].text)
  BY <1>1, <1>7, <1>9 DEF Laid
<1>11. \A k \in 1 .. L : s[k] = IF parts[k].isVar THEN a[parts[k].text] ELSE parts[k].text
  BY <1>1, <1>2 DEF Filled
<1>12. ASSUME NEW k \in 1 .. L, k <= K, q[k] = p[k] PROVE q[k + 1] = p[k + 1]
  <2>0. k \in 1 .. (L + 1) /\ k + 1 \in 1 .. (L + 1)
    OBVIOUS
  <2>1. CASE ~ parts[k].isVar
    <3>1. p[k + 1] = p[k] + Len(s[k])
      BY <1>8
    <3>2. q[k + 1] = q[k] + Len(parts[k].text)
      BY <1>10, <2>1
    <3>3. s[k] = parts[k].text
      BY <1>11, <2>1
    <3> QED BY <3>1, <3>2, <3>3, <1>12
  <2>2. CASE parts[k].isVar /\ k = L
    BY <1>8, <1>10, <2>2
  <2>3. CASE parts[k].isVar /\ k # L /\ parts[k + 1].isVar
    <3>1. k + 1 \in 1 .. L /\ k \in 1 .. Len(parts) /\ k + 1 \in 1 .. Len(parts)
      BY <1>1, <2>3
    <3>2. PICK end : end = q[k + 1]
      OBVIOUS
    <3>3. PICK more : more = q[(k + 1) + 1]
      OBVIOUS
    <3>4. /\ q[k] \in 1 .. (Len(name) + 1) /\ end \in CaptureEnd(parts, k, name, q[k])
          /\ end \in 1 .. (Len(name) + 1) /\ more \in CaptureEnd(parts, k + 1, name, end)
      BY <1>7, <1>10, <2>0, <2>3, <3>1, <3>2, <3>3
    <3>5. end = Len(name) + 1
      BY <1>5, <2>3, <3>1, <3>4, Ended
    <3>6. more \in 1 .. (Len(name) + 1) /\ end < more
      BY <1>5, <3>1, <3>4, Ended
    <3> QED BY <1>7, <3>5, <3>6
  <2>4. CASE parts[k].isVar /\ k # L /\ ~ parts[k + 1].isVar
    <3>1. k + 1 \in 1 .. L /\ k \in 1 .. Len(parts) /\ k < Len(parts) /\ k + 1 \in 1 .. Len(parts)
      BY <1>1, <2>4
    <3>2. PICK v, t, at, end : v = s[k] /\ t = parts[k + 1].text /\ at = p[k] /\ end = q[k + 1]
      OBVIOUS
    <3>3. v \in Seq(S) /\ t \in Seq(S) /\ at \in Nat \ {0}
      BY <1>3, <1>8, <2>0, <3>1, <3>2, ElementOfSeq, PartTyped
    <3>4. StartsAt(v, name, at) /\ StartsAt(t, name, at + Len(v)) /\ p[k + 1] = at + Len(v)
      BY <1>8, <1>11, <2>4, <3>1, <3>2
    <3>5. Occurrences(t, v \o t, 1) = {Len(v) + 1}
      BY <1>1, <1>11, <1>12, <2>4, <3>1, <3>2 DEF EndsAsFilled
    <3>6. /\ at + Len(v) \in Occurrences(t, name, at)
          /\ \A o \in Occurrences(t, name, at) : at + Len(v) <= o
      BY <1>5, <3>3, <3>4, <3>5, FirstEnd
    <3>7. at \in 1 .. (Len(name) + 1) /\ end \in CaptureEnd(parts, k, name, at)
      BY <1>7, <1>10, <1>12, <2>0, <2>4, <3>2
    <3>8. end \in Occurrences(t, name, at) /\ \A o \in Occurrences(t, name, at) : end <= o
      BY <1>5, <2>4, <3>1, <3>2, <3>7, Ended
    <3>9. end <= at + Len(v) /\ at + Len(v) <= end
      BY <3>6, <3>8
    <3>10. end = at + Len(v)
      <4>1. end \in Int /\ Len(v) \in Nat
        BY <1>10, <2>0, <3>2, <3>3, LenProperties
      <4> QED BY <3>3, <3>9, <4>1
    <3> QED BY <3>2, <3>4, <3>10
  <2> QED BY <2>1, <2>2, <2>3, <2>4
<1> DEFINE P == {n \in Nat : q[n + 1] = p[n + 1]}
<1>13. \A n \in 0 .. K : n \in P
  <2>1. 0 \in P
    BY <1>8, <1>10
  <2>2. ASSUME NEW n \in 0 .. (K - 1), n \in P PROVE n + 1 \in P
    <3>1. n + 1 \in 1 .. L /\ n + 1 <= K /\ q[n + 1] = p[n + 1]
      BY <1>1, <2>2
    <3> QED BY <1>12, <3>1
  <2> HIDE DEF P
  <2>3. K \in Nat
    BY <1>1
  <2> QED BY <2>1, <2>2, <2>3, UpTo
<1>14. ASSUME NEW k \in 1 .. L, k = K PROVE b[parts[k].text] = a[parts[k].text]
  <2>1. q[k] = p[k] /\ q[k + 1] = p[k + 1]
    <3>1. PICK n \in 0 .. K : k = n + 1
      BY <1>14
    <3>2. q[k] = p[k]
      BY <1>13, <3>1
    <3> QED BY <1>12, <1>14, <3>2
  <2>2. b[parts[k].text] = SubSeq(name, p[k], p[k + 1] - 1)
    BY <1>10, <1>14, <2>1
  <2>3. StartsAt(s[k], name, p[k]) /\ p[k + 1] = p[k] + Len(s[k])
    BY <1>8
  <2>4. SubSeq(name, p[k], p[k + 1] - 1) = s[k]
    <3>1. SubSeq(name, p[k], p[k] + Len(s[k]) - 1) = s[k]
      BY <2>3, Zenon DEF StartsAt
    <3>2. PICK at \in Nat, end \in Nat, n \in Nat :
            at = p[k] /\ end = p[k + 1] /\ n = Len(s[k]) /\ end = at + n
      <4>1. k \in 1 .. (L + 1) /\ k + 1 \in 1 .. (L + 1) /\ Len(s[k]) \in Nat
        BY <1>3, ElementOfSeq, LenProperties
      <4> QED BY <1>8, <2>3, <4>1
    <3>3. at + n - 1 = end - 1
      BY <3>2
    <3>4. SubSeq(name, at, end - 1) = s[k]
      BY <3>1, <3>2, <3>3
    <3> QED BY <3>2, <3>4
  <2>5. s[k] = a[parts[k].text]
    BY <1>11, <1>14
  <2> QED BY <2>2, <2>4, <2>5
<1> QED BY <1>1, <1>14
-----------------------------------------------------------------------------
(* The call that carries an intent. *)

LEMMA KindKnown ==
  ASSUME NEW dr \in Doors, NEW intent \in IntentsOf(dr)
  PROVE  intent.kind \in {"issue", "traced", "is_cached", "entries"}
BY DoorsAssumption DEF Kinds

\* What BuildIssueCall makes of an intent, and DowngradeCall of that.
LEMMA CallShape ==
  ASSUME NEW dr, NEW intent, NEW v \in Versions,
         intent.kind \in {"issue", "traced"}
  PROVE  LET request == RequestOf(dr, intent)
             trace   == IF intent.kind = "traced" THEN Traced ELSE <<>>
             run     == intent.retries # <<>> \/ intent.timeLeft # <<>>
         IN  CallOf(dr, intent, v) =
               IF run /\ v >= IssueWithSince
               THEN <<"IssueWith", request, Or(intent.capability, Root),
                      <<trace, intent.retries, intent.timeLeft>>>>
               ELSE IF intent.kind = "traced"
               THEN <<"IssueTraced", request, Or(intent.capability, Root), Context>>
               ELSE IF intent.capability = <<>> THEN <<"Issue", request>>
               ELSE <<"IssueAs", request, intent.capability[1]>>
<1>1. Traced # <<>> /\ Traced[1] = Context
  BY DEF Traced
<1>2. Or(<<v>>, 0) = v
  BY DEF Or
<1> QED BY <1>1, <1>2 DEF CallOf, BuildIssueCall

\* A call built for a peer of one version and put for one of an earlier is
\* among the forms the codec is asked to keep, and asks the same.
LEMMA CallKept ==
  ASSUME NEW dr \in Doors, NEW intent \in IntentsOf(dr), NEW built \in Versions,
         NEW v \in Versions, v <= built
  PROVE  LET sent == DowngradeCall(CallOf(dr, intent, built), <<v>>)
         IN  /\ sent \in Forms(dr, intent, v)
             /\ intent.kind \in {"issue", "traced"} =>
                  /\ Taken(sent) = [request |-> RequestOf(dr, intent),
                                    capability |-> Or(intent.capability, Root),
                                    traced |-> intent.kind = "traced"]
                  /\ Run(sent) = IF v >= IssueWithSince THEN <<intent.retries, intent.timeLeft>>
                                 ELSE <<<<>>, <<>>>>
                  /\ sent[1] \notin {"Entries", "IsCached"}
             /\ intent.kind = "entries"   => sent = <<"Entries">>
             /\ intent.kind = "is_cached" => sent = <<"IsCached", RequestOf(dr, intent)>>
<1> DEFINE request == RequestOf(dr, intent)
           caps    == {Root, Or(intent.capability, Root)}
           sent    == DowngradeCall(CallOf(dr, intent, built), <<v>>)
<1>1. Or(<<v>>, 0) = v
  BY DEF Or
<1>2. CASE intent.kind = "entries"
  BY <1>2 DEF CallOf, DowngradeCall, Forms
<1>3. CASE intent.kind = "is_cached"
  BY <1>3 DEF CallOf, DowngradeCall, Forms
<1>4. CASE intent.kind \in {"issue", "traced"}
  <2> DEFINE trace == IF intent.kind = "traced" THEN Traced ELSE <<>>
             cap   == Or(intent.capability, Root)
             run   == intent.retries # <<>> \/ intent.timeLeft # <<>>
  <2>1. Traced # <<>> /\ Traced[1] = Context
    BY DEF Traced
  <2>2. intent.capability = <<>> => cap = Root
    BY DEF Or
  <2>3. intent.capability # <<>> => cap = intent.capability[1]
    BY DEF Or
  <2>4. sent = IF run /\ v >= IssueWithSince
               THEN <<"IssueWith", request, cap, <<trace, intent.retries, intent.timeLeft>>>>
               ELSE IF intent.kind = "traced" THEN <<"IssueTraced", request, cap, Context>>
               ELSE IF intent.capability = <<>> /\ ~(run /\ built >= IssueWithSince)
               THEN <<"Issue", request>>
               ELSE <<"IssueAs", request, cap>>
    <3> HIDE DEF request, cap
    <3>1. CASE run /\ built >= IssueWithSince
      <4>1. CallOf(dr, intent, built)
            = <<"IssueWith", request, cap, <<trace, intent.retries, intent.timeLeft>>>>
        BY <1>4, <3>1, CallShape DEF request, cap
      <4>2. CASE v >= IssueWithSince
        <5>1. ~(v < IssueWithSince)
          BY <4>2 DEF Versions, OldestVersion, ProtocolVersion, IssueWithSince
        <5> QED BY <4>1, <4>2, <5>1, <3>1, <1>1 DEF DowngradeCall
      <4>3. CASE ~(v >= IssueWithSince)
        <5>1. v < IssueWithSince
          BY <4>3 DEF Versions, OldestVersion, ProtocolVersion, IssueWithSince
        <5>2. sent = IF trace # <<>> THEN <<"IssueTraced", request, cap, trace[1]>>
                     ELSE <<"IssueAs", request, cap>>
          BY <4>1, <5>1, <1>1 DEF DowngradeCall
        <5> QED BY <5>2, <4>3, <3>1, <2>1, <1>4
      <4> QED BY <4>2, <4>3
    <3>2. CASE ~(run /\ built >= IssueWithSince)
      <4>1. ~(run /\ v >= IssueWithSince)
        BY <3>2 DEF Versions, OldestVersion, ProtocolVersion, IssueWithSince
      <4>2. CallOf(dr, intent, built)
            = IF intent.kind = "traced" THEN <<"IssueTraced", request, cap, Context>>
              ELSE IF intent.capability = <<>> THEN <<"Issue", request>>
              ELSE <<"IssueAs", request, cap>>
        BY <1>4, <3>2, <2>3, CallShape DEF request, cap
      <4>3. CallOf(dr, intent, built)[1] # "IssueWith"
        BY <4>2
      <4> QED BY <4>1, <4>2, <4>3, <3>2 DEF DowngradeCall
    <3> QED BY <3>1, <3>2
  <2>5. IssueWithSince = 9 /\ v \in 7 .. 9
    BY DEF IssueWithSince, Versions, OldestVersion, ProtocolVersion
  <2> HIDE DEF sent, request, cap
  <2>6. sent \in Forms(dr, intent, v)
    <3>1. Forms(dr, intent, v) =
            {<<"Issue", request>>}
            \cup {<<"IssueAs", request, c>> : c \in {Root, cap}}
            \cup {<<"IssueTraced", request, c, Context>> : c \in {Root, cap}}
            \cup {<<"IssueWith", request, c, <<t, intent.retries, intent.timeLeft>>>> :
                     c \in IF v < IssueWithSince THEN {} ELSE {Root, cap}, t \in {<<>>, Traced}}
      BY <1>4 DEF Forms, request, cap
    <3> QED BY <3>1, <2>4, <2>5
  <2>7. Taken(sent) = [request |-> request, capability |-> cap, traced |-> intent.kind = "traced"]
    BY <2>1, <2>2, <2>4, <1>4 DEF Taken, Request, Capability, WantsTrace
  <2>8. Run(sent) = IF v >= IssueWithSince THEN <<intent.retries, intent.timeLeft>>
                    ELSE <<<<>>, <<>>>>
    BY <2>4 DEF Run
  <2>9. sent[1] \notin {"Entries", "IsCached"}
    BY <2>4
  <2> QED BY <2>6, <2>7, <2>8, <2>9, <1>4 DEF request, cap, sent
<1> QED BY <1>2, <1>3, <1>4, KindKnown

\* A call built for a version is not changed for a peer of that version.
LEMMA CallAsBuilt ==
  ASSUME NEW dr \in Doors, NEW intent \in IntentsOf(dr), NEW v \in Versions
  PROVE  DowngradeCall(CallOf(dr, intent, v), <<v>>) = CallOf(dr, intent, v)
<1>1. Or(<<v>>, 0) = v
  BY DEF Or
<1>2. CASE intent.kind \in {"issue", "traced"}
  <2>1. v < IssueWithSince => ~(v >= IssueWithSince)
    BY DEF Versions, OldestVersion, ProtocolVersion, IssueWithSince
  <2>2. v < IssueWithSince => CallOf(dr, intent, v)[1] # "IssueWith"
    BY <1>2, <2>1, CallShape
  <2> QED BY <1>1, <2>2 DEF DowngradeCall
<1>3. CASE intent.kind \in {"is_cached", "entries"}
  BY <1>3 DEF CallOf, DowngradeCall
<1> QED BY <1>2, <1>3, KindKnown
-----------------------------------------------------------------------------
(* Failures, and how one is put for an older peer. *)

LEMMA Suffix ==
  ASSUME NEW S, NEW s \in Seq(S), NEW t \in Seq(S)
  PROVE  IsSuffix(t, s \o t)
<1>1. s \o t \in Seq(S) /\ Len(s \o t) = Len(s) + Len(t) /\ Len(s) \in Nat /\ Len(t) \in Nat
      /\ \A i \in 1 .. Len(t) : (s \o t)[Len(s) + i] = t[i]
  BY Joined
<1>2. PICK u : u = s \o t
  OBVIOUS
<1> DEFINE rt == [i \in 1 .. Len(t) |-> t[(Len(t) - i) + 1]]
           ru == [i \in 1 .. Len(u) |-> u[(Len(u) - i) + 1]]
<1>3. rt \in Seq(S) /\ Len(rt) = Len(t)
  <2>1. \A i \in 1 .. Len(t) : t[(Len(t) - i) + 1] \in S
    BY <1>1
  <2> QED BY <1>1, <2>1, IsASeq
<1>4. ru \in Seq(S) /\ Len(ru) = Len(u)
  <2>1. \A i \in 1 .. Len(u) : u[(Len(u) - i) + 1] \in S
    BY <1>1, <1>2
  <2> QED BY <1>1, <1>2, <2>1, IsASeq
<1>5. ASSUME NEW i \in 1 .. Len(t) PROVE rt[i] = ru[i]
  <2>1. i \in 1 .. Len(u) /\ (Len(u) - i) + 1 = Len(s) + ((Len(t) - i) + 1)
        /\ (Len(t) - i) + 1 \in 1 .. Len(t)
    BY <1>1, <1>2
  <2> QED BY <1>1, <1>2, <2>1
<1>6. Reverse(t) = rt /\ Reverse(u) = ru
  BY DEF Reverse
<1> HIDE DEF rt, ru
<1>7. SubSeq(rt, 1, Len(rt)) = SubSeq(ru, 1, Len(rt))
  <2>1. Len(rt) <= Len(ru) /\ Len(rt) \in Nat
    BY <1>1, <1>2, <1>3, <1>4
  <2>2. \A i \in 1 .. Len(rt) : rt[i] = ru[i] /\ rt[i] \in S
    BY <1>3, <1>5
  <2> QED BY <1>3, <1>4, <2>1, <2>2
<1>8. Len(rt) <= Len(ru)
  BY <1>1, <1>2, <1>3, <1>4
<1> QED BY <1>2, <1>6, <1>7, <1>8 DEF IsSuffix, IsPrefix

LEMMA OwnSuffix ==
  ASSUME NEW S, NEW t \in Seq(S)
  PROVE  IsSuffix(t, t)
<1>1. <<>> \in Seq(S) /\ <<>> \o t = t
  BY EmptySeq, ConcatEmptySeq
<1> QED BY <1>1, Suffix

\* A text that another is put before ends with itself, and starts as that does.
LEMMA Worded ==
  ASSUME NEW w \in 0 .. 127, NEW t \in Text
  PROVE  /\ <<w>> \o t \in Text /\ (<<w>> \o t)[1] = w
         /\ Len(<<w>> \o t) >= 1 /\ IsSuffix(t, <<w>> \o t)
<1>1. PICK s : s = <<w>>
  OBVIOUS
<1>2. s \in Seq(0 .. 127) /\ Len(s) = 1 /\ s[1] = w /\ 1 \in 1 .. Len(s)
  BY <1>1
<1>3. /\ s \o t \in Seq(0 .. 127) /\ Len(s \o t) = Len(s) + Len(t)
      /\ \A i \in 1 .. Len(s) : (s \o t)[i] = s[i]
  BY <1>2, Joined DEF Text
<1>4. IsSuffix(t, s \o t)
  BY <1>2, Suffix DEF Text
<1>5. Len(t) \in Nat
  BY DEF Text
<1> QED BY <1>1, <1>2, <1>3, <1>4, <1>5 DEF Text

LEMMA DigitIsText ==
  ASSUME NEW n \in Nat
  PROVE  Digit(n) \in Text
<1>1. 48 + (n % 10) \in 0 .. 127
  OBVIOUS
<1> QED BY <1>1 DEF Digit, Text

LEMMA TextsJoin ==
  ASSUME NEW s \in Text, NEW t \in Text
  PROVE  /\ s \o t \in Text /\ Len(s \o t) = Len(s) + Len(t) /\ Len(s) \in Nat /\ Len(t) \in Nat
         /\ Len(s) >= 1 => (s \o t)[1] = s[1]
         /\ IsSuffix(t, s \o t)
<1>1. /\ s \o t \in Seq(0 .. 127) /\ Len(s \o t) = Len(s) + Len(t)
      /\ \A i \in 1 .. Len(s) : (s \o t)[i] = s[i]
  BY Joined DEF Text
<1>2. IsSuffix(t, s \o t) /\ Len(s) \in Nat /\ Len(t) \in Nat
  BY Suffix DEF Text
<1> QED BY <1>1, <1>2 DEF Text

\* The rendering of a later failure: its kind's word first, its message last.
LEMMA Displayed ==
  ASSUME NEW e \in WireErrors, e[1] \in LaterFailures
  PROVE  /\ Display(e) \in Text /\ Len(Display(e)) >= 1 /\ Display(e)[1] \in 74 .. 78
         /\ IsSuffix(Message(e), Display(e))
<1>1. CASE e[1] = "DepthExceeded"
  <2>1. PICK x \in Text : x = e[3]
    BY <1>1 DEF WireErrors
  <2>2. PICK d \in Text : d = Digit(e[2])
    BY <1>1, DigitIsText DEF WireErrors
  <2>3. PICK s : s = <<74>> \o x
    OBVIOUS
  <2>4. 74 \in 0 .. 127
    OBVIOUS
  <2>5. s \in Text /\ s[1] = 74 /\ Len(s) >= 1
    BY <2>3, <2>4, Worded
  <2>6. PICK t : t = s \o d
    OBVIOUS
  <2>7. t \in Text /\ t[1] = 74 /\ Len(t) >= 1
    BY <2>5, <2>6, TextsJoin
  <2>8. IsSuffix(t, t)
    BY <2>7, OwnSuffix DEF Text
  <2>9. Message(e) = t
    <3>1. Message(e) = (Word(e[1]) \o e[3]) \o Digit(e[2])
      BY <1>1 DEF Message
    <3>2. Word(e[1]) = <<74>>
      BY <1>1 DEF Word, Words
    <3> QED BY <2>1, <2>2, <2>3, <2>6, <3>1, <3>2
  <2>10. Display(e) = Message(e)
    BY <1>1 DEF Display, Wordless
  <2> QED BY <2>7, <2>8, <2>9, <2>10
<1>2. CASE e[1] = "RetryAfter"
  <2>1. PICK x \in Text : x = e[3]
    BY <1>2 DEF WireErrors
  <2>2. PICK d : d = IF e[2] = <<>> THEN <<>> ELSE Digit(e[2][1])
    OBVIOUS
  <2>3. d \in Text
    <3>1. e[2] # <<>> => e[2][1] \in Nat
      BY <1>2 DEF WireErrors, Option
    <3> QED BY <2>2, <3>1, DigitIsText, EmptySeq DEF Text
  <2>4. PICK s : s = <<75>> \o d
    OBVIOUS
  <2>5. 75 \in 0 .. 127
    OBVIOUS
  <2>6. s \in Text /\ s[1] = 75 /\ Len(s) >= 1
    BY <2>3, <2>4, <2>5, Worded
  <2>7. PICK t : t = s \o x
    OBVIOUS
  <2>8. t \in Text /\ t[1] = 75 /\ Len(t) >= 1 /\ IsSuffix(x, t)
    BY <2>6, <2>7, TextsJoin
  <2>9. Display(e) = t
    <3>1. Display(e)
          = (Word(e[1]) \o (IF e[2] = <<>> THEN <<>> ELSE Digit(e[2][1]))) \o e[3]
      BY <1>2 DEF Display
    <3>2. Word(e[1]) = <<75>>
      BY <1>2 DEF Word, Words
    <3> QED BY <2>1, <2>2, <2>4, <2>7, <3>1, <3>2
  <2>10. Message(e) = x
    BY <1>2, <2>1 DEF Message
  <2> QED BY <2>8, <2>9, <2>10
<1>3. CASE e[1] \in {"OverBudget", "Refused"}
  <2>1. PICK x \in Text : x = e[2]
    BY <1>3 DEF WireErrors
  <2>2. PICK w \in 74 .. 78 : w = Words[e[1]]
    BY <1>3 DEF Words
  <2>3. PICK t : t = <<w>> \o x
    OBVIOUS
  <2>4. t \in Text /\ t[1] = w /\ Len(t) >= 1 /\ IsSuffix(x, t)
    <3>1. w \in 0 .. 127
      OBVIOUS
    <3> QED BY <3>1, <2>3, Worded
  <2>5. Message(e) = x
    BY <1>3, <2>1 DEF Message
  <2>6. Display(e) = t
    BY <1>3, <2>2, <2>3, <2>5 DEF Display, Wordless, Word
  <2> QED BY <2>4, <2>5, <2>6
<1>4. CASE e[1] = "Unsupported"
  <2>1. PICK x \in Text : x = e[3]
    BY <1>4 DEF WireErrors
  <2>2. PICK t : t = <<78>> \o x
    OBVIOUS
  <2>3. t \in Text /\ t[1] = 78 /\ Len(t) >= 1 /\ IsSuffix(x, t)
    <3>1. 78 \in 0 .. 127
      OBVIOUS
    <3> QED BY <3>1, <2>2, Worded
  <2>4. Message(e) = x
    BY <1>4, <2>1 DEF Message
  <2>5. Display(e) = t
    BY <1>4, <2>2, <2>4 DEF Display, Wordless, Word, Words
  <2> QED BY <2>3, <2>4, <2>5
<1> QED BY <1>1, <1>2, <1>3, <1>4 DEF LaterFailures

\* What an older peer is told of a failure conveys it, and never names
\* nothing.
LEMMA FailurePut ==
  ASSUME NEW e, NEW v \in Versions,
         e \in Failures \/ e[1] \in {"Unresolved", "MissingArgument", "InvalidArgument"}
  PROVE  /\ Conveys(DowngradeError(e, v), e, v)
         /\ DowngradeError(e, v) # <<"Endpoint", Unnamed>>
<1>1. CASE e[1] = "Conflict" /\ v < ConflictSince
  <2>1. e \in WireErrors /\ e[1] = "Conflict"
    BY <1>1, FailuresAssumption
  <2>2. PICK x \in Text : x = e[2]
    BY <2>1 DEF WireErrors
  <2>3. 73 \in 0 .. 127
    OBVIOUS
  <2>4. PICK t : t = <<73>> \o x
    OBVIOUS
  <2>5. t[1] = 73 /\ IsSuffix(x, t)
    BY <2>3, <2>4, Worded
  <2>6. DowngradeError(e, v) = <<"Endpoint", t>>
    BY <1>1, <2>2, <2>4 DEF DowngradeError, Word, Words
  <2>7. Message(e) = x
    BY <2>1, <2>2 DEF Message
  <2>8. FailureClass(<<"Endpoint", t>>) = "unknown"
    BY DEF FailureClass, Transient
  <2>9. t # Unnamed
    BY <2>5 DEF Unnamed
  <2> QED BY <1>1, <2>5, <2>6, <2>7, <2>8, <2>9 DEF Conveys
<1>2. CASE e[1] \in LaterFailures /\ v < IssueWithSince
  <2>1. e \in WireErrors
    BY <1>2, FailuresAssumption DEF LaterFailures
  <2>2. PICK t : t = Display(e)
    OBVIOUS
  <2>3. t[1] \in 74 .. 78 /\ IsSuffix(Message(e), t)
    BY <1>2, <2>1, <2>2, Displayed
  <2>4. DowngradeError(e, v) = <<"Endpoint", t>>
    BY <1>2, <2>2 DEF DowngradeError, LaterFailures
  <2>5. FailureClass(<<"Endpoint", t>>) = "unknown"
    BY DEF FailureClass, Transient
  <2>6. t # Unnamed
    BY <2>3 DEF Unnamed
  <2> QED BY <1>2, <2>3, <2>4, <2>5, <2>6 DEF Conveys
<1>3. CASE /\ ~(e[1] = "Conflict" /\ v < ConflictSince)
           /\ ~(e[1] \in LaterFailures /\ v < IssueWithSince)
  <2>1. DowngradeError(e, v) = e
    BY <1>3 DEF DowngradeError
  <2>2. e # <<"Endpoint", Unnamed>>
    BY FailuresAssumption
  <2> QED BY <1>3, <2>1, <2>2 DEF Conveys
<1> QED BY <1>1, <1>2, <1>3
-----------------------------------------------------------------------------
(* Replies, and what each makes of its call. *)

\* A request that is refused is answered with a failure of its own.
LEMMA Refused ==
  ASSUME NEW dr, NEW call, call[1] \notin {"Entries", "IsCached"}, Immediate(dr, call) # <<>>
  PROVE  \E e : /\ Immediate(dr, call)[1] = <<"ErrorTyped", e>>
                /\ e[1] \in {"Unresolved", "MissingArgument", "InvalidArgument"}
<1> DEFINE request  == Request(call)
           bindings == Match(dr.parts, request[2])
           refusals == Refusals(dr.action, CHOOSE b \in bindings : TRUE, request[3])
           replies  == [i \in 1 .. (IF refusals = <<>> THEN 0 ELSE 1) |-> Failed(RefusedAs(refusals[i]))]
<1>1. Immediate(dr, call) = IF bindings = {} THEN <<Failed(<<"Unresolved", request[2]>>)>>
                            ELSE replies
  BY DEF Immediate
<1>2. CASE bindings = {}
  <2>1. Immediate(dr, call)[1] = <<"ErrorTyped", <<"Unresolved", request[2]>>>>
    BY <1>1, <1>2 DEF Failed
  <2> QED BY <2>1
<1>3. CASE bindings # {}
  <2>1. refusals # <<>>
    <3>1. SUFFICES ASSUME refusals = <<>> PROVE FALSE
      OBVIOUS
    <3>2. replies = <<>>
      BY <3>1
    <3> QED BY <3>2, <1>1, <1>3
  <2>2. Immediate(dr, call)[1] = <<"ErrorTyped", RefusedAs(refusals[1])>>
    BY <2>1, <1>1, <1>3 DEF Failed
  <2>3. PICK refusal : refusal = refusals[1]
    OBVIOUS
  <2>4. RefusedAs(refusal)[1] \in {"MissingArgument", "InvalidArgument"}
    BY DEF RefusedAs
  <2> HIDE DEF refusals
  <2> QED BY <2>2, <2>3, <2>4
<1> QED BY <1>2, <1>3

LEMMA AnswerShape ==
  ASSUME NEW dr \in Doors, NEW intent \in IntentsOf(dr), NEW v \in Versions,
         NEW reply \in Answers(dr, CallOf(dr, intent, v))
  PROVE  /\ intent.kind = "entries"   => reply = <<"Entries", reply[2]>>
         /\ intent.kind = "is_cached" => reply = <<"Cached", FALSE>>
         /\ intent.kind \in {"issue", "traced"} =>
              \/ \E e : /\ reply = <<"ErrorTyped", e>>
                        /\ \/ e \in Failures
                           \/ e[1] \in {"Unresolved", "MissingArgument", "InvalidArgument"}
              \/ intent.kind = "issue" /\ \E x, y : reply = <<"Resolved", x, y>>
              \/ intent.kind = "traced" /\ \E x, y, z : reply = <<"ResolvedTraced", x, y, z>>
<1> DEFINE call == CallOf(dr, intent, v)
<1>1. v <= v
  BY DEF Versions, OldestVersion, ProtocolVersion
<1>2. /\ intent.kind \in {"issue", "traced"} =>
           /\ Taken(call) = [request |-> RequestOf(dr, intent),
                             capability |-> Or(intent.capability, Root),
                             traced |-> intent.kind = "traced"]
           /\ call[1] \notin {"Entries", "IsCached"}
      /\ intent.kind = "entries"   => call[1] = "Entries"
      /\ intent.kind = "is_cached" => call[1] = "IsCached"
  <2>1. DowngradeCall(call, <<v>>) = call
    BY CallAsBuilt
  <2>2. LET sent == DowngradeCall(call, <<v>>)
        IN  /\ intent.kind \in {"issue", "traced"} =>
                 /\ Taken(sent) = [request |-> RequestOf(dr, intent),
                                   capability |-> Or(intent.capability, Root),
                                   traced |-> intent.kind = "traced"]
                 /\ sent[1] \notin {"Entries", "IsCached"}
            /\ intent.kind = "entries"   => sent = <<"Entries">>
            /\ intent.kind = "is_cached" => sent = <<"IsCached", RequestOf(dr, intent)>>
    BY <1>1, CallKept
  <2> HIDE DEF call
  <2> QED BY <2>1, <2>2
<1> HIDE DEF call
<1>3. CASE intent.kind = "entries"
  <2>1. PICK x : Immediate(dr, call) = <<<<"Entries", x>>>>
    BY <1>2, <1>3 DEF Immediate
  <2>2. Immediate(dr, call) # <<>> /\ Immediate(dr, call)[1] = <<"Entries", x>>
    BY <2>1
  <2>3. reply = <<"Entries", x>>
    BY <2>2 DEF Answers, call
  <2> QED BY <2>3, <1>3
<1>4. CASE intent.kind = "is_cached"
  <2>1. PICK r : r = <<"Cached", FALSE>>
    OBVIOUS
  <2>2. Immediate(dr, call) = <<r>>
    BY <1>2, <1>4, <2>1 DEF Immediate
  <2>3. Immediate(dr, call) # <<>> /\ Immediate(dr, call)[1] = r
    BY <2>2
  <2>4. reply = r
    BY <2>3 DEF Answers, call
  <2> QED BY <2>1, <2>4, <1>4
<1>5. CASE intent.kind \in {"issue", "traced"}
  <2>1. call[1] \notin {"Entries", "IsCached"} /\ WantsTrace(call) = (intent.kind = "traced")
    BY <1>2, <1>5 DEF Taken
  <2>2. CASE Immediate(dr, call) # <<>>
    <3>1. reply = Immediate(dr, call)[1]
      BY <2>2 DEF Answers, call
    <3>2. \E e : /\ Immediate(dr, call)[1] = <<"ErrorTyped", e>>
                 /\ e[1] \in {"Unresolved", "MissingArgument", "InvalidArgument"}
      BY <2>1, <2>2, Refused
    <3> QED BY <3>1, <3>2, <1>5
  <2>3. CASE Immediate(dr, call) = <<>>
    <3>1. \/ \E result \in Results : reply = Returned(call, result)
          \/ \E error \in Failures : reply = Failed(error)
      BY <2>3 DEF Answers, call
    <3>2. CASE \E error \in Failures : reply = Failed(error)
      BY <3>2, <1>5 DEF Failed
    <3>3. CASE \E result \in Results : reply = Returned(call, result)
      <4>1. PICK result \in Results : reply = Returned(call, result)
        BY <3>3
      <4>2. CASE intent.kind = "traced"
        <5>1. reply = <<"ResolvedTraced", result[1], result[2], <<Span(call)>> >>
          BY <4>1, <4>2, <2>1 DEF Returned
        <5> QED BY <5>1, <4>2
      <4>3. CASE intent.kind = "issue"
        <5>1. reply = <<"Resolved", result[1], result[2]>>
          BY <4>1, <4>3, <2>1 DEF Returned
        <5> QED BY <5>1, <4>3
      <4> QED BY <4>2, <4>3, <1>5
    <3> QED BY <3>1, <3>2, <3>3
  <2> QED BY <2>2, <2>3
<1> QED BY <1>3, <1>4, <1>5, KindKnown

\* What outcome a call of intent may have of a reply, written for a peer of
\* version v.
Fits(intent, reply, outcome, v) ==
  \/ \E x : intent.kind = "entries" /\ reply = <<"Entries", x>> /\ outcome = <<"entries", x>>
  \/ intent.kind = "is_cached" /\ outcome[1] = "cached"
  \/ \E e : /\ reply = <<"ErrorTyped", e>> /\ outcome = <<"raised", DowngradeError(e, v)>>
            /\ \/ e \in Failures
               \/ e[1] \in {"Unresolved", "MissingArgument", "InvalidArgument"}
  \/ \E x, y : /\ reply[1] \in {"Resolved", "ResolvedTraced"} /\ SubSeq(reply, 2, 3) = <<x, y>>
               /\ outcome = <<"resolved", x, y>>

LEMMA SecondAndThird ==
  ASSUME NEW a, NEW x, NEW y, NEW z
  PROVE  SubSeq(<<a, x, y>>, 2, 3) = <<x, y>> /\ SubSeq(<<a, x, y, z>>, 2, 3) = <<x, y>>
<1>1. PICK S : S = {a, x, y, z}
  OBVIOUS
<1>2. ASSUME NEW s \in Seq(S), s[2] = x, s[3] = y
      PROVE  SubSeq(s, 2, 3) = <<x, y>>
  <2>1. \A i \in 2 .. 3 : s[i] \in S
    BY <1>1, <1>2
  <2>2. PICK t : t = SubSeq(s, 2, 3)
    OBVIOUS
  <2>3. t \in Seq(S) /\ Len(t) = 2 /\ \A i \in 1 .. 2 : t[i] = s[2 + i - 1]
    BY <2>1, <2>2, SubSeqProperties
  <2>4. t[1] = x /\ t[2] = y
    BY <2>3, <1>2
  <2>5. PICK u : u = <<x, y>>
    OBVIOUS
  <2>6. u \in Seq(S) /\ Len(u) = 2 /\ u[1] = x /\ u[2] = y
    BY <2>5, <1>1
  <2>7. t = u
    BY <2>3, <2>4, <2>6, SeqEqual
  <2> QED BY <2>2, <2>5, <2>7
<1>3. <<a, x, y>> \in Seq(S) /\ <<a, x, y, z>> \in Seq(S)
  BY <1>1
<1> QED BY <1>2, <1>3

LEMMA OutcomeFits ==
  ASSUME NEW dr \in Doors, NEW intent \in IntentsOf(dr), NEW v \in Versions,
         NEW reply \in Answers(dr, CallOf(dr, intent, v))
  PROVE  Fits(intent, reply, Outcome(intent, DowngradeReply(reply, v)), v)
<1> DEFINE outcome == Outcome(intent, DowngradeReply(reply, v))
<1>1. CASE intent.kind = "entries"
  <2>1. PICK x : reply = <<"Entries", x>>
    BY <1>1, AnswerShape
  <2>2. outcome = <<"entries", x>>
    BY <1>1, <2>1 DEF Outcome, DowngradeReply, ReplyError
  <2> QED BY <1>1, <2>1, <2>2 DEF Fits
<1>2. CASE intent.kind = "is_cached"
  <2>1. reply = <<"Cached", FALSE>>
    BY <1>2, AnswerShape
  <2>2. outcome = <<"cached", FALSE>>
    BY <1>2, <2>1 DEF Outcome, DowngradeReply, ReplyError
  <2> QED BY <1>2, <2>1, <2>2 DEF Fits
<1>3. CASE intent.kind \in {"issue", "traced"}
  <2>1. \/ \E e : /\ reply = <<"ErrorTyped", e>>
                  /\ \/ e \in Failures
                     \/ e[1] \in {"Unresolved", "MissingArgument", "InvalidArgument"}
        \/ intent.kind = "issue" /\ \E x, y : reply = <<"Resolved", x, y>>
        \/ intent.kind = "traced" /\ \E x, y, z : reply = <<"ResolvedTraced", x, y, z>>
    BY <1>3, AnswerShape
  <2>2. ASSUME NEW e, reply = <<"ErrorTyped", e>>,
               \/ e \in Failures
               \/ e[1] \in {"Unresolved", "MissingArgument", "InvalidArgument"}
        PROVE  Fits(intent, reply, outcome, v)
    <3>1. PICK f : f = DowngradeError(e, v)
      OBVIOUS
    <3>2. DowngradeReply(reply, v) = <<"ErrorTyped", f>>
      BY <2>2, <3>1 DEF DowngradeReply
    <3>3. ReplyError(<<"ErrorTyped", f>>) = {f}
      BY DEF ReplyError
    <3>4. outcome = <<"raised", f>>
      BY <1>3, <3>2, <3>3 DEF Outcome
    <3> QED BY <2>2, <3>1, <3>4 DEF Fits
  <2>3. ASSUME NEW x, NEW y, reply = <<"Resolved", x, y>>, intent.kind = "issue"
        PROVE  Fits(intent, reply, outcome, v)
    <3>1. DowngradeReply(reply, v) = reply /\ ReplyError(reply) = {}
      BY <2>3 DEF DowngradeReply, ReplyError
    <3>2. outcome = <<"resolved", x, y>>
      BY <2>3, <3>1 DEF Outcome
    <3>3. SubSeq(reply, 2, 3) = <<x, y>>
      BY <2>3, SecondAndThird
    <3> QED BY <2>3, <3>2, <3>3 DEF Fits
  <2>4. ASSUME NEW x, NEW y, NEW z, reply = <<"ResolvedTraced", x, y, z>>, intent.kind = "traced"
        PROVE  Fits(intent, reply, outcome, v)
    <3>1. DowngradeReply(reply, v) = reply /\ ReplyError(reply) = {}
      BY <2>4 DEF DowngradeReply, ReplyError
    <3>2. outcome = <<"resolved", x, y>>
      BY <2>4, <3>1 DEF Outcome
    <3>3. SubSeq(reply, 2, 3) = <<x, y>>
      BY <2>4, SecondAndThird
    <3> QED BY <2>4, <3>2, <3>3 DEF Fits
  <2> QED BY <2>1, <2>2, <2>3, <2>4
<1> QED BY <1>1, <1>2, <1>3, KindKnown

\* An outcome that fits is never a complaint about the protocol.
LEMMA FitsSaysSo ==
  ASSUME NEW intent, NEW reply, NEW outcome, NEW v \in Versions, Fits(intent, reply, outcome, v)
  PROVE  /\ outcome # <<"protocol">>
         /\ outcome[1] = "resolved" =>
              /\ reply[1] \in {"Resolved", "ResolvedTraced"}
              /\ SubSeq(reply, 2, 3) = Tail(outcome)
         /\ outcome[1] = "raised" =>
              reply[1] = "ErrorTyped" /\ Conveys(outcome[2], reply[2], v)
         /\ outcome[1] = "entries" => reply = <<"Entries", outcome[2]>>
<1>1. ASSUME NEW x, intent.kind = "entries", reply = <<"Entries", x>>, outcome = <<"entries", x>>
      PROVE  /\ outcome # <<"protocol">> /\ outcome[1] \notin {"resolved", "raised"}
             /\ reply = <<"Entries", outcome[2]>>
  BY <1>1
<1>2. ASSUME outcome[1] = "cached"
      PROVE  outcome # <<"protocol">> /\ outcome[1] \notin {"resolved", "raised", "entries"}
  BY <1>2
<1>3. ASSUME NEW e, reply = <<"ErrorTyped", e>>, outcome = <<"raised", DowngradeError(e, v)>>,
             e \in Failures \/ e[1] \in {"Unresolved", "MissingArgument", "InvalidArgument"}
      PROVE  /\ outcome # <<"protocol">> /\ outcome[1] \notin {"resolved", "entries"}
             /\ reply[1] = "ErrorTyped" /\ Conveys(outcome[2], reply[2], v)
  <2>1. Conveys(DowngradeError(e, v), e, v)
    BY <1>3, FailurePut
  <2>2. PICK f : f = DowngradeError(e, v)
    OBVIOUS
  <2>3. outcome = <<"raised", f>> /\ outcome[2] = f /\ reply[2] = e
    BY <1>3, <2>2
  <2> QED BY <1>3, <2>1, <2>2, <2>3
<1>4. ASSUME NEW x, NEW y, reply[1] \in {"Resolved", "ResolvedTraced"},
             SubSeq(reply, 2, 3) = <<x, y>>, outcome = <<"resolved", x, y>>
      PROVE  /\ outcome # <<"protocol">> /\ outcome[1] \notin {"raised", "entries"}
             /\ reply[1] \in {"Resolved", "ResolvedTraced"}
             /\ SubSeq(reply, 2, 3) = Tail(outcome)
  <2>1. Tail(<<"resolved", x, y>>) = <<x, y>>
    OBVIOUS
  <2> QED BY <1>4, <2>1
<1>5. CASE \E x : intent.kind = "entries" /\ reply = <<"Entries", x>> /\ outcome = <<"entries", x>>
  BY <1>1, <1>5
<1>6. CASE intent.kind = "is_cached" /\ outcome[1] = "cached"
  BY <1>2, <1>6
<1>7. CASE \E e : /\ reply = <<"ErrorTyped", e>> /\ outcome = <<"raised", DowngradeError(e, v)>>
                  /\ \/ e \in Failures
                     \/ e[1] \in {"Unresolved", "MissingArgument", "InvalidArgument"}
  BY <1>3, <1>7
<1>8. CASE \E x, y : /\ reply[1] \in {"Resolved", "ResolvedTraced"}
                     /\ SubSeq(reply, 2, 3) = <<x, y>> /\ outcome = <<"resolved", x, y>>
  BY <1>4, <1>8
<1>9. \/ \E x : intent.kind = "entries" /\ reply = <<"Entries", x>> /\ outcome = <<"entries", x>>
      \/ intent.kind = "is_cached" /\ outcome[1] = "cached"
      \/ \E e : /\ reply = <<"ErrorTyped", e>> /\ outcome = <<"raised", DowngradeError(e, v)>>
                /\ \/ e \in Failures
                   \/ e[1] \in {"Unresolved", "MissingArgument", "InvalidArgument"}
      \/ \E x, y : /\ reply[1] \in {"Resolved", "ResolvedTraced"}
                   /\ SubSeq(reply, 2, 3) = <<x, y>> /\ outcome = <<"resolved", x, y>>
  BY DEF Fits
<1> QED BY <1>5, <1>6, <1>7, <1>8, <1>9, Zenon
-----------------------------------------------------------------------------
(* The inductive invariant.  Before the server has heard the hello nothing  *)
(* else has been said; afterwards, and as long as no frame was written in   *)
(* part, what is under way one way are the calls made and not yet received, *)
(* and the other way answers, those to come first being the next call's.    *)

CallsFor   == {CallOf(door, intent, Agreed) : intent \in IntentsOf(door)}
Answerable == UNION {Answers(door, call) : call \in CallsFor}
Endings    == {<<"lost">>, <<"refused">>}
              \cup {Outcome(intent, DowngradeReply(reply, Agreed)) :
                       intent \in IntentsOf(door), reply \in Answerable}

CallPayloads  == [i \in DOMAIN made |-> CallBytes(CallOf(door, made[i], Agreed))]
ReplyPayloads == [i \in DOMAIN answered |-> ReplyBytes(answered[i], Agreed)]

Settled ==
  /\ peers \in Peers /\ mode \in {0, 1} /\ door \in Doors
  /\ client \in {"dialing", "greeting", "idle", "waiting", "closed"}
  /\ server \in {"greeting", "reading", "handling", "gone"}
  /\ made \in Seq(IntentsOf(door))

Unheard ==
  /\ heard = <<>> /\ received = <<>> /\ answered = <<>> /\ made = <<>> /\ ended = <<>>
  /\ client \in {"dialing", "greeting", "closed"} /\ server \in {"greeting", "gone"}
  /\ toServer = IF client = "dialing" THEN <<>> ELSE Frame(EncodeHello(Hello(Agreed, mode)))
  /\ toClient = <<>>

Underway ==
  /\ heard = <<Hello(Agreed, mode)>>
  /\ client # "dialing" /\ server # "greeting"

CallsReceived ==
  /\ received \in Seq(CallsFor) /\ Len(received) <= Len(made)
  /\ \A i \in DOMAIN received : received[i] = CallOf(door, made[i], Agreed)
  /\ Framed(toServer, Len(received), Len(made), CallPayloads)

CallsAnswered ==
  /\ answered \in Seq(Answerable)
  /\ \/ server \in {"reading", "gone"} /\ Len(answered) = Len(received)
     \/ server \in {"handling", "gone"} /\ Len(answered) + 1 = Len(received)
  /\ \A i \in DOMAIN answered : answered[i] \in Answers(door, received[i])
  /\ server = "handling" => Immediate(door, Last(received)) = <<>>

CallsEnded ==
  /\ ended \in Seq(Endings)
  /\ Len(made) = Len(ended) + (IF client = "waiting" THEN 1 ELSE 0)
  /\ \A i \in DOMAIN ended :
       \/ ended[i] \in {<<"lost">>, <<"refused">>}
       \/ /\ i \in DOMAIN answered
          /\ ended[i] = Outcome(made[i], DowngradeReply(answered[i], Agreed))

Greeted ==
  /\ client \in {"greeting", "closed"} /\ made = <<>>
  /\ toClient = Frame(EncodeHello(Hello(Agreed, 0)))

RepliesUnderway ==
  /\ client \in {"idle", "waiting", "closed"}
  /\ \E k \in 0 .. Len(answered) :
       /\ Framed(toClient, k, Len(answered), ReplyPayloads)
       /\ ~timedOut => k = Len(ended) \/ (server = "gone" /\ k = Len(answered))

Heard ==
  Underway /\ CallsReceived /\ CallsAnswered /\ CallsEnded /\ (Greeted \/ RepliesUnderway)

IInv == Settled /\ (~cut => Unheard \/ Heard)

(* Only of a frame written in part is anything kept to be written later. *)
NothingKept == ~cut => unsent = <<>>
-----------------------------------------------------------------------------
LEMMA AgreedVersion ==
  ASSUME Settled
  PROVE  /\ Agreed \in Versions /\ Agreed <= peers.client /\ Agreed <= peers.server
         /\ peers.client \in Versions /\ peers.server \in Versions
<1>1. peers.client \in Versions /\ peers.server \in Versions
  BY PeersAssumption DEF Settled
<1> QED BY <1>1 DEF Agreed, Versions, OldestVersion, ProtocolVersion

\* The server reads a call of the client's as it was meant.
LEMMA CallCrosses ==
  ASSUME Settled, NEW intent \in IntentsOf(door)
  PROVE  LET call == CallOf(door, intent, Agreed)
         IN  /\ CallBytes(call) \in Seq(Byte) /\ Len(CallBytes(call)) <= MaxFrame
             /\ CallsIn(peers.server, CallBytes(call)) = {call}
<1>1. /\ Agreed \in Versions /\ peers.server \in Versions /\ Agreed <= peers.server
      /\ door \in Doors /\ Agreed <= Agreed
  BY AgreedVersion DEF Settled, Versions, OldestVersion, ProtocolVersion
<1>2. CallOf(door, intent, Agreed) \in Forms(door, intent, Agreed)
  <2>1. DowngradeCall(CallOf(door, intent, Agreed), <<Agreed>>) = CallOf(door, intent, Agreed)
    BY <1>1, CallAsBuilt
  <2>2. DowngradeCall(CallOf(door, intent, Agreed), <<Agreed>>) \in Forms(door, intent, Agreed)
    BY <1>1, CallKept
  <2> QED BY <2>1, <2>2
<1>3. \A dr \in Doors : \A v, w \in Versions : v <= w =>
        \A i \in IntentsOf(dr) : \A call \in Forms(dr, i, v) :
          Exchangeable(CallBytes(call)) /\ CallsIn(w, CallBytes(call)) = {call}
  BY CodecAssumption
<1>4. PICK call : call = CallOf(door, intent, Agreed)
  OBVIOUS
<1>5. Exchangeable(CallBytes(call)) /\ CallsIn(peers.server, CallBytes(call)) = {call}
  BY <1>1, <1>2, <1>3, <1>4
<1> QED BY <1>4, <1>5 DEF Exchangeable, Byte

\* The client reads an answer as it is put for a peer of the agreed version.
LEMMA AnswerCrosses ==
  ASSUME Settled, NEW intent \in IntentsOf(door),
         NEW reply \in Answers(door, CallOf(door, intent, Agreed))
  PROVE  /\ ReplyBytes(reply, Agreed) \in Seq(Byte) /\ Len(ReplyBytes(reply, Agreed)) <= MaxFrame
         /\ RepliesIn(peers.client, ReplyBytes(reply, Agreed)) = {DowngradeReply(reply, Agreed)}
<1>1. /\ Agreed \in Versions /\ peers.client \in Versions /\ Agreed <= peers.client
      /\ door \in Doors /\ Agreed <= Agreed
  BY AgreedVersion DEF Settled, Versions, OldestVersion, ProtocolVersion
<1>2. CallOf(door, intent, Agreed) \in Forms(door, intent, Agreed)
  <2>1. DowngradeCall(CallOf(door, intent, Agreed), <<Agreed>>) = CallOf(door, intent, Agreed)
    BY <1>1, CallAsBuilt
  <2>2. DowngradeCall(CallOf(door, intent, Agreed), <<Agreed>>) \in Forms(door, intent, Agreed)
    BY <1>1, CallKept
  <2> QED BY <2>1, <2>2
<1>3. \A dr \in Doors : \A v, w \in Versions : v <= w =>
        \A r \in UNION {UNION {Answers(dr, call) : call \in Forms(dr, i, v)} : i \in IntentsOf(dr)} :
          Exchangeable(ReplyBytes(r, v)) /\ RepliesIn(w, ReplyBytes(r, v)) = {DowngradeReply(r, v)}
  BY CodecAssumption
<1>4. reply \in UNION {UNION {Answers(door, call) : call \in Forms(door, i, Agreed)} :
                          i \in IntentsOf(door)}
  BY <1>2
<1>5. /\ Exchangeable(ReplyBytes(reply, Agreed))
      /\ RepliesIn(peers.client, ReplyBytes(reply, Agreed)) = {DowngradeReply(reply, Agreed)}
  BY <1>1, <1>3, <1>4
<1> QED BY <1>5 DEF Exchangeable, Byte

\* Of the calls the server has received, each was made, and is answered as a
\* call of its own.
LEMMA ReceivedWasMade ==
  ASSUME Settled, CallsReceived, CallsAnswered, NEW i \in DOMAIN answered
  PROVE  /\ i \in DOMAIN received /\ i \in DOMAIN made /\ made[i] \in IntentsOf(door)
         /\ received[i] = CallOf(door, made[i], Agreed)
         /\ answered[i] \in Answers(door, CallOf(door, made[i], Agreed))
<1>1. answered \in Seq(Answerable) /\ received \in Seq(CallsFor) /\ made \in Seq(IntentsOf(door))
  BY DEF CallsAnswered, CallsReceived, Settled
<1>2. i \in 1 .. Len(answered) /\ Len(answered) <= Len(received) /\ Len(received) <= Len(made)
  BY <1>1 DEF CallsAnswered, CallsReceived
<1>3. i \in DOMAIN received /\ i \in DOMAIN made
  BY <1>1, <1>2
<1>4. made[i] \in IntentsOf(door)
  BY <1>1, <1>3
<1> QED BY <1>3, <1>4 DEF CallsReceived, CallsAnswered

-----------------------------------------------------------------------------
(* Every step keeps the invariant. *)

LEMMA InitKeeps == Init => IInv
<1> SUFFICES ASSUME Init PROVE IInv
  OBVIOUS
<1>1. Settled
  BY EmptySeq DEF Init, Settled
<1>2. Unheard
  BY DEF Init, Unheard
<1> QED BY <1>1, <1>2 DEF IInv

\* The setting and the parts of the invariant a step does not touch.
LEMMA SameSetting ==
  ASSUME UNCHANGED setting
  PROVE  /\ Agreed' = Agreed /\ CallsFor' = CallsFor /\ Answerable' = Answerable
         /\ Endings' = Endings /\ peers' = peers /\ mode' = mode /\ door' = door
BY DEF setting, Agreed, CallsFor, Answerable, Endings

LEMMA SameReceived ==
  ASSUME UNCHANGED <<setting, received, made, toServer>>, CallsReceived
  PROVE  CallsReceived'
<1>1. CallPayloads' = CallPayloads /\ CallsFor' = CallsFor /\ Agreed' = Agreed
  BY SameSetting DEF CallPayloads, setting
<1> QED BY <1>1, SameSetting DEF CallsReceived, Framed

LEMMA SameAnswered ==
  ASSUME UNCHANGED <<setting, received, answered>>,
         server' = server \/ server' = "gone",
         CallsAnswered
  PROVE  CallsAnswered'
BY SameSetting DEF CallsAnswered, Last

LEMMA SameEnded ==
  ASSUME UNCHANGED <<setting, made, ended, answered>>,
         (client' = "waiting") = (client = "waiting"),
         CallsEnded
  PROVE  CallsEnded'
BY SameSetting DEF CallsEnded

LEMMA SameReplies ==
  ASSUME UNCHANGED <<setting, timedOut, ended, answered, toClient>>,
         client' \in {"idle", "waiting", "closed"},
         server' = server \/ server' = "gone",
         RepliesUnderway
  PROVE  RepliesUnderway'
<1>1. ReplyPayloads' = ReplyPayloads
  BY SameSetting DEF ReplyPayloads
<1>2. PICK k \in 0 .. Len(answered) :
        /\ Framed(toClient, k, Len(answered), ReplyPayloads)
        /\ ~timedOut => k = Len(ended) \/ (server = "gone" /\ k = Len(answered))
  BY DEF RepliesUnderway
<1>3. Framed(toClient', k, Len(answered'), ReplyPayloads')
  BY <1>1, <1>2
<1>4. ~timedOut' => k = Len(ended') \/ (server' = "gone" /\ k = Len(answered'))
  BY <1>2
<1>5. k \in 0 .. Len(answered')
  OBVIOUS
<1> QED BY <1>3, <1>4, <1>5 DEF RepliesUnderway

LEMMA SameGreeted ==
  ASSUME UNCHANGED <<setting, made, toClient>>, client' \in {"greeting", "closed"}, Greeted
  PROVE  Greeted'
BY SameSetting DEF Greeted, Hello

LEMMA SameUnderway ==
  ASSUME UNCHANGED <<setting, heard>>, client' # "dialing", server' # "greeting", Underway
  PROVE  Underway'
BY SameSetting DEF Underway, Hello
-----------------------------------------------------------------------------
LEMMA GreetKeeps == IInv /\ Greet => IInv'
<1> SUFFICES ASSUME IInv, Greet PROVE IInv'
  OBVIOUS
<1>1. Settled'
  BY DEF IInv, Greet, Settled, setting, serverVars
<1>2. ASSUME ~cut' PROVE Unheard'
  <2>1. Unheard
    BY <1>2 DEF IInv, Greet, Heard, Underway
  <2>2. Agreed' = Agreed /\ mode' = mode
    BY SameSetting DEF Greet
  <2> QED BY <2>1, <2>2 DEF Unheard, Greet, serverVars, Hello
<1> QED BY <1>1, <1>2 DEF IInv

LEMMA HearHelloKeeps == IInv /\ HearHello => IInv'
<1> SUFFICES ASSUME IInv, HearHello PROVE IInv'
  OBVIOUS
<1>1. Settled'
  BY DEF IInv, HearHello, Settled, setting, clientVars
<1>2. ASSUME ~cut' PROVE Heard'
  <2>1. Unheard
    BY <1>2 DEF IInv, HearHello, Heard, Underway, clientVars
  <2>2. Agreed' = Agreed /\ mode' = mode
    BY SameSetting DEF HearHello
  <2>3. PICK frame \in ReadFrame(toServer) :
          LET hello == DecodeHello(frame[1])
              taken == {h \in hello : Accepts(h.version)}
          IN
          /\ server = "greeting"
          /\ toServer' = frame[2]
          /\ heard' = [i \in 1 .. Cardinality(taken) |-> CHOOSE h \in taken : TRUE]
          /\ toClient' = IF hello = {} THEN toClient
                         ELSE Frame(EncodeHello(Hello(IF taken = {} THEN peers.server
                                                      ELSE heard'[1].version, 0)))
          /\ server' = IF taken = {} THEN "gone" ELSE "reading"
          /\ UNCHANGED <<setting, clientVars, received, entered, answered>>
    BY DEF HearHello
  <2>4. client # "dialing" /\ toServer = Frame(EncodeHello(Hello(Agreed, mode)))
    BY <2>1, <2>3, NoFrame DEF Unheard
  <2>5. Agreed \in Versions /\ Agreed <= peers.server /\ mode \in {0, 1}
    BY AgreedVersion DEF IInv, Settled
  <2>6. frame = <<EncodeHello(Hello(Agreed, mode)), <<>>>>
    BY <2>3, <2>4, <2>5, HelloRead
  <2>7. DecodeHello(frame[1]) = {Hello(Agreed, mode)}
    BY <2>5, <2>6, HelloKept
  <2>8. {h \in {Hello(Agreed, mode)} : Accepts(h.version)} = {Hello(Agreed, mode)}
    <3>1. Hello(Agreed, mode).version = Agreed
      BY DEF Hello
    <3>2. Accepts(Agreed)
      BY <2>5 DEF Accepts, Versions, OldestVersion, ProtocolVersion
    <3> QED BY <3>1, <3>2
  <2>9. PICK h : h = Hello(Agreed, mode)
    OBVIOUS
  <2>10. Cardinality({h}) = 1 /\ (CHOOSE x \in {h} : TRUE) = h
    BY FS_Singleton
  <2>11. heard' = [i \in 1 .. 1 |-> h]
    BY <2>3, <2>7, <2>8, <2>9, <2>10
  <2>12. heard' = <<h>> /\ heard'[1].version = Agreed
    BY <2>9, <2>11 DEF Hello
  <2>13. toClient' = Frame(EncodeHello(Hello(Agreed, 0))) /\ server' = "reading" /\ toServer' = <<>>
    BY <2>3, <2>6, <2>7, <2>8, <2>12
  <2>14. Underway'
    <3>1. heard' = <<Hello(Agreed, mode)>>'
      BY <2>2, <2>9, <2>12 DEF Hello
    <3> QED BY <3>1, <2>3, <2>4, <2>13 DEF Underway, clientVars
  <2>15. received' = <<>> /\ answered' = <<>> /\ made' = <<>> /\ ended' = <<>>
    BY <2>1, <2>3 DEF Unheard, clientVars
  <2>16. CallsReceived'
    <3>1. Framed(toServer', 0, 0, CallPayloads')
      BY <2>13, NothingFramed
    <3> QED BY <3>1, <2>15, EmptySeq DEF CallsReceived
  <2>17. CallsAnswered'
    BY <2>13, <2>15, EmptySeq DEF CallsAnswered
  <2>18. CallsEnded' /\ Greeted'
    <3>1. client' \in {"greeting", "closed"}
      BY <2>1, <2>3, <2>4 DEF Unheard, clientVars
    <3>2. CallsEnded'
      BY <3>1, <2>15, EmptySeq DEF CallsEnded
    <3>3. toClient' = Frame(EncodeHello(Hello(Agreed, 0)))'
      BY <2>2, <2>13 DEF Hello
    <3> QED BY <3>1, <3>2, <3>3, <2>15 DEF Greeted
  <2> QED BY <2>14, <2>16, <2>17, <2>18 DEF Heard
<1> QED BY <1>1, <1>2 DEF IInv

LEMMA HearAnswerKeeps == IInv /\ HearAnswer => IInv'
<1> SUFFICES ASSUME IInv, HearAnswer PROVE IInv'
  OBVIOUS
<1>1. PICK frame \in ReadFrame(toClient) :
        /\ client = "greeting" /\ client' = "idle" /\ toClient' = frame[2]
        /\ UNCHANGED <<setting, timedOut, cut, unsent, made, ended, serverVars, toServer>>
  BY DEF HearAnswer
<1>2. Settled'
  BY <1>1 DEF IInv, Settled, setting, serverVars
<1>3. ASSUME ~cut' PROVE Heard'
  <2>1. Heard /\ Greeted
    <3>1. Unheard \/ Heard
      BY <1>1, <1>3 DEF IInv
    <3>2. ~Unheard
      BY <1>1, NoFrame DEF Unheard
    <3> QED BY <3>1, <3>2, <1>1 DEF Heard, RepliesUnderway
  <2>2. Agreed \in Versions
    BY AgreedVersion DEF IInv
  <2>3. ReadFrame(toClient) = {<<EncodeHello(Hello(Agreed, 0)), <<>>>>}
    BY <2>1, <2>2, HelloRead DEF Greeted
  <2>4. toClient' = <<>>
    BY <2>3, <1>1
  <2>5. Len(answered) = 0 /\ Len(ended) = 0
    <3>1. made = <<>>
      BY <2>1 DEF Greeted
    <3>2. received \in Seq(CallsFor) /\ Len(received) <= Len(made) /\ answered \in Seq(Answerable)
          /\ Len(answered) <= Len(received)
      BY <2>1 DEF Heard, CallsReceived, CallsAnswered
    <3>3. ended \in Seq(Endings) /\ Len(made) = Len(ended)
      BY <2>1, <1>1 DEF Heard, CallsEnded
    <3> QED BY <3>1, <3>2, <3>3
  <2>6. RepliesUnderway'
    <3>1. Framed(toClient', 0, 0, ReplyPayloads')
      BY <2>4, NothingFramed
    <3>2. Len(answered') = 0 /\ Len(ended') = 0 /\ client' = "idle"
      BY <2>5, <1>1 DEF serverVars
    <3> QED BY <3>1, <3>2 DEF RepliesUnderway
  <2>7. Underway' /\ CallsReceived' /\ CallsAnswered' /\ CallsEnded'
    BY <2>1, <1>1, SameUnderway, SameReceived, SameAnswered, SameEnded
       DEF Heard, Underway, serverVars
  <2> QED BY <2>6, <2>7 DEF Heard
<1> QED BY <1>2, <1>3 DEF IInv

LEMMA NotHeardKeeps == IInv /\ NotHeard => IInv'
<1> SUFFICES ASSUME IInv, NotHeard PROVE IInv'
  OBVIOUS
<1>1. Settled'
  BY DEF IInv, NotHeard, Settled, setting, serverVars
<1>2. CASE Unheard
  <2>1. Agreed' = Agreed /\ mode' = mode
    BY SameSetting DEF NotHeard
  <2>2. Unheard'
    BY <1>2, <2>1 DEF Unheard, NotHeard, serverVars, streams, Hello
  <2> QED BY <1>1, <2>2 DEF IInv
<1>3. CASE Heard
  <2>1. Underway' /\ CallsReceived' /\ CallsAnswered' /\ CallsEnded'
    BY <1>3, SameUnderway, SameReceived, SameAnswered, SameEnded
       DEF NotHeard, Heard, Underway, serverVars, streams
  <2>2. Greeted'
    BY <1>3, SameGreeted DEF NotHeard, Heard, RepliesUnderway, streams
  <2> QED BY <1>1, <2>1, <2>2 DEF IInv, Heard
<1> QED BY <1>1, <1>2, <1>3 DEF IInv, NotHeard

\* While the client has a call out, or may make one, the hello was heard.
LEMMA HeardByNow ==
  ASSUME IInv, ~cut, client \in {"idle", "waiting"}
  PROVE  Heard /\ RepliesUnderway
BY DEF IInv, Unheard, Heard, Greeted
-----------------------------------------------------------------------------
LEMMA MakeCallKeeps ==
  ASSUME IInv, NothingKept, NEW intent \in Intents, MakeCall(intent)
  PROVE  IInv'
<1>1. intent \in IntentsOf(door) /\ made \in Seq(IntentsOf(door))
  BY DEF Intents, IntentsOf, IInv, Settled
<1>2. /\ made' = Append(made, intent) /\ made' \in Seq(IntentsOf(door))
      /\ Len(made') = Len(made) + 1 /\ made'[Len(made) + 1] = intent
      /\ \A i \in 1 .. Len(made) : made'[i] = made[i]
  BY <1>1, AppendProperties DEF MakeCall
<1>3. Settled'
  <2>1. IntentsOf(door)' = IntentsOf(door)
    BY DEF MakeCall, setting, IntentsOf
  <2> QED BY <2>1, <1>2 DEF IInv, Settled, MakeCall, setting, serverVars
<1>4. ASSUME ~cut' PROVE Heard'
  <2>1. Heard /\ RepliesUnderway
    BY <1>4, HeardByNow DEF MakeCall
  <2>2. Agreed' = Agreed /\ CallsFor' = CallsFor /\ Endings' = Endings /\ door' = door
    BY SameSetting DEF MakeCall
  <2>3. Underway' /\ CallsAnswered'
    BY <2>1, SameUnderway, SameAnswered DEF MakeCall, Heard, Underway, serverVars
  <2>4. CallsReceived'
    <3>1. /\ received \in Seq(CallsFor) /\ Len(received) <= Len(made)
          /\ \A i \in DOMAIN received : received[i] = CallOf(door, made[i], Agreed)
          /\ Framed(toServer, Len(received), Len(made), CallPayloads)
      BY <2>1 DEF Heard, CallsReceived
    <3>2. Len(received) \in Nat /\ Len(made) \in Nat
      BY <3>1, <1>1
    <3>3. PICK new : new = CallPayloads'
      OBVIOUS
    <3>4. /\ \A i \in 1 .. Len(made) : new[i] = CallPayloads[i]
          /\ new[Len(made) + 1] = CallBytes(CallOf(door, intent, Agreed))
      <4>1. DOMAIN made = 1 .. Len(made) /\ DOMAIN made' = 1 .. (Len(made) + 1)
        BY <1>1, <1>2
      <4> QED BY <4>1, <3>2, <3>3, <2>2, <1>2 DEF CallPayloads
    <3>5. /\ new[Len(made) + 1] \in Seq(Byte) /\ Len(new[Len(made) + 1]) <= MaxFrame
      BY <3>4, <1>1, CallCrosses DEF IInv
    <3>6. Framed(toServer \o Frame(new[Len(made) + 1]), Len(received), Len(made) + 1, new)
      <4>1. \A i \in (Len(received) + 1) .. Len(made) : new[i] = CallPayloads[i]
        BY <3>2, <3>4
      <4> QED BY <3>1, <3>2, <3>5, <4>1, FrameAdded
    <3>7. toServer' = toServer \o Frame(new[Len(made) + 1]) /\ received' = received
      <4>1. PICK f : f = Frame(new[Len(made) + 1])
        OBVIOUS
      <4>2. <<>> \o f = f
        BY <4>1, <3>5, FrameIsBytes, ConcatEmptySeq
      <4>3. /\ toServer' = toServer \o (unsent \o FrameOf(intent)) /\ unsent = <<>>
            /\ received' = received
        BY <1>4 DEF NothingKept, MakeCall, serverVars
      <4>4. FrameOf(intent) = f
        BY <4>1, <3>4 DEF FrameOf
      <4> QED BY <4>1, <4>2, <4>3, <4>4
    <3>8. \A i \in DOMAIN received' : (received[i] = CallOf(door, made[i], Agreed))'
      <4>1. ASSUME NEW i \in DOMAIN received PROVE received[i] = CallOf(door, made'[i], Agreed)
        <5>1. i \in 1 .. Len(made)
          BY <3>1, <3>2
        <5> QED BY <5>1, <3>1, <1>2
      <4>2. Agreed' = Agreed /\ door' = door /\ received' = received
        BY <3>7, <2>2
      <4>3. \A i \in DOMAIN received : received[i] = CallOf(door', made'[i], Agreed')
        BY <4>1, <4>2
      <4> QED BY <4>2, <4>3
    <3>9. Framed(toServer', Len(received'), Len(made'), CallPayloads')
      BY <3>3, <3>6, <3>7, <1>2
    <3> QED BY <3>1, <3>2, <3>7, <3>8, <3>9, <2>2, <1>2 DEF CallsReceived
  <2>5. CallsEnded'
    <3>1. /\ ended \in Seq(Endings) /\ Len(made) = Len(ended)
          /\ \A i \in DOMAIN ended :
               \/ ended[i] \in {<<"lost">>, <<"refused">>}
               \/ /\ i \in DOMAIN answered
                  /\ ended[i] = Outcome(made[i], DowngradeReply(answered[i], Agreed))
      BY <2>1 DEF Heard, CallsEnded, MakeCall
    <3>2. ended' = ended /\ answered' = answered /\ client' = "waiting"
      BY DEF MakeCall, serverVars
    <3>3. \A i \in DOMAIN ended : made'[i] = made[i]
      BY <3>1, <1>2
    <3>4. Len(made') = Len(ended') + (IF client' = "waiting" THEN 1 ELSE 0)
      BY <3>1, <3>2, <1>2
    <3> QED BY <3>1, <3>2, <3>3, <3>4, <2>2 DEF CallsEnded
  <2>6. RepliesUnderway'
    BY <2>1, SameReplies DEF MakeCall, serverVars
  <2> QED BY <2>3, <2>4, <2>5, <2>6 DEF Heard
<1> QED BY <1>3, <1>4 DEF IInv

LEMMA WriteTimesOutKeeps ==
  ASSUME IInv, NEW intent \in Intents, NEW n \in Nat, WriteTimesOut(intent, n)
  PROVE  IInv'
<1>1. intent \in IntentsOf(door) /\ made \in Seq(IntentsOf(door))
  BY DEF Intents, IntentsOf, IInv, Settled
<1>2. made' = Append(made, intent) /\ made' \in Seq(IntentsOf(door))
  BY <1>1, AppendProperties DEF WriteTimesOut
<1>3. IntentsOf(door)' = IntentsOf(door) /\ cut'
  BY DEF WriteTimesOut, setting, IntentsOf
<1>4. Settled'
  BY <1>2, <1>3 DEF IInv, Settled, WriteTimesOut, Ends, setting, serverVars
<1> QED BY <1>3, <1>4 DEF IInv

\* A call ends without an answer of its own.
LEMMA CallEnds ==
  ASSUME IInv, ~cut, client = "waiting",
         NEW outcome \in Endings, Ends(outcome), UNCHANGED <<setting, cut, made, serverVars>>,
         \/ outcome \in {<<"lost">>, <<"refused">>}
         \/ /\ Len(made) \in DOMAIN answered
            /\ outcome = Outcome(Last(made), DowngradeReply(answered[Len(made)], Agreed))
  PROVE  /\ Settled' /\ CallsEnded' /\ Len(ended') = Len(ended) + 1 /\ Len(ended) + 1 = Len(made)
         /\ ended \in Seq(Endings)
<1>1. /\ ended \in Seq(Endings) /\ Len(made) = Len(ended) + 1 /\ made \in Seq(IntentsOf(door))
      /\ \A i \in DOMAIN ended :
           \/ ended[i] \in {<<"lost">>, <<"refused">>}
           \/ /\ i \in DOMAIN answered
              /\ ended[i] = Outcome(made[i], DowngradeReply(answered[i], Agreed))
  BY HeardByNow DEF Heard, CallsEnded, IInv, Settled
<1>2. /\ ended' = Append(ended, outcome) /\ ended' \in Seq(Endings) /\ Len(ended') = Len(ended) + 1
      /\ ended'[Len(ended) + 1] = outcome /\ \A i \in 1 .. Len(ended) : ended'[i] = ended[i]
  BY <1>1, AppendProperties DEF Ends
<1>3. Agreed' = Agreed /\ Endings' = Endings /\ made' = made /\ answered' = answered
      /\ client' = "idle" /\ DOMAIN ended = 1 .. Len(ended) /\ DOMAIN ended' = 1 .. (Len(ended) + 1)
  BY <1>1, <1>2, SameSetting DEF Ends, serverVars
<1>4. ASSUME NEW i \in DOMAIN ended'
      PROVE  \/ ended'[i] \in {<<"lost">>, <<"refused">>}
             \/ /\ i \in DOMAIN answered'
                /\ ended'[i] = Outcome(made'[i], DowngradeReply(answered'[i], Agreed'))
  <2>1. CASE i = Len(ended) + 1
    BY <2>1, <1>1, <1>2, <1>3 DEF Last
  <2>2. CASE i # Len(ended) + 1
    <3>1. i \in DOMAIN ended
      BY <2>2, <1>1, <1>3
    <3> QED BY <3>1, <1>1, <1>2, <1>3
  <2> QED BY <2>1, <2>2
<1>5. CallsEnded'
  BY <1>1, <1>2, <1>3, <1>4 DEF CallsEnded
<1>6. Settled'
  BY <1>3 DEF IInv, Settled, setting, serverVars, IntentsOf
<1> QED BY <1>1, <1>2, <1>5, <1>6

LEMMA ReadReplyKeeps == IInv /\ ReadReply => IInv'
<1> SUFFICES ASSUME IInv, ReadReply PROVE IInv'
  OBVIOUS
<1>1. PICK frame \in ReadFrame(toClient) :
        LET reply == RepliesIn(peers.client, frame[1]) IN
        /\ client = "waiting" /\ ~timedOut
        /\ toClient' = frame[2]
        /\ Ends(IF reply = {} THEN <<"protocol">>
                ELSE Outcome(Last(made), CHOOSE r \in reply : TRUE))
        /\ UNCHANGED <<setting, timedOut, cut, unsent, made, serverVars, toServer>>
  BY DEF ReadReply
<1>2. CASE cut
  <2>1. Settled'
    BY <1>1 DEF IInv, Settled, setting, serverVars, Ends, IntentsOf
  <2> QED BY <2>1, <1>1, <1>2 DEF IInv
<1>3. CASE ~cut
  <2>1. Heard /\ RepliesUnderway
    BY <1>1, <1>3, HeardByNow
  <2>2. PICK n \in Nat : n = Len(answered) /\ DOMAIN answered = 1 .. n
    BY <2>1 DEF Heard, CallsAnswered
  <2>3. PICK k \in 0 .. n :
          /\ Framed(toClient, k, n, ReplyPayloads)
          /\ k = Len(ended) \/ k = n
    BY <2>1, <2>2, <1>1 DEF RepliesUnderway
  <2>4. k \in Nat /\ k < n
    <3>1. k = n => ReadFrame(toClient) = {}
      BY <2>3, FirstFrame
    <3> QED BY <3>1, <1>1
  <2>5. PICK left : /\ ReadFrame(toClient) = {<<ReplyPayloads[k + 1], left>>}
                    /\ Framed(left, k + 1, n, ReplyPayloads)
    BY <2>3, <2>4, FirstFrame
  <2>6. frame[1] = ReplyPayloads[k + 1] /\ toClient' = left
    BY <2>5, <1>1
  <2>7. k = Len(ended) /\ k + 1 \in DOMAIN answered
    <3>1. k + 1 \in 1 .. n /\ k # n
      BY <2>4
    <3> QED BY <3>1, <2>2, <2>3
  <2>8. Len(made) = k + 1 /\ Last(made) = made[k + 1]
    BY <2>1, <2>7, <1>1 DEF Heard, CallsEnded, Last
  <2>9. /\ made[k + 1] \in IntentsOf(door)
        /\ answered[k + 1] \in Answers(door, CallOf(door, made[k + 1], Agreed))
        /\ answered[k + 1] \in Answerable
    BY <2>1, <2>7, ReceivedWasMade DEF IInv, Heard, CallsAnswered
  <2>10. RepliesIn(peers.client, frame[1]) = {DowngradeReply(answered[k + 1], Agreed)}
    <3>1. ReplyPayloads[k + 1] = ReplyBytes(answered[k + 1], Agreed)
      BY <2>7 DEF ReplyPayloads
    <3>2. RepliesIn(peers.client, ReplyBytes(answered[k + 1], Agreed))
          = {DowngradeReply(answered[k + 1], Agreed)}
      BY <2>9, AnswerCrosses DEF IInv
    <3> QED BY <3>1, <3>2, <2>6
  <2>11. PICK outcome : outcome = Outcome(made[k + 1], DowngradeReply(answered[k + 1], Agreed))
    OBVIOUS
  <2>12. Ends(outcome)
    <3>1. PICK read : read = DowngradeReply(answered[k + 1], Agreed)
      OBVIOUS
    <3>2. RepliesIn(peers.client, frame[1]) = {read} /\ {read} # {}
          /\ (CHOOSE r \in {read} : TRUE) = read
      BY <2>10, <3>1
    <3> QED BY <3>1, <3>2, <2>8, <2>11, <1>1
  <2>13. outcome \in Endings
    BY <2>9, <2>11 DEF Endings
  <2>14. /\ Settled' /\ CallsEnded' /\ Len(ended') = Len(ended) + 1
    BY <2>7, <2>8, <2>11, <2>12, <2>13, <1>1, <1>3, CallEnds
  <2>15. Underway' /\ CallsReceived' /\ CallsAnswered'
    BY <2>1, <1>1, SameUnderway, SameReceived, SameAnswered DEF Heard, Underway, serverVars, Ends
  <2>16. RepliesUnderway'
    <3>1. answered' = answered /\ ReplyPayloads' = ReplyPayloads /\ client' = "idle"
      BY <1>1, SameSetting DEF serverVars, ReplyPayloads, Ends
    <3>2. k + 1 \in 0 .. Len(answered') /\ k + 1 = Len(ended')
      BY <2>2, <2>4, <2>7, <2>14, <3>1
    <3>3. Framed(toClient', k + 1, Len(answered'), ReplyPayloads')
      BY <2>2, <2>5, <2>6, <3>1
    <3> QED BY <3>1, <3>2, <3>3 DEF RepliesUnderway
  <2> QED BY <2>14, <2>15, <2>16 DEF IInv, Heard
<1> QED BY <1>2, <1>3

\* The ways a call ends without a reply.
LEMMA NoReplyKeeps ==
  ASSUME IInv, ReadTimesOut \/ ReadRefused \/ ServerLost
  PROVE  IInv'
<1>1. PICK outcome \in {<<"lost">>, <<"refused">>} :
        /\ client = "waiting" /\ Ends(outcome)
        /\ UNCHANGED <<setting, cut, unsent, made, serverVars, streams>>
  BY DEF ReadTimesOut, ReadRefused, ServerLost
<1>2. CASE cut
  <2>1. Settled'
    BY <1>1 DEF IInv, Settled, setting, serverVars, Ends, IntentsOf
  <2> QED BY <2>1, <1>1, <1>2 DEF IInv
<1>3. CASE ~cut
  <2>1. Heard /\ RepliesUnderway
    BY <1>1, <1>3, HeardByNow
  <2>2. outcome \in Endings
    BY DEF Endings
  <2>3. Settled' /\ CallsEnded'
    BY <2>2, <1>1, <1>3, CallEnds
  <2>4. Underway' /\ CallsReceived' /\ CallsAnswered'
    BY <2>1, <1>1, SameUnderway, SameReceived, SameAnswered
       DEF Heard, Underway, serverVars, streams, Ends
  <2>5. RepliesUnderway'
    <3>1. PICK k \in 0 .. Len(answered) :
            /\ Framed(toClient, k, Len(answered), ReplyPayloads)
            /\ ~timedOut => k = Len(ended) \/ (server = "gone" /\ k = Len(answered))
      BY <2>1 DEF RepliesUnderway
    <3>2. answered' = answered /\ ReplyPayloads' = ReplyPayloads /\ client' = "idle"
          /\ toClient' = toClient /\ server' = server
      BY <1>1, SameSetting DEF serverVars, streams, ReplyPayloads, Ends
    <3>3. ~timedOut' => server' = "gone" /\ k = Len(answered')
      <4>1. CASE ReadTimesOut \/ ReadRefused
        BY <4>1 DEF ReadTimesOut, ReadRefused
      <4>2. CASE ServerLost
        <5>1. server = "gone" /\ ReadFrame(toClient) = {}
          BY <4>2 DEF ServerLost
        <5>2. answered \in Seq(Answerable) /\ Len(answered) \in Nat
          BY <2>1 DEF Heard, CallsAnswered
        <5>3. k \in Nat /\ k <= Len(answered)
          BY <5>2
        <5>4. k < Len(answered) => ReadFrame(toClient) # {}
          BY <5>2, <5>3, <3>1, FirstFrame
        <5> QED BY <5>1, <5>2, <5>3, <5>4, <3>2
      <4> QED BY <4>1, <4>2
    <3> QED BY <3>1, <3>2, <3>3 DEF RepliesUnderway
  <2> QED BY <2>3, <2>4, <2>5 DEF IInv, Heard
<1> QED BY <1>2, <1>3

LEMMA CloseKeeps == IInv /\ NothingKept /\ Close => IInv'
<1> SUFFICES ASSUME IInv, NothingKept, Close PROVE IInv'
  OBVIOUS
<1>1. Settled'
  BY DEF IInv, Close, Settled, setting, serverVars
<1>2. ASSUME ~cut' PROVE Heard'
  <2>1. Heard /\ RepliesUnderway
    BY <1>2, HeardByNow DEF Close
  <2>2. toServer' = toServer
    <3>1. unsent = <<>> /\ 1 .. Len(<<>>) = {}
      BY <1>2 DEF NothingKept, Close
    <3> QED BY <3>1 DEF Close
  <2>3. Underway' /\ CallsReceived' /\ CallsAnswered' /\ CallsEnded' /\ RepliesUnderway'
    BY <2>1, <2>2, SameUnderway, SameReceived, SameAnswered, SameEnded, SameReplies
       DEF Close, Heard, Underway, serverVars, streams
  <2> QED BY <2>3 DEF Heard
<1> QED BY <1>1, <1>2 DEF IInv
-----------------------------------------------------------------------------
\* The server answers the call it received last.
LEMMA AnswerKeeps ==
  ASSUME IInv, ~cut, Heard, Settled', CallsReceived', UNCHANGED <<setting, clientVars, heard>>,
         NEW k \in Nat, k = Len(answered), DOMAIN answered = 1 .. k,
         answered \in Seq(Answerable),
         \A i \in DOMAIN answered : answered[i] \in Answers(door, received[i]),
         Len(received') = k + 1, \A i \in 1 .. k : received'[i] = received[i],
         made[k + 1] \in IntentsOf(door),
         received'[k + 1] = CallOf(door, made[k + 1], Agreed),
         NEW reply \in Answers(door, CallOf(door, made[k + 1], Agreed)), Reply(reply),
         server \in {"reading", "handling"}, server' = "reading"
  PROVE  IInv'
<1>1. Agreed' = Agreed /\ door' = door /\ Answerable' = Answerable /\ Endings' = Endings
  BY SameSetting
<1>2. reply \in Answerable
  BY DEF Answerable, CallsFor
<1>3. /\ answered' \in Seq(Answerable) /\ Len(answered') = k + 1 /\ DOMAIN answered' = 1 .. (k + 1)
      /\ answered'[k + 1] = reply /\ \A i \in 1 .. k : answered'[i] = answered[i]
  BY <1>2, AppendProperties DEF Reply
<1>4. CallsAnswered'
  <2>1. ASSUME NEW i \in DOMAIN answered' PROVE answered'[i] \in Answers(door, received'[i])
    <3>1. CASE i = k + 1
      BY <3>1, <1>3
    <3>2. CASE i # k + 1
      <4>1. i \in 1 .. k
        BY <3>2, <1>3
      <4> QED BY <4>1, <1>3
    <3> QED BY <3>1, <3>2
  <2> QED BY <2>1, <1>1, <1>3 DEF CallsAnswered
<1>5. Underway'
  BY SameUnderway DEF Heard, Underway, clientVars
<1>6. CallsEnded'
  <2>1. /\ ended \in Seq(Endings)
        /\ Len(made) = Len(ended) + (IF client = "waiting" THEN 1 ELSE 0)
        /\ \A i \in DOMAIN ended :
             \/ ended[i] \in {<<"lost">>, <<"refused">>}
             \/ /\ i \in DOMAIN answered
                /\ ended[i] = Outcome(made[i], DowngradeReply(answered[i], Agreed))
    BY DEF Heard, CallsEnded
  <2>2. ended' = ended /\ made' = made /\ client' = client
    BY DEF clientVars
  <2>3. \A i \in DOMAIN answered : i \in DOMAIN answered' /\ answered'[i] = answered[i]
    BY <1>3
  <2>4. ASSUME NEW i \in DOMAIN ended
        PROVE  \/ ended[i] \in {<<"lost">>, <<"refused">>}
               \/ /\ i \in DOMAIN answered'
                  /\ ended[i] = Outcome(made[i], DowngradeReply(answered'[i], Agreed))
    BY <2>1, <2>3
  <2> QED BY <2>1, <2>2, <2>4, <1>1 DEF CallsEnded
<1>7. RepliesUnderway'
  <2>1. PICK n \in Nat : n = Len(made') /\ k + 1 <= n
    BY DEF CallsReceived, Settled
  <2>2. ~Greeted
    BY <2>1 DEF Greeted, clientVars
  <2>3. PICK j \in 0 .. k :
          /\ Framed(toClient, j, k, ReplyPayloads)
          /\ ~timedOut => j = Len(ended)
    BY <2>2 DEF Heard, RepliesUnderway
  <2>4. PICK new : new = ReplyPayloads'
    OBVIOUS
  <2>5. /\ \A i \in 1 .. k : new[i] = ReplyPayloads[i]
        /\ new[k + 1] = ReplyBytes(reply, Agreed)
    BY <2>4, <1>1, <1>3 DEF ReplyPayloads
  <2>6. new[k + 1] \in Seq(Byte) /\ Len(new[k + 1]) <= MaxFrame
    BY <2>5, AnswerCrosses DEF IInv
  <2>7. Framed(toClient \o Frame(new[k + 1]), j, k + 1, new)
    <3>1. j \in Nat /\ j <= k /\ \A i \in (j + 1) .. k : new[i] = ReplyPayloads[i]
      BY <2>5
    <3> QED BY <3>1, <2>3, <2>6, FrameAdded
  <2>8. toClient' = toClient \o Frame(new[k + 1])
    <3>1. heard[1].version = Agreed
      BY DEF Heard, Underway, Hello
    <3> QED BY <3>1, <2>5 DEF Reply
  <2>9. j \in 0 .. Len(answered') /\ Framed(toClient', j, Len(answered'), ReplyPayloads')
    BY <2>4, <2>7, <2>8, <1>3
  <2>10. client' \in {"idle", "waiting", "closed"}
    BY <2>2 DEF Heard, RepliesUnderway, clientVars
  <2> QED BY <2>3, <2>9, <2>10 DEF RepliesUnderway, clientVars
<1> QED BY <1>4, <1>5, <1>6, <1>7 DEF IInv, Heard

\* What the server finds when it reads: the next call, as it was made.
LEMMA NextCall ==
  ASSUME Settled, CallsReceived, NEW frame \in ReadFrame(toServer)
  PROVE  LET i == Len(received) + 1
         IN  /\ i \in DOMAIN made /\ made[i] \in IntentsOf(door)
             /\ CallsIn(peers.server, frame[1]) = {CallOf(door, made[i], Agreed)}
             /\ Framed(frame[2], i, Len(made), CallPayloads)
<1>1. PICK n \in Nat : n = Len(made) /\ DOMAIN made = 1 .. n /\ \A i \in 1 .. n : made[i] \in IntentsOf(door)
  BY DEF Settled
<1>2. PICK k \in Nat : k = Len(received) /\ k <= n /\ Framed(toServer, k, n, CallPayloads)
  BY <1>1 DEF CallsReceived
<1>3. k < n
  <2>1. k = n => ReadFrame(toServer) = {}
    BY <1>2, FirstFrame
  <2> QED BY <2>1, <1>2
<1>4. PICK left : /\ ReadFrame(toServer) = {<<CallPayloads[k + 1], left>>}
                  /\ Framed(left, k + 1, n, CallPayloads)
  BY <1>2, <1>3, FirstFrame
<1>5. frame[1] = CallPayloads[k + 1] /\ frame[2] = left
  BY <1>4
<1>6. k + 1 \in DOMAIN made /\ made[k + 1] \in IntentsOf(door)
  BY <1>1, <1>3
<1>7. CallPayloads[k + 1] = CallBytes(CallOf(door, made[k + 1], Agreed))
  BY <1>6 DEF CallPayloads
<1>8. CallsIn(peers.server, frame[1]) = {CallOf(door, made[k + 1], Agreed)}
  BY <1>5, <1>6, <1>7, CallCrosses
<1> QED BY <1>1, <1>2, <1>4, <1>5, <1>6, <1>8

LEMMA RefuseFrameKeeps == IInv /\ RefuseFrame => IInv'
<1> SUFFICES ASSUME IInv, RefuseFrame PROVE IInv'
  OBVIOUS
<1>1. PICK frame \in ReadFrame(toServer) :
        /\ server = "reading" /\ server' = "gone"
        /\ CallsIn(peers.server, frame[1]) = {}
        /\ UNCHANGED <<setting, clientVars>>
  BY DEF RefuseFrame
<1>2. Settled'
  BY <1>1 DEF IInv, Settled, setting, clientVars
<1>3. cut
  <2>1. SUFFICES ASSUME ~cut PROVE FALSE
    OBVIOUS
  <2>2. Heard
    BY <2>1, <1>1 DEF IInv, Unheard
  <2> QED BY <2>2, <1>1, NextCall DEF IInv, Heard
<1> QED BY <1>1, <1>2, <1>3 DEF IInv, clientVars

LEMMA ReadCallKeeps == IInv /\ ReadCall => IInv'
<1> SUFFICES ASSUME IInv, ReadCall PROVE IInv'
  OBVIOUS
<1> DEFINE Reads(frame, call) ==
        /\ server = "reading"
        /\ toServer' = frame[2]
        /\ received' = Append(received, call)
        /\ IF Immediate(door, call) # <<>>
           THEN /\ Reply(Immediate(door, call)[1])
                /\ UNCHANGED <<server, entered>>
           ELSE /\ server' = "handling"
                /\ entered' = entered \cup {Len(received')}
                /\ UNCHANGED <<answered, toClient>>
        /\ UNCHANGED <<setting, clientVars, heard>>
<1>0. PICK frame \in ReadFrame(toServer) : \E call \in CallsIn(peers.server, frame[1]) : Reads(frame, call)
  BY DEF ReadCall
<1>1. PICK call \in CallsIn(peers.server, frame[1]) : Reads(frame, call)
  BY <1>0
<1>2. Settled'
  BY <1>1 DEF IInv, Settled, setting, clientVars
<1>3. CASE cut
  BY <1>1, <1>2, <1>3 DEF IInv, clientVars
<1>4. CASE ~cut
  <2>1. Heard
    BY <1>1, <1>4 DEF IInv, Unheard
  <2>2. PICK k \in Nat : k = Len(received) /\ DOMAIN received = 1 .. k /\ k <= Len(made)
                         /\ received \in Seq(CallsFor)
    BY <2>1 DEF Heard, CallsReceived
  <2>3. /\ k + 1 \in DOMAIN made /\ made[k + 1] \in IntentsOf(door)
        /\ call = CallOf(door, made[k + 1], Agreed)
        /\ Framed(toServer', k + 1, Len(made), CallPayloads)
    BY <2>1, <2>2, <1>1, NextCall DEF IInv, Heard
  <2>4. PICK n \in Nat : n = Len(made) /\ DOMAIN made = 1 .. n
    BY DEF IInv, Settled
  <2>5. call \in CallsFor
    BY <2>3 DEF CallsFor
  <2>6. /\ received' \in Seq(CallsFor) /\ Len(received') = k + 1 /\ DOMAIN received' = 1 .. (k + 1)
        /\ received'[k + 1] = call /\ \A i \in 1 .. k : received'[i] = received[i]
    BY <2>2, <2>5, <1>1, AppendProperties
  <2>7. made' = made /\ CallPayloads' = CallPayloads /\ Agreed' = Agreed /\ CallsFor' = CallsFor
        /\ door' = door /\ Answerable' = Answerable
    BY <1>1, SameSetting DEF clientVars, CallPayloads
  <2>8. CallsReceived'
    <3>1. ASSUME NEW i \in DOMAIN received' PROVE received'[i] = CallOf(door, made[i], Agreed)
      <4>1. CASE i = k + 1
        BY <4>1, <2>3, <2>6
      <4>2. CASE i # k + 1
        <5>1. i \in DOMAIN received /\ i \in 1 .. k
          BY <4>2, <2>2, <2>6
        <5> QED BY <5>1, <2>1, <2>6 DEF Heard, CallsReceived
      <4> QED BY <4>1, <4>2
    <3>2. Len(received') <= Len(made')
      BY <2>3, <2>4, <2>6, <2>7
    <3>3. Framed(toServer', Len(received'), Len(made'), CallPayloads')
      BY <2>3, <2>6, <2>7
    <3> QED BY <3>1, <3>2, <3>3, <2>6, <2>7 DEF CallsReceived
  <2>9. /\ answered \in Seq(Answerable) /\ Len(answered) = k /\ DOMAIN answered = 1 .. k
        /\ \A i \in DOMAIN answered : answered[i] \in Answers(door, received[i])
    BY <2>1, <2>2, <1>1 DEF Heard, CallsAnswered
  <2>10. Last(received') = call
    BY <2>6 DEF Last
  <2>11. CASE Immediate(door, call) # <<>>
    <3>1. PICK reply : reply = Immediate(door, call)[1]
      OBVIOUS
    <3>2. Reply(reply) /\ server' = "reading"
      BY <2>11, <3>1, <1>1
    <3>3. reply \in Answers(door, call)
      BY <2>11, <3>1 DEF Answers
    <3> QED BY <3>2, <3>3, <2>1, <2>2, <2>3, <2>6, <2>7, <2>8, <2>9, <1>1, <1>2, <1>4, AnswerKeeps
  <2>12. CASE Immediate(door, call) = <<>>
    <3>1. server' = "handling" /\ UNCHANGED <<answered, toClient>>
      BY <2>12, <1>1
    <3>2. CallsAnswered'
      <4>1. \A i \in DOMAIN answered' : answered'[i] \in Answers(door', received'[i])
        BY <3>1, <2>6, <2>7, <2>9
      <4>2. Immediate(door', Last(received')) = <<>>
        BY <2>7, <2>10, <2>12
      <4>3. Len(answered') + 1 = Len(received') /\ answered' \in Seq(Answerable')
        BY <3>1, <2>6, <2>7, <2>9
      <4> QED BY <4>1, <4>2, <4>3, <3>1 DEF CallsAnswered, Last
    <3>3. Underway' /\ CallsEnded'
      BY <2>1, <3>1, <1>1, SameUnderway, SameEnded DEF Heard, Underway, clientVars
    <3>4. Greeted' \/ RepliesUnderway'
      <4>1. CASE Greeted
        BY <4>1, <3>1, <1>1, SameGreeted DEF Greeted, clientVars
      <4>2. CASE RepliesUnderway
        <5>1. PICK j \in 0 .. Len(answered) :
                /\ Framed(toClient, j, Len(answered), ReplyPayloads)
                /\ ~timedOut => j = Len(ended)
          BY <4>2, <1>1 DEF RepliesUnderway
        <5>2. ReplyPayloads' = ReplyPayloads
          BY <3>1, <2>7 DEF ReplyPayloads
        <5> QED BY <4>2, <5>1, <5>2, <3>1, <1>1 DEF RepliesUnderway, clientVars
      <4> QED BY <4>1, <4>2, <2>1 DEF Heard
    <3> QED BY <3>2, <3>3, <3>4, <2>8, <1>2 DEF IInv, Heard
  <2> QED BY <2>11, <2>12
<1> QED BY <1>3, <1>4

LEMMA HandlerKeeps ==
  ASSUME IInv, NEW reply, server = "handling", server' = "reading", Reply(reply),
         Immediate(door, Last(received)) = <<>> => reply \in Answers(door, Last(received)),
         UNCHANGED <<setting, clientVars, heard, received, toServer>>
  PROVE  IInv'
<1>1. Settled'
  BY DEF IInv, Settled, setting, clientVars
<1>2. CASE cut
  BY <1>1, <1>2 DEF IInv, clientVars
<1>3. CASE ~cut
  <2>1. Heard
    BY <1>3 DEF IInv, Unheard
  <2>2. CallsReceived'
    BY <2>1, SameReceived DEF Heard, clientVars
  <2>3. PICK k \in Nat : k = Len(answered) /\ k + 1 = Len(received) /\ DOMAIN answered = 1 .. k
    BY <2>1 DEF Heard, CallsAnswered
  <2>4. /\ answered \in Seq(Answerable)
        /\ \A i \in DOMAIN answered : answered[i] \in Answers(door, received[i])
    BY <2>1 DEF Heard, CallsAnswered
  <2>5. PICK n \in Nat : n = Len(made) /\ DOMAIN made = 1 .. n /\ \A i \in 1 .. n : made[i] \in IntentsOf(door)
    BY DEF IInv, Settled
  <2>6. /\ k + 1 <= n /\ k + 1 \in DOMAIN received
        /\ received[k + 1] = CallOf(door, made[k + 1], Agreed)
    BY <2>1, <2>3, <2>5 DEF Heard, CallsReceived
  <2>7. made[k + 1] \in IntentsOf(door)
    BY <2>5, <2>6
  <2>8. Last(received) = received[k + 1] /\ Immediate(door, Last(received)) = <<>>
    BY <2>1, <2>3 DEF Heard, CallsAnswered, Last
  <2>9. reply \in Answers(door, CallOf(door, made[k + 1], Agreed))
    BY <2>6, <2>8
  <2>10. Len(received') = k + 1 /\ received'[k + 1] = received[k + 1]
         /\ \A i \in 1 .. k : received'[i] = received[i]
    BY <2>3
  <2> QED BY <2>1, <2>2, <2>3, <2>4, <2>6, <2>7, <2>9, <2>10, <1>1, <1>3, AnswerKeeps
<1> QED BY <1>2, <1>3

LEMMA GoneKeeps == IInv /\ Gone => IInv'
<1> SUFFICES ASSUME IInv, Gone PROVE IInv'
  OBVIOUS
<1>1. Settled'
  BY DEF IInv, Gone, Settled, setting, clientVars
<1>2. CASE Unheard
  <2>1. Agreed' = Agreed /\ mode' = mode
    BY SameSetting DEF Gone
  <2>2. Unheard'
    BY <1>2, <2>1 DEF Unheard, Gone, clientVars, streams, Hello
  <2> QED BY <1>1, <2>2 DEF IInv
<1>3. CASE Heard
  <2>1. Underway' /\ CallsReceived' /\ CallsAnswered' /\ CallsEnded'
    BY <1>3, SameUnderway, SameReceived, SameAnswered, SameEnded
       DEF Gone, Heard, Underway, clientVars, streams
  <2>2. Greeted' \/ RepliesUnderway'
    <3>1. CASE Greeted
      BY <3>1, SameGreeted DEF Gone, Greeted, clientVars, streams
    <3>2. CASE RepliesUnderway
      BY <3>2, SameReplies DEF Gone, RepliesUnderway, clientVars, streams
    <3> QED BY <3>1, <3>2, <1>3 DEF Heard
  <2> QED BY <1>1, <2>1, <2>2 DEF IInv, Heard
<1> QED BY <1>1, <1>2, <1>3 DEF IInv, Gone, clientVars
-----------------------------------------------------------------------------
LEMMA KeptStep == NothingKept /\ [Next]_vars => NothingKept'
<1> SUFFICES ASSUME NothingKept, [Next]_vars PROVE NothingKept'
  OBVIOUS
<1>1. CASE \E intent \in Intents : MakeCall(intent)
  BY <1>1 DEF NothingKept, MakeCall
<1>2. CASE \E intent \in Intents :
          \E n \in 0 .. (Len(unsent) + Len(FrameOf(intent)) - 1) : WriteTimesOut(intent, n)
  BY <1>2 DEF NothingKept, WriteTimesOut
<1>3. CASE Close
  BY <1>3 DEF NothingKept, Close
<1>4. CASE Greet \/ HearAnswer \/ NotHeard \/ ReadReply \/ ReadTimesOut \/ ReadRefused \/ ServerLost
  BY <1>4 DEF NothingKept, Greet, HearAnswer, NotHeard, ReadReply, ReadTimesOut, ReadRefused, ServerLost
<1>5. CASE ServerNext
  BY <1>5 DEF NothingKept, ServerNext, HearHello, RefuseFrame, ReadCall, Gone, HandlerReturns,
              HandlerRaises, clientVars
<1>6. CASE UNCHANGED vars
  BY <1>6 DEF NothingKept, vars, clientVars
<1> QED BY <1>1, <1>2, <1>3, <1>4, <1>5, <1>6 DEF Next, ClientNext

LEMMA NextKeeps == IInv /\ NothingKept /\ [Next]_vars => IInv'
<1> SUFFICES ASSUME IInv, NothingKept, [Next]_vars PROVE IInv'
  OBVIOUS
<1>1. CASE Greet
  BY <1>1, GreetKeeps
<1>2. CASE HearAnswer
  BY <1>2, HearAnswerKeeps
<1>3. CASE NotHeard
  BY <1>3, NotHeardKeeps
<1>4. CASE \E intent \in Intents : MakeCall(intent)
  BY <1>4, MakeCallKeeps
<1>5. CASE \E intent \in Intents :
          \E n \in 0 .. (Len(unsent) + Len(FrameOf(intent)) - 1) : WriteTimesOut(intent, n)
  <2>1. PICK intent \in Intents :
          \E n \in 0 .. (Len(unsent) + Len(FrameOf(intent)) - 1) : WriteTimesOut(intent, n)
    BY <1>5
  <2>2. PICK n : n \in 0 .. (Len(unsent) + Len(FrameOf(intent)) - 1) /\ WriteTimesOut(intent, n)
    BY <2>1
  <2>3. n \in Nat
    BY <2>2
  <2> QED BY <2>2, <2>3, WriteTimesOutKeeps
<1>6. CASE ReadReply
  BY <1>6, ReadReplyKeeps
<1>7. CASE ReadTimesOut \/ ReadRefused \/ ServerLost
  BY <1>7, NoReplyKeeps
<1>8. CASE Close
  BY <1>8, CloseKeeps
<1>9. CASE HearHello
  BY <1>9, HearHelloKeeps
<1>10. CASE RefuseFrame
  BY <1>10, RefuseFrameKeeps
<1>11. CASE ReadCall
  BY <1>11, ReadCallKeeps
<1>12. CASE Gone
  BY <1>12, GoneKeeps
<1>13. ASSUME NEW result \in Results, HandlerReturns(result) PROVE IInv'
  <2>1. /\ server = "handling" /\ server' = "reading" /\ Reply(Returned(Last(received), result))
        /\ UNCHANGED <<setting, clientVars, heard, received, toServer>>
    BY <1>13 DEF HandlerReturns
  <2>2. Immediate(door, Last(received)) = <<>>
        => Returned(Last(received), result) \in Answers(door, Last(received))
    BY DEF Answers
  <2> QED BY <2>1, <2>2, HandlerKeeps
<1>14. ASSUME NEW error \in Failures, HandlerRaises(error) PROVE IInv'
  <2>1. /\ server = "handling" /\ server' = "reading" /\ Reply(Failed(error))
        /\ UNCHANGED <<setting, clientVars, heard, received, toServer>>
    BY <1>14 DEF HandlerRaises
  <2>2. Immediate(door, Last(received)) = <<>> => Failed(error) \in Answers(door, Last(received))
    BY DEF Answers
  <2> QED BY <2>1, <2>2, HandlerKeeps
<1>15. CASE UNCHANGED vars
  <2>1. UNCHANGED <<setting, clientVars, serverVars, streams>>
    BY <1>15 DEF vars
  <2>2. Settled'
    BY <2>1 DEF IInv, Settled, setting, clientVars, serverVars, IntentsOf
  <2>3. CASE Unheard
    <3>1. Agreed' = Agreed /\ mode' = mode
      BY <2>1, SameSetting
    <3>2. Unheard'
      BY <2>1, <2>3, <3>1 DEF Unheard, clientVars, serverVars, streams, Hello
    <3> QED BY <2>2, <3>2 DEF IInv
  <2>4. CASE Heard
    <3>1. Underway' /\ CallsReceived' /\ CallsAnswered' /\ CallsEnded'
      BY <2>1, <2>4, SameUnderway, SameReceived, SameAnswered, SameEnded
         DEF Heard, Underway, clientVars, serverVars, streams
    <3>2. Greeted' \/ RepliesUnderway'
      <4>1. CASE Greeted
        BY <2>1, <4>1, SameGreeted DEF Greeted, clientVars, streams
      <4>2. CASE RepliesUnderway
        BY <2>1, <4>2, SameReplies DEF RepliesUnderway, clientVars, serverVars, streams
      <4> QED BY <4>1, <4>2, <2>4 DEF Heard
    <3> QED BY <2>2, <3>1, <3>2 DEF IInv, Heard
  <2> QED BY <2>1, <2>2, <2>3, <2>4 DEF IInv, clientVars
<1> QED BY <1>1, <1>2, <1>3, <1>4, <1>5, <1>6, <1>7, <1>8, <1>9, <1>10, <1>11, <1>12, <1>13,
           <1>14, <1>15 DEF Next, ClientNext, ServerNext

\* The two sides agree, call by call and byte by byte, on what is under way,
\* unless a frame was written in part.
THEOREM StreamsAgree == Spec => []IInv
<1>1. Init => IInv /\ NothingKept
  BY InitKeeps DEF Init, NothingKept
<1>2. IInv /\ NothingKept /\ [Next]_vars => IInv' /\ NothingKept'
  BY NextKeeps, KeptStep
<1> QED BY <1>1, <1>2, PTL DEF Spec
-----------------------------------------------------------------------------
(* What follows from it. *)

\* What CallKept says of the calls the client makes.
LEMMA MadeCall ==
  ASSUME Settled, NEW intent \in IntentsOf(door)
  PROVE  LET call == CallOf(door, intent, Agreed)
         IN  /\ intent.kind \in {"issue", "traced"} =>
                  /\ Taken(call) = Asked(intent)
                  /\ Run(call) = IF Agreed >= IssueWithSince
                                 THEN <<intent.retries, intent.timeLeft>> ELSE <<<<>>, <<>>>>
             /\ intent.kind = "entries"   => call[1] = "Entries"
             /\ intent.kind = "is_cached" => call[1] = "IsCached"
<1>1. Agreed \in Versions /\ Agreed <= Agreed /\ door \in Doors
  BY AgreedVersion DEF Settled, Versions, OldestVersion, ProtocolVersion
<1>2. PICK call : call = CallOf(door, intent, Agreed)
  OBVIOUS
<1>3. DowngradeCall(call, <<Agreed>>) = call
  BY <1>1, <1>2, CallAsBuilt
<1>4. /\ intent.kind \in {"issue", "traced"} =>
           /\ Taken(call) = [request |-> RequestOf(door, intent),
                             capability |-> Or(intent.capability, Root),
                             traced |-> intent.kind = "traced"]
           /\ Run(call) = IF Agreed >= IssueWithSince THEN <<intent.retries, intent.timeLeft>>
                          ELSE <<<<>>, <<>>>>
      /\ intent.kind = "entries"   => call = <<"Entries">>
      /\ intent.kind = "is_cached" => call = <<"IsCached", RequestOf(door, intent)>>
  <2>1. LET sent == DowngradeCall(CallOf(door, intent, Agreed), <<Agreed>>)
        IN  /\ intent.kind \in {"issue", "traced"} =>
                 /\ Taken(sent) = [request |-> RequestOf(door, intent),
                                   capability |-> Or(intent.capability, Root),
                                   traced |-> intent.kind = "traced"]
                 /\ Run(sent) = IF Agreed >= IssueWithSince
                                THEN <<intent.retries, intent.timeLeft>> ELSE <<<<>>, <<>>>>
            /\ intent.kind = "entries"   => sent = <<"Entries">>
            /\ intent.kind = "is_cached" => sent = <<"IsCached", RequestOf(door, intent)>>
    BY <1>1, CallKept
  <2> QED BY <2>1, <1>2, <1>3
<1> QED BY <1>2, <1>4 DEF Asked

LEMMA ArriveAsMade == IInv => CallsArriveAsMade
<1> SUFFICES ASSUME IInv, ~cut PROVE CallsArriveAsMade
  BY DEF CallsArriveAsMade
<1>1. CASE Unheard
  BY <1>1 DEF CallsArriveAsMade, Unheard
<1>2. CASE Heard
  <2>1. /\ heard = <<Hello(Agreed, mode)>> /\ Len(received) <= Len(made)
        /\ received \in Seq(CallsFor) /\ made \in Seq(IntentsOf(door))
    BY <1>2 DEF IInv, Settled, Heard, Underway, CallsReceived
  <2>2. ASSUME NEW i \in DOMAIN received
        PROVE  IF made[i].kind \in {"issue", "traced"}
               THEN /\ Taken(received[i]) = Asked(made[i])
                    /\ Run(received[i]) = IF Agreed >= IssueWithSince
                                          THEN <<made[i].retries, made[i].timeLeft>>
                                          ELSE <<<<>>, <<>>>>
               ELSE made[i].kind = (IF received[i][1] = "Entries" THEN "entries" ELSE "is_cached")
    <3>1. i \in 1 .. Len(made)
      BY <2>1
    <3>2. PICK intent \in IntentsOf(door) : intent = made[i]
      BY <2>1, <3>1
    <3>3. received[i] = CallOf(door, intent, Agreed)
      BY <1>2, <3>2 DEF Heard, CallsReceived
    <3>4. PICK call : call = received[i]
      OBVIOUS
    <3>5. /\ intent.kind \in {"issue", "traced"} =>
               /\ Taken(call) = Asked(intent)
               /\ Run(call) = IF Agreed >= IssueWithSince
                              THEN <<intent.retries, intent.timeLeft>> ELSE <<<<>>, <<>>>>
          /\ intent.kind = "entries"   => call[1] = "Entries"
          /\ intent.kind = "is_cached" => call[1] = "IsCached"
      BY <3>3, <3>4, MadeCall DEF IInv
    <3>6. intent.kind \in {"issue", "traced", "is_cached", "entries"}
      BY KindKnown DEF IInv, Settled
    <3> QED BY <3>2, <3>4, <3>5, <3>6
  <2> QED BY <2>1, <2>2 DEF CallsArriveAsMade
<1> QED BY <1>1, <1>2 DEF IInv

\* The server takes the calls that were made, in order, each with all that it
\* asks, for every door, every intent and every pair of versions.
THEOREM TakenAsMade == Spec => []CallsArriveAsMade
BY StreamsAgree, ArriveAsMade, PTL

LEMMA EndedByItsReply ==
  ASSUME IInv, ~cut, NEW i \in DOMAIN ended
  PROVE  \/ ended[i] \in {<<"lost">>, <<"refused">>}
         \/ /\ i \in DOMAIN answered
            /\ Fits(made[i], answered[i], ended[i], Agreed)
<1>1. CASE Unheard
  BY <1>1 DEF Unheard
<1>2. CASE Heard
  <2>1. ASSUME i \in DOMAIN answered,
               ended[i] = Outcome(made[i], DowngradeReply(answered[i], Agreed))
        PROVE  Fits(made[i], answered[i], ended[i], Agreed)
    <3>1. /\ made[i] \in IntentsOf(door)
          /\ answered[i] \in Answers(door, CallOf(door, made[i], Agreed))
      BY <1>2, <2>1, ReceivedWasMade DEF IInv, Heard
    <3>2. Agreed \in Versions /\ door \in Doors
      BY AgreedVersion DEF IInv, Settled
    <3> QED BY <3>1, <3>2, <2>1, OutcomeFits
  <2> QED BY <2>1, <1>2 DEF Heard, CallsEnded
<1> QED BY <1>1, <1>2 DEF IInv

LEMMA OwnReply == IInv => OwnReplyOrNone
<1> SUFFICES ASSUME IInv, ~cut, NEW i \in DOMAIN ended
             PROVE  CASE ended[i][1] = "resolved" ->
                           /\ i \in DOMAIN answered
                           /\ answered[i][1] \in {"Resolved", "ResolvedTraced"}
                           /\ SubSeq(answered[i], 2, 3) = Tail(ended[i])
                      [] ended[i][1] = "raised" ->
                           /\ i \in DOMAIN answered /\ answered[i][1] = "ErrorTyped"
                           /\ Conveys(ended[i][2], answered[i][2], Agreed)
                      [] ended[i][1] = "entries" ->
                           i \in DOMAIN answered /\ answered[i] = <<"Entries", ended[i][2]>>
                      [] OTHER -> TRUE
  BY DEF OwnReplyOrNone
<1>1. PICK outcome : outcome = ended[i]
  OBVIOUS
<1>2. PICK reply : reply = answered[i]
  OBVIOUS
<1>3. \/ outcome \in {<<"lost">>, <<"refused">>}
      \/ i \in DOMAIN answered /\ Fits(made[i], reply, outcome, Agreed)
  BY <1>1, <1>2, EndedByItsReply
<1>4. CASE outcome \in {<<"lost">>, <<"refused">>}
  BY <1>4, <1>1
<1>5. CASE i \in DOMAIN answered /\ Fits(made[i], reply, outcome, Agreed)
  <2>1. Agreed \in Versions
    BY AgreedVersion DEF IInv
  <2>2. /\ outcome[1] = "resolved" =>
             /\ reply[1] \in {"Resolved", "ResolvedTraced"}
             /\ SubSeq(reply, 2, 3) = Tail(outcome)
        /\ outcome[1] = "raised" =>
             reply[1] = "ErrorTyped" /\ Conveys(outcome[2], reply[2], Agreed)
        /\ outcome[1] = "entries" => reply = <<"Entries", outcome[2]>>
    BY <1>5, <2>1, FitsSaysSo
  <2> QED BY <2>2, <1>1, <1>2, <1>5
<1> QED BY <1>3, <1>4, <1>5

\* A call ends with the reply to that very call or with none of any, for every
\* failure a handler may raise and every pair of versions.
THEOREM OwnReplies == Spec => []OwnReplyOrNone
BY StreamsAgree, OwnReply, PTL

LEMMA AllReadable == IInv => NothingUnreadable
<1> SUFFICES ASSUME IInv, ~cut PROVE NothingUnreadable
  BY DEF NothingUnreadable
<1>1. ASSUME NEW i \in DOMAIN ended PROVE ended[i] # <<"protocol">>
  <2>1. Agreed \in Versions
    BY AgreedVersion DEF IInv
  <2>2. PICK outcome : outcome = ended[i]
    OBVIOUS
  <2>3. Fits(made[i], answered[i], outcome, Agreed) => outcome # <<"protocol">>
    BY <2>1, FitsSaysSo
  <2> QED BY <2>2, <2>3, EndedByItsReply
<1>2. ASSUME server = "reading", NEW frame \in ReadFrame(toServer)
      PROVE  CallsIn(peers.server, frame[1]) # {}
  <2>1. Heard
    BY <1>2 DEF IInv, Unheard
  <2> QED BY <2>1, NextCall DEF IInv, Heard
<1>3. ASSUME NEW frame \in ReadFrame(toClient), client = "waiting",
             NEW reply \in RepliesIn(peers.client, frame[1])
      PROVE  reply # Failed(<<"Endpoint", Unnamed>>)
  <2>1. Heard /\ RepliesUnderway
    BY <1>3, HeardByNow
  <2>2. PICK n \in Nat : n = Len(answered) /\ DOMAIN answered = 1 .. n
    BY <2>1 DEF Heard, CallsAnswered
  <2>3. PICK k \in 0 .. n : Framed(toClient, k, n, ReplyPayloads)
    BY <2>1, <2>2 DEF RepliesUnderway
  <2>4. k \in Nat /\ k < n
    <3>1. k = n => ReadFrame(toClient) = {}
      BY <2>3, FirstFrame
    <3> QED BY <3>1, <1>3
  <2>5. frame[1] = ReplyPayloads[k + 1] /\ k + 1 \in DOMAIN answered
    <3>1. PICK left : /\ ReadFrame(toClient) = {<<ReplyPayloads[k + 1], left>>}
                      /\ Framed(left, k + 1, n, ReplyPayloads)
      BY <2>3, <2>4, FirstFrame
    <3> QED BY <3>1, <2>2, <2>4
  <2>6. /\ made[k + 1] \in IntentsOf(door) /\ door \in Doors /\ Agreed \in Versions
        /\ answered[k + 1] \in Answers(door, CallOf(door, made[k + 1], Agreed))
    BY <2>1, <2>5, ReceivedWasMade, AgreedVersion DEF IInv, Heard, Settled
  <2>7. reply = DowngradeReply(answered[k + 1], Agreed)
    <3>1. ReplyPayloads[k + 1] = ReplyBytes(answered[k + 1], Agreed)
      BY <2>5 DEF ReplyPayloads
    <3>2. RepliesIn(peers.client, ReplyBytes(answered[k + 1], Agreed))
          = {DowngradeReply(answered[k + 1], Agreed)}
      BY <2>6, AnswerCrosses DEF IInv
    <3> QED BY <3>1, <3>2, <2>5
  <2>8. CASE answered[k + 1][1] # "ErrorTyped"
    BY <2>7, <2>8 DEF DowngradeReply, Failed
  <2>9. CASE answered[k + 1][1] = "ErrorTyped"
    <3>1. PICK e : /\ answered[k + 1] = <<"ErrorTyped", e>>
                   /\ \/ e \in Failures
                      \/ e[1] \in {"Unresolved", "MissingArgument", "InvalidArgument"}
      <4>1. PICK r : r = answered[k + 1]
        OBVIOUS
      <4>2. PICK intent \in IntentsOf(door) : intent = made[k + 1]
        BY <2>6
      <4>3. r \in Answers(door, CallOf(door, intent, Agreed)) /\ r[1] = "ErrorTyped"
        BY <4>1, <4>2, <2>6, <2>9
      <4>4. PICK v \in Versions : v = Agreed
        BY <2>6
      <4>5. PICK dr \in Doors : dr = door
        BY <2>6
      <4>6. r \in Answers(dr, CallOf(dr, intent, v)) /\ intent \in IntentsOf(dr)
        BY <4>3, <4>4, <4>5
      <4>7. /\ intent.kind = "entries"   => r = <<"Entries", r[2]>>
            /\ intent.kind = "is_cached" => r = <<"Cached", FALSE>>
            /\ intent.kind \in {"issue", "traced"} =>
                 \/ \E e : /\ r = <<"ErrorTyped", e>>
                           /\ \/ e \in Failures
                              \/ e[1] \in {"Unresolved", "MissingArgument", "InvalidArgument"}
                 \/ intent.kind = "issue" /\ \E x, y : r = <<"Resolved", x, y>>
                 \/ intent.kind = "traced" /\ \E x, y, z : r = <<"ResolvedTraced", x, y, z>>
        BY <4>6, AnswerShape
      <4>8. intent.kind \in {"issue", "traced", "is_cached", "entries"}
        BY <4>6, KindKnown
      <4>9. intent.kind \in {"issue", "traced"}
        <5>1. intent.kind # "entries"
          <6>1. r = <<"Entries", r[2]>> => r[1] = "Entries"
            OBVIOUS
          <6>2. intent.kind = "entries" => r = <<"Entries", r[2]>>
            BY <4>7
          <6> QED BY <6>1, <6>2, <4>3
        <5>2. intent.kind # "is_cached"
          <6>1. r = <<"Cached", FALSE>> => r[1] = "Cached"
            OBVIOUS
          <6>2. intent.kind = "is_cached" => r = <<"Cached", FALSE>>
            BY <4>7
          <6> QED BY <6>1, <6>2, <4>3
        <5> QED BY <5>1, <5>2, <4>8
      <4> QED BY <4>1, <4>3, <4>7, <4>9
    <3>2. DowngradeReply(answered[k + 1], Agreed) = <<"ErrorTyped", DowngradeError(e, Agreed)>>
      BY <3>1 DEF DowngradeReply
    <3>3. DowngradeError(e, Agreed) # <<"Endpoint", Unnamed>>
      BY <3>1, <2>6, FailurePut
    <3> QED BY <3>2, <3>3, <2>7 DEF Failed
  <2> QED BY <2>8, <2>9
<1> QED BY <1>1, <1>2, <1>3 DEF NothingUnreadable

\* Neither side meets a message it cannot read, or a reply that does not fit
\* its call, whatever is called, returned and raised.
THEOREM EveryMessageRead == Spec => []NothingUnreadable
BY StreamsAgree, AllReadable, PTL

LEMMA Redialed == IInv => DowngradedAsBuilt
<1> SUFFICES ASSUME IInv, NEW i \in DOMAIN made, made[i].kind \in {"issue", "traced"},
                    NEW built \in OldestVersion .. ProtocolVersion, built >= Agreed
             PROVE  LET sent == DowngradeCall(CallOf(door, made[i], built), <<Agreed>>)
                    IN  /\ Taken(sent) = Asked(made[i])
                        /\ Run(sent) = Run(CallOf(door, made[i], Agreed))
                        /\ CallsIn(peers.server, CallBytes(sent)) = {sent}
  BY DEF DowngradedAsBuilt
<1>1. PICK intent \in IntentsOf(door) : intent = made[i]
  BY DEF IInv, Settled
<1>2. /\ Agreed \in Versions /\ peers.server \in Versions /\ Agreed <= peers.server
      /\ door \in Doors /\ built \in Versions /\ Agreed <= built
  BY AgreedVersion DEF IInv, Settled, Versions, OldestVersion, ProtocolVersion
<1>3. PICK sent : sent = DowngradeCall(CallOf(door, intent, built), <<Agreed>>)
  OBVIOUS
<1>4. /\ sent \in Forms(door, intent, Agreed)
      /\ Taken(sent) = [request |-> RequestOf(door, intent),
                        capability |-> Or(intent.capability, Root),
                        traced |-> intent.kind = "traced"]
      /\ Run(sent) = IF Agreed >= IssueWithSince THEN <<intent.retries, intent.timeLeft>>
                     ELSE <<<<>>, <<>>>>
  BY <1>1, <1>2, <1>3, CallKept
<1>5. Run(CallOf(door, intent, Agreed)) = IF Agreed >= IssueWithSince
                                          THEN <<intent.retries, intent.timeLeft>>
                                          ELSE <<<<>>, <<>>>>
  BY <1>1, MadeCall DEF IInv
<1>6. CallsIn(peers.server, CallBytes(sent)) = {sent}
  <2>1. \A dr \in Doors : \A v, w \in Versions : v <= w =>
          \A it \in IntentsOf(dr) : \A call \in Forms(dr, it, v) :
            CallsIn(w, CallBytes(call)) = {call}
    BY CodecAssumption
  <2>2. PICK v \in Versions, w \in Versions : v = Agreed /\ w = peers.server /\ v <= w
    BY <1>2
  <2>3. sent \in Forms(door, intent, v)
    BY <1>4, <2>2
  <2> QED BY <2>1, <2>2, <2>3, <1>2
<1> QED BY <1>1, <1>3, <1>4, <1>5, <1>6 DEF Asked

\* A call built for one version and put for an older asks what one built for
\* the older asks, and is read as it is.
THEOREM RedialAsksTheSame == Spec => []DowngradedAsBuilt
BY StreamsAgree, Redialed, PTL

\* While no frame was written in part, the calls that entered the handler are of
\* those the server took, and none could be answered before it; and those that
\* were answered without it could be.
EnteredInv ==
  ~cut =>
  /\ entered \subseteq DOMAIN received
  /\ \A i \in entered : Immediate(door, received[i]) = <<>>
  /\ \A i \in DOMAIN answered \ entered : Immediate(door, received[i]) # <<>>
  /\ server = "handling" => Len(received) \in entered

LEMMA EnteredKeeps == IInv /\ EnteredInv /\ [Next]_vars => EnteredInv'
<1> SUFFICES ASSUME IInv, EnteredInv, [Next]_vars, ~cut' PROVE EnteredInv'
  BY DEF EnteredInv
<1>1. ~cut /\ door' = door
  <2>1. (cut' = cut /\ door' = door) \/ cut'
    BY DEF Next, ClientNext, ServerNext, Greet, HearHello, HearAnswer, NotHeard, MakeCall,
           WriteTimesOut, ReadReply, ReadTimesOut, ReadRefused, ServerLost, Close,
           RefuseFrame, ReadCall, Gone, HandlerReturns, HandlerRaises, vars, setting, clientVars
  <2> QED BY <2>1
<1>0. /\ received \in Seq(CallsFor) /\ answered \in Seq(Answerable)
      /\ server = "reading" => Len(answered) = Len(received)
      /\ server = "handling" => Len(answered) + 1 = Len(received)
      /\ Len(answered) <= Len(received)
  <2>1. CASE Unheard
    BY <2>1, EmptySeq DEF Unheard
  <2>2. CASE Heard
    BY <2>2 DEF Heard, CallsReceived, CallsAnswered
  <2> QED BY <1>1, <2>1, <2>2 DEF IInv
<1>5. PICK k \in Nat, m \in Nat : /\ k = Len(received) /\ DOMAIN received = 1 .. k
                                 /\ m = Len(answered) /\ DOMAIN answered = 1 .. m /\ m <= k
  BY <1>0, LenProperties
<1>6. /\ entered \subseteq 1 .. k /\ \A i \in entered : Immediate(door, received[i]) = <<>>
      /\ \A i \in (1 .. m) \ entered : Immediate(door, received[i]) # <<>>
      /\ server = "handling" => k \in entered
  BY <1>1, <1>5 DEF EnteredInv
<1>2. CASE ReadCall
  <2> DEFINE Reads(frame, call) ==
        /\ server = "reading"
        /\ received' = Append(received, call)
        /\ IF Immediate(door, call) # <<>>
           THEN Reply(Immediate(door, call)[1]) /\ UNCHANGED <<server, entered>>
           ELSE /\ server' = "handling"
                /\ entered' = entered \cup {Len(received')}
                /\ UNCHANGED answered
  <2>1. PICK frame \in ReadFrame(toServer) : \E call \in CallsIn(peers.server, frame[1]) : Reads(frame, call)
    BY <1>2 DEF ReadCall
  <2>2. PICK call \in CallsIn(peers.server, frame[1]) : Reads(frame, call)
    BY <2>1
  <2>3. m = k
    BY <1>0, <1>5, <2>2
  <2>4. /\ Len(received') = k + 1 /\ DOMAIN received' = 1 .. (k + 1) /\ received'[k + 1] = call
        /\ \A i \in 1 .. k : received'[i] = received[i]
    <3>1. PICK T : T = CallsFor \cup {call}
      OBVIOUS
    <3>2. received \in Seq(T) /\ call \in T
      BY <1>0, <3>1, SeqMonotonic
    <3> QED BY <1>5, <2>2, <3>2, AppendProperties
  <2>5. \A i \in entered : i \in DOMAIN received' /\ Immediate(door', received'[i]) = <<>>
    BY <1>1, <1>6, <2>4
  <2>6. \A i \in (1 .. m) \ entered : Immediate(door', received'[i]) # <<>>
    BY <1>1, <1>6, <2>3, <2>4
  <2>7. CASE Immediate(door, call) # <<>>
    <3>1. entered' = entered /\ server' = "reading"
      BY <2>2, <2>7
    <3>2. DOMAIN answered' = 1 .. (m + 1)
      <4>1. PICK reply : answered' = Append(answered, reply)
        BY <2>2, <2>7 DEF Reply
      <4>2. PICK T : T = Answerable \cup {reply}
        OBVIOUS
      <4>3. answered \in Seq(T) /\ reply \in T
        BY <1>0, <4>2, SeqMonotonic
      <4> QED BY <1>5, <4>1, <4>3, AppendProperties
    <3>3. ASSUME NEW i \in DOMAIN answered' \ entered' PROVE Immediate(door', received'[i]) # <<>>
      <4>1. CASE i = k + 1
        BY <1>1, <2>4, <2>7, <4>1
      <4>2. CASE i # k + 1
        <5>1. i \in (1 .. m) \ entered
          BY <2>3, <3>1, <3>2, <4>2
        <5> QED BY <2>6, <5>1
      <4> QED BY <4>1, <4>2
    <3> QED BY <2>5, <3>1, <3>3 DEF EnteredInv
  <2>8. CASE Immediate(door, call) = <<>>
    <3>1. k + 1 \in DOMAIN received' /\ Immediate(door', received'[k + 1]) = <<>>
      BY <1>1, <2>4, <2>8
    <3>2. entered' = entered \cup {k + 1} /\ answered' = answered
      BY <2>2, <2>4, <2>8
    <3>3. \A i \in DOMAIN answered' \ entered' : Immediate(door', received'[i]) # <<>>
      BY <1>5, <2>6, <3>2
    <3> QED BY <2>4, <2>5, <3>1, <3>2, <3>3 DEF EnteredInv
  <2> QED BY <2>7, <2>8
<1>3. CASE (\E result \in Results : HandlerReturns(result)) \/ \E error \in Failures : HandlerRaises(error)
  <2>1. PICK reply : /\ server = "handling" /\ server' = "reading" /\ UNCHANGED <<received, entered>>
                     /\ answered' = Append(answered, reply)
    BY <1>3 DEF HandlerReturns, HandlerRaises, Reply
  <2>2. DOMAIN answered' = 1 .. (m + 1)
    <3>1. PICK T : T = Answerable \cup {reply}
      OBVIOUS
    <3>2. answered \in Seq(T) /\ reply \in T
      BY <1>0, <3>1, SeqMonotonic
    <3> QED BY <1>5, <2>1, <3>2, AppendProperties
  <2>3. m + 1 = k /\ k \in entered
    BY <1>0, <1>5, <1>6, <2>1
  <2>4. \A i \in DOMAIN answered' \ entered : i \in (1 .. m) \ entered
    BY <2>2, <2>3
  <2> QED BY <1>1, <1>5, <1>6, <2>1, <2>4 DEF EnteredInv
<1>4. CASE ~ReadCall /\ ~(\E result \in Results : HandlerReturns(result))
           /\ ~(\E error \in Failures : HandlerRaises(error))
  <2>1. UNCHANGED <<received, entered, answered>> /\ (server' = "handling" => server = "handling")
    BY <1>4 DEF Next, ClientNext, ServerNext, Greet, HearHello, HearAnswer, NotHeard, MakeCall,
         WriteTimesOut, ReadReply, ReadTimesOut, ReadRefused, ServerLost, Close,
         RefuseFrame, Gone, vars, serverVars
  <2> QED BY <1>1, <2>1 DEF EnteredInv
<1> QED BY <1>2, <1>3, <1>4

LEMMA EnteredKept == Spec => []EnteredInv
<1>1. Init => EnteredInv
  BY DEF Init, EnteredInv
<1> QED BY <1>1, EnteredKeeps, StreamsAgree, PTL DEF Spec

\* A call that asks for a resource is carried as a request for it.
LEMMA Carried ==
  ASSUME Settled, NEW intent \in IntentsOf(door), intent.kind \in {"issue", "traced"}
  PROVE  LET call == CallOf(door, intent, Agreed)
         IN  Request(call) = RequestOf(door, intent) /\ call[1] \notin {"Entries", "IsCached"}
<1>1. Agreed \in Versions
  BY AgreedVersion
<1>2. PICK call, request : call = CallOf(door, intent, Agreed) /\ request = RequestOf(door, intent)
  OBVIOUS
<1>3. call[2] = request /\ call[1] \in {"Issue", "IssueAs", "IssueTraced", "IssueWith"}
  BY <1>1, <1>2, CallShape
<1> QED BY <1>2, <1>3 DEF Request

\* What a handler is called for was asked for: its name is one some intent was
\* expanded to.
LEMMA EnteredName ==
  ASSUME IInv, EnteredInv, ~cut, NEW i \in entered
  PROVE  /\ made[i] \in IntentsOf(door) /\ door \in Doors /\ made[i].kind \in {"issue", "traced"}
         /\ received[i] = CallOf(door, made[i], Agreed) /\ Immediate(door, received[i]) = <<>>
         /\ Request(received[i]) = RequestOf(door, made[i])
         /\ Request(received[i])[2] = Target(door, made[i])
<1>1. i \in DOMAIN received /\ Immediate(door, received[i]) = <<>>
  BY DEF EnteredInv
<1>2. Heard
  <2>1. CASE Unheard
    BY <1>1, <2>1 DEF Unheard
  <2> QED BY <2>1 DEF IInv
<1>3. /\ received[i] = CallOf(door, made[i], Agreed)
      /\ made[i] \in IntentsOf(door) /\ door \in Doors
  <2>1. i \in DOMAIN made
    <3>1. /\ received \in Seq(CallsFor) /\ made \in Seq(IntentsOf(door))
          /\ Len(received) <= Len(made)
      BY <1>2 DEF IInv, Settled, Heard, CallsReceived
    <3>2. /\ DOMAIN received = 1 .. Len(received) /\ Len(received) \in Nat
          /\ DOMAIN made = 1 .. Len(made) /\ Len(made) \in Nat
      BY <3>1, LenProperties
    <3> QED BY <1>1, <3>1, <3>2
  <2> QED BY <1>1, <1>2, <2>1 DEF IInv, Settled, Heard, CallsReceived
<1>4. PICK intent \in IntentsOf(door) : intent = made[i]
  BY <1>3
<1>5. intent.kind \in {"issue", "traced"}
  <2>1. PICK call : call = CallOf(door, intent, Agreed) /\ Immediate(door, call) = <<>>
    BY <1>1, <1>3, <1>4
  <2>2. intent.kind # "entries"
    <3> SUFFICES ASSUME intent.kind = "entries" PROVE FALSE
      OBVIOUS
    <3>1. call[1] = "Entries"
      BY <2>1 DEF CallOf
    <3> QED BY <2>1, <3>1 DEF Immediate
  <2>3. intent.kind # "is_cached"
    <3> SUFFICES ASSUME intent.kind = "is_cached" PROVE FALSE
      OBVIOUS
    <3>1. call[1] = "IsCached"
      BY <2>1 DEF CallOf
    <3> QED BY <2>1, <3>1 DEF Immediate
  <2> QED BY <1>3, <2>2, <2>3, KindKnown
<1>6. Request(received[i]) = RequestOf(door, intent)
  BY <1>3, <1>4, <1>5, Carried DEF IInv
<1>7. Request(received[i])[2] = Target(door, made[i])
  BY <1>4, <1>6 DEF RequestOf
<1> QED BY <1>1, <1>3, <1>4, <1>5, <1>6, <1>7

LEMMA NamesGivenBack == IInv /\ EnteredInv => (~cut => HandlersSeeTheName)
<1> SUFFICES ASSUME IInv, EnteredInv, ~cut, NamedOnce(door.parts), NEW i \in entered,
                    NEW b \in Match(door.parts, Request(received[i])[2])
             PROVE  /\ Expand(door.parts, b) = {Request(received[i])[2]}
                    /\ \A k \in DOMAIN door.parts :
                         LET value == made[i].bindings[door.parts[k].text] IN
                         door.parts[k].isVar =>
                           \/ b[door.parts[k].text] = value
                           \/ \E j \in DOMAIN door.parts :
                                /\ j <= k /\ j < Len(door.parts) /\ door.parts[j].isVar
                                /\ Occurrences(door.parts[j + 1].text,
                                     made[i].bindings[door.parts[j].text] \o door.parts[j + 1].text, 1)
                                   # {Len(made[i].bindings[door.parts[j].text]) + 1}
  BY DEF HandlersSeeTheName
<1>1. PICK parts, a, name : /\ parts = door.parts /\ a = made[i].bindings
                            /\ name = Request(received[i])[2]
  OBVIOUS
<1>2. /\ made[i] \in IntentsOf(door) /\ door \in Doors /\ name = Target(door, made[i])
  BY <1>1, EnteredName
<1>3. /\ parts \in PartsOver(0 .. 127) /\ Expand(parts, a) # {}
      /\ \A n \in Variables(parts) : a[n] \in Seq(0 .. 127)
  BY <1>1, <1>2, DoorsAssumption DEF PartsOver, Text
<1>4. name \in Expand(parts, a)
  BY <1>1, <1>2, <1>3 DEF Target
<1>5. b \in Match(parts, name) /\ NamedOnce(parts)
  BY <1>1
<1>6. name \in Seq(0 .. 127)
  <2>1. Filled(parts, a) \in Seq(Seq(0 .. 127)) /\ name = FlattenSeq(Filled(parts, a))
    BY <1>3, <1>4, FilledTyped DEF Expand, Filled
  <2> QED BY <2>1, PartsLie
<1>7. Expand(parts, b) = {name}
  BY <1>3, <1>5, <1>6, GivenBack
<1>8. ASSUME NEW k \in DOMAIN parts, parts[k].isVar, EndsAsFilled(parts, a, k)
      PROVE  b[parts[k].text] = a[parts[k].text]
  BY <1>3, <1>4, <1>5, <1>8, CapturedAsFilled
<1> QED BY <1>1, <1>7, <1>8 DEF EndsAsFilled

\* As long as no frame was written in part, a handler is bound to the name that
\* was asked for, whatever the template and the values it is filled in with.
THEOREM NamesKept == Spec => [](~cut => HandlersSeeTheName)
BY StreamsAgree, EnteredKept, NamesGivenBack, PTL

-----------------------------------------------------------------------------
(* The contract decides. *)

(* The texts an intent's arguments are carried as.                           *)
TextsOf(intent) == JoinRepeats(door.action, intent.pairs)

\* What the name and the arguments of a call were made from is a call of the
\* door's declaration.
LEMMA CallDeclared ==
  ASSUME Settled, NEW intent \in IntentsOf(door),
         NEW b \in Match(door.parts, Target(door, intent))
  PROVE  /\ Bound(door.action, b, Variables(door.parts)) /\ intent.pairs \in Pairs
         /\ Call(door.action, b, Variables(door.parts), NamesIn(intent.pairs), TextsOf(intent))
         /\ Arguments(door, intent) = AsInline(TextsOf(intent))
         /\ \A c \in Match(door.parts, Target(door, intent)) : c = b
<1>1. PICK parts, a, name, variables : /\ parts = door.parts /\ a = intent.bindings
                                       /\ name = Target(door, intent) /\ variables = Variables(parts)
  OBVIOUS
<1>2. /\ parts \in PartsOver(0 .. 127) /\ Expand(parts, a) # {}
      /\ \A n \in Variables(parts) : a[n] \in Seq(0 .. 127)
      /\ Declarable(door.action, variables) /\ intent.pairs \in Pairs
  BY <1>1, DoorsAssumption DEF PartsOver, Text, Pairs, Texts, Settled
<1>3. name \in Expand(parts, a)
  BY <1>1, <1>2 DEF Target
<1>4. name \in Seq(0 .. 127)
  <2>1. Filled(parts, a) \in Seq(Seq(0 .. 127)) /\ name = FlattenSeq(Filled(parts, a))
    BY <1>2, <1>3, FilledTyped DEF Expand, Filled
  <2> QED BY <2>1, PartsLie
<1>5. /\ \A c \in Match(parts, name) : c = b
      /\ DOMAIN b = variables /\ \A n \in variables : b[n] \in Texts
  BY <1>1, <1>2, <1>4, MatchOnce DEF Texts
<1>6. Bound(door.action, b, variables)
  BY <1>2, <1>5 DEF Bound
<1>7. TextsOf(intent) \in [NamesIn(intent.pairs) -> Texts]
  BY <1>2, OneValueEach DEF TextsOf
<1>8. Call(door.action, b, variables, NamesIn(intent.pairs), TextsOf(intent))
  BY <1>2, <1>6, <1>7, PairTyped, FewNames DEF Call
<1>9. Arguments(door, intent) = AsInline(TextsOf(intent))
  BY DEF Arguments, AsInline, TextsOf
<1> QED BY <1>1, <1>2, <1>5, <1>6, <1>8, <1>9

\* Whether a call is answered at once is whether something refuses it.
LEMMA AnsweredWhen ==
  ASSUME Settled, NEW intent \in IntentsOf(door), intent.kind \in {"issue", "traced"},
         NEW b \in Match(door.parts, Target(door, intent))
  PROVE  Immediate(door, CallOf(door, intent, Agreed)) = <<>>
         <=> Refusals(door.action, b, AsInline(TextsOf(intent))) = <<>>
<1>1. PICK call, request, bindings, refusals :
        /\ call = CallOf(door, intent, Agreed) /\ request = Request(call)
        /\ bindings = Match(door.parts, request[2])
        /\ refusals = Refusals(door.action, CHOOSE c \in bindings : TRUE, request[3])
  OBVIOUS
<1>2. request = RequestOf(door, intent) /\ call[1] \notin {"Entries", "IsCached"}
  BY <1>1, Carried
<1>3. request[2] = Target(door, intent) /\ request[3] = Arguments(door, intent)
  BY <1>2 DEF RequestOf
<1>4. bindings = Match(door.parts, Target(door, intent)) /\ bindings # {}
  BY <1>1, <1>3
<1>5. (CHOOSE c \in bindings : TRUE) = b /\ Arguments(door, intent) = AsInline(TextsOf(intent))
  BY <1>4, CallDeclared
<1>6. refusals = Refusals(door.action, b, AsInline(TextsOf(intent)))
  BY <1>1, <1>3, <1>5
<1>7. Immediate(door, call)
      = [i \in 1 .. (IF refusals = <<>> THEN 0 ELSE 1) |-> Failed(RefusedAs(refusals[i]))]
  BY <1>1, <1>2, <1>4 DEF Immediate
<1>8. CASE refusals = <<>>
  BY <1>1, <1>6, <1>7, <1>8
<1>9. CASE refusals # <<>>
  <2>1. 1 \in DOMAIN Immediate(door, call)
    BY <1>7, <1>9
  <2>2. DOMAIN <<>> = {}
    OBVIOUS
  <2> QED BY <1>1, <1>6, <1>9, <2>1, <2>2
<1> QED BY <1>8, <1>9

LEMMA ContractHeld == IInv /\ EnteredInv => (~cut => ContractDecides)
<1> SUFFICES ASSUME IInv, EnteredInv, ~cut PROVE ContractDecides
  OBVIOUS
<1>1. ASSUME NEW i \in entered, NEW bindings \in Match(door.parts, Request(received[i])[2])
      PROVE  Lawful(door.action, bindings, Request(received[i])[3])
  <2>1. PICK intent \in IntentsOf(door) :
          /\ intent = made[i] /\ intent.kind \in {"issue", "traced"}
          /\ received[i] = CallOf(door, intent, Agreed) /\ Immediate(door, received[i]) = <<>>
          /\ Request(received[i]) = RequestOf(door, intent)
          /\ Request(received[i])[2] = Target(door, intent)
    BY EnteredName
  <2>2. Settled /\ bindings \in Match(door.parts, Target(door, intent))
    BY <1>1, <2>1 DEF IInv
  <2>3. Refusals(door.action, bindings, AsInline(TextsOf(intent))) = <<>>
    BY <2>1, <2>2, AnsweredWhen
  <2>4. Call(door.action, bindings, Variables(door.parts), NamesIn(intent.pairs), TextsOf(intent))
        /\ Arguments(door, intent) = AsInline(TextsOf(intent))
    BY <2>2, CallDeclared
  <2>5. Lawful(door.action, bindings, AsInline(TextsOf(intent)))
    BY <2>3, <2>4, OnlyLawfulEnter
  <2>6. Request(received[i])[3] = Arguments(door, intent)
    BY <2>1 DEF RequestOf
  <2> QED BY <2>4, <2>5, <2>6
<1>2. ASSUME NEW i \in DOMAIN answered \ entered, made[i].kind \in {"issue", "traced"},
             NEW bindings \in Match(door.parts, Request(received[i])[2]),
             NEW proposed, proposed = FromName(door.action, bindings) \o made[i].pairs,
             Violations(door.action, proposed) = <<>>
      PROVE  \E arg \in ToSet(door.action.inputs) :
               \/ arg.binding /\ arg.class = "integer" /\ ~PlainInteger(bindings[arg.name])
               \/ /\ ~InPlay(door.action, JoinRepeats(door.action, proposed), arg)
                  /\ arg.required \/ door.action.derived
  <2>1. Heard
    <3>1. CASE Unheard
      BY <1>2, <3>1 DEF Unheard
    <3> QED BY <3>1 DEF IInv
  <2>2. PICK intent \in IntentsOf(door) :
          /\ intent = made[i] /\ intent.kind \in {"issue", "traced"}
          /\ received[i] = CallOf(door, intent, Agreed)
    BY <1>2, <2>1, ReceivedWasMade DEF IInv, Heard
  <2>3. Request(received[i])[2] = Target(door, intent)
    BY <2>2, Carried DEF IInv, RequestOf
  <2>4. Settled /\ bindings \in Match(door.parts, Target(door, intent))
    BY <1>2, <2>3 DEF IInv
  <2>5. Refusals(door.action, bindings, AsInline(TextsOf(intent))) # <<>>
    <3>1. Immediate(door, received[i]) # <<>>
      BY <1>2 DEF EnteredInv
    <3> QED BY <2>2, <2>4, <3>1, AnsweredWhen
  <2>6. Bound(door.action, bindings, Variables(door.parts)) /\ intent.pairs \in Pairs
    BY <2>4, CallDeclared
  <2>7. proposed = FromName(door.action, bindings) \o intent.pairs
    BY <1>2, <2>2
  <2> SUFFICES ASSUME \A arg \in ToSet(door.action.inputs) :
                        /\ arg.binding /\ arg.class = "integer" => PlainInteger(bindings[arg.name])
                        /\ arg.required \/ door.action.derived =>
                             InPlay(door.action, JoinRepeats(door.action, proposed), arg)
               PROVE  FALSE
    OBVIOUS
  <2>8. Refusals(door.action, bindings, AsInline(JoinRepeats(door.action, intent.pairs))) = <<>>
    BY <1>2, <2>6, <2>7, NoneKeptOut
  <2> QED BY <2>5, <2>8 DEF TextsOf
<1> QED BY <1>1, <1>2 DEF ContractDecides

\* As long as no frame was written in part, no handler runs on arguments its
\* contract rules out, and no call that conforms is kept from its handler but by
\* the two exemptions, whatever the contract, the name and the arguments.
THEOREM ContractKept == Spec => [](~cut => ContractDecides)
BY StreamsAgree, EnteredKept, ContractHeld, PTL

=============================================================================
