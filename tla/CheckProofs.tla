------------------------------ MODULE CheckProofs ------------------------------
(***************************************************************************)
(* Proofs about the pre-flight check: for every contract an Action may     *)
(* declare, and all names, bindings and arguments, what the server asks    *)
(* before a handler runs is what the contract asks.  The lemmas about      *)
(* sequences and numbers they rest on come first.                          *)
(***************************************************************************)
EXTENDS Check, FiniteSetTheorems, SequenceTheorems, WellFoundedInduction, TLAPS

-----------------------------------------------------------------------------
(* Numbers, and sequences put together from sequences. *)

\* A set of numbers that is not empty has a least one.
LEMMA Least ==
  ASSUME NEW T, T \subseteq Nat, T # {}
  PROVE  \E m \in T : \A n \in T : m <= n
<1>1. PICK R : R = {ss \in Nat \X Nat : ss[1] < ss[2]}
  OBVIOUS
<1>2. IsWellFoundedOn(R, Nat)
  <2>1. IsWellFoundedOn({ss \in Nat \X Nat : ss[1] < ss[2]}, Nat)
    BY NatLessThanWellFounded DEF OpToRel
  <2> QED BY <1>1, <2>1
<1>3. PICK m \in T : \A n \in T : ~ (<<n, m>> \in R)
  BY <1>2, WFMin
<1>4. ASSUME NEW n \in T PROVE m <= n
  <2>1. m \in Nat /\ n \in Nat /\ ~ (<<n, m>> \in R)
    BY <1>3
  <2>2. <<n, m>> \in R <=> n < m
    BY <1>1, <2>1
  <2> QED BY <2>1, <2>2
<1> QED BY <1>4

\* Induction up to a number, over a set.
LEMMA UpTo ==
  ASSUME NEW L \in Nat, NEW P, 0 \in P, \A n \in 0 .. (L - 1) : n \in P => n + 1 \in P
  PROVE  \A n \in 0 .. L : n \in P
<1> DEFINE T == {n \in 0 .. L : n \notin P}
<1> SUFFICES ASSUME T # {} PROVE FALSE
  OBVIOUS
<1>1. PICK m \in T : \A n \in T : m <= n
  <2>1. T \subseteq Nat
    OBVIOUS
  <2> HIDE DEF T
  <2> QED BY <2>1, Least
<1>2. m # 0 /\ m \in 0 .. L /\ m \notin P
  OBVIOUS
<1>3. m - 1 \in 0 .. (L - 1) /\ m - 1 \notin T /\ (m - 1) + 1 = m
  BY <1>1, <1>2
<1> QED BY <1>2, <1>3

\* What a sequence of sequences comes to, from left to right.
LEMMA Flattened ==
  ASSUME NEW S, NEW s \in Seq(Seq(S)), s # <<>>
  PROVE  \E f \in [1 .. Len(s) -> Seq(S)] :
           /\ f[1] = s[1]
           /\ \A i \in 1 .. (Len(s) - 1) : f[i + 1] = f[i] \o s[i + 1]
           /\ FlattenSeq(s) = f[Len(s)]
<1>1. PICK L \in Nat \ {0} : L = Len(s) /\ \A i \in 1 .. L : s[i] \in Seq(S)
  BY EmptySeq
<1> DEFINE P == {n \in Nat : \E f \in [1 .. (n + 1) -> Seq(S)] :
                   f = [i \in 1 .. (n + 1) |-> IF i = 1 THEN s[i] ELSE f[i - 1] \o s[i]]}
<1>2. 0 \in P
  <2>1. PICK f : f = [i \in 1 .. (0 + 1) |-> s[1]]
    OBVIOUS
  <2>2. f \in [1 .. (0 + 1) -> Seq(S)]
    BY <1>1, <2>1
  <2>3. f = [i \in 1 .. (0 + 1) |-> IF i = 1 THEN s[i] ELSE f[i - 1] \o s[i]]
    BY <2>1
  <2> QED BY <2>2, <2>3
<1>3. ASSUME NEW n \in 0 .. (L - 1 - 1), n \in P PROVE n + 1 \in P
  <2>1. PICK f \in [1 .. (n + 1) -> Seq(S)] :
               f = [i \in 1 .. (n + 1) |-> IF i = 1 THEN s[i] ELSE f[i - 1] \o s[i]]
    BY <1>3
  <2>2. PICK last \in Seq(S) : last = f[n + 1] \o s[n + 2]
    <3>1. f[n + 1] \in Seq(S) /\ s[n + 2] \in Seq(S)
      BY <1>1
    <3> QED BY <3>1, ConcatProperties
  <2>3. PICK g : g = [i \in 1 .. (n + 1 + 1) |-> IF i = n + 2 THEN last ELSE f[i]]
    OBVIOUS
  <2>4. g \in [1 .. (n + 1 + 1) -> Seq(S)]
    BY <2>3
  <2>5. ASSUME NEW i \in 1 .. (n + 1 + 1)
        PROVE  g[i] = IF i = 1 THEN s[i] ELSE g[i - 1] \o s[i]
    <3>1. CASE i = n + 2
      <4>1. i # 1 /\ i - 1 = n + 1 /\ g[i] = last /\ g[i - 1] = f[n + 1]
        BY <3>1, <2>3
      <4> QED BY <3>1, <4>1, <2>2
    <3>2. CASE i # n + 2
      <4>1. i \in 1 .. (n + 1) /\ g[i] = f[i] /\ (i # 1 => g[i - 1] = f[i - 1])
        BY <3>2, <2>3
      <4>2. f[i] = IF i = 1 THEN s[i] ELSE f[i - 1] \o s[i]
        BY <2>1, <4>1
      <4> QED BY <4>1, <4>2
    <3> QED BY <3>1, <3>2
  <2>6. g = [i \in 1 .. (n + 1 + 1) |-> IF i = 1 THEN s[i] ELSE g[i - 1] \o s[i]]
    BY <2>3, <2>5
  <2>7. n + 1 \in Nat
    OBVIOUS
  <2> QED BY <2>4, <2>6, <2>7
<1>4. PICK k \in P : k + 1 = L
  <2>1. L - 1 \in Nat /\ (L - 1) + 1 = L /\ L - 1 \in 0 .. (L - 1)
    OBVIOUS
  <2> HIDE DEF P
  <2>2. \A n \in 0 .. (L - 1) : n \in P
    BY <2>1, <1>2, <1>3, UpTo
  <2> QED BY <2>1, <2>2
<1>5. PICK f \in [1 .. L -> Seq(S)] :
             f = [i \in 1 .. L |-> IF i = 1 THEN s[i] ELSE f[i - 1] \o s[i]]
  BY <1>1, <1>4
<1> DEFINE g == CHOOSE h : h = [i \in 1 .. Len(s) |-> IF i = 1 THEN s[i] ELSE h[i - 1] \o s[i]]
<1>6. g = [i \in 1 .. L |-> IF i = 1 THEN s[i] ELSE g[i - 1] \o s[i]]
  BY <1>1, <1>5
<1>7. FlattenSeq(s) = g[L]
  BY <1>1 DEF FlattenSeq
<1> HIDE DEF g
<1>8. ASSUME NEW i \in 1 .. L PROVE g[i] = IF i = 1 THEN s[i] ELSE g[i - 1] \o s[i]
  BY <1>6
<1> DEFINE Q == {n \in Nat : \A i \in 1 .. n : g[i] \in Seq(S)}
<1>9. L \in Q
  <2>1. 0 \in Q
    OBVIOUS
  <2>2. ASSUME NEW n \in 0 .. (L - 1), n \in Q PROVE n + 1 \in Q
    <3>1. g[n + 1] = IF n + 1 = 1 THEN s[n + 1] ELSE g[n] \o s[n + 1]
      <4>1. n + 1 \in 1 .. L /\ (n + 1) - 1 = n
        OBVIOUS
      <4> QED BY <4>1, <1>8
    <3>0. n + 1 \in 1 .. L
      OBVIOUS
    <3>2. s[n + 1] \in Seq(S) /\ (n # 0 => g[n] \in Seq(S))
      BY <1>1, <2>2, <3>0
    <3>3. n # 0 => g[n] \o s[n + 1] \in Seq(S)
      BY <3>2, ConcatProperties
    <3>4. g[n + 1] \in Seq(S)
      BY <3>1, <3>2, <3>3
    <3>5. \A i \in 1 .. (n + 1) : i \in 1 .. n \/ i = n + 1
      OBVIOUS
    <3>6. n + 1 \in Nat /\ \A i \in 1 .. (n + 1) : g[i] \in Seq(S)
      BY <3>4, <3>5, <2>2
    <3> QED BY <3>6
  <2> HIDE DEF Q
  <2>3. L \in 0 .. L
    OBVIOUS
  <2>4. \A n \in 0 .. L : n \in Q
    BY <2>1, <2>2, UpTo
  <2> QED BY <2>3, <2>4
<1>10. g \in [1 .. L -> Seq(S)]
  BY <1>6, <1>9
<1>11. ASSUME NEW i \in 1 .. (L - 1) PROVE g[i + 1] = g[i] \o s[i + 1]
  <2>1. i + 1 \in 1 .. L /\ i + 1 # 1 /\ (i + 1) - 1 = i
    OBVIOUS
  <2> QED BY <1>8, <2>1
<1>12. g[1] = s[1]
  BY <1>8
<1> QED BY <1>1, <1>7, <1>10, <1>11, <1>12

LEMMA LeastIsMin ==
  ASSUME NEW T, T \subseteq Nat, T # {}
  PROVE  Min(T) \in T /\ \A n \in T : Min(T) <= n
BY Least DEF Min

\* What is where in two sequences put together.
LEMMA Joined ==
  ASSUME NEW S, NEW s \in Seq(S), NEW t \in Seq(S)
  PROVE  /\ s \o t \in Seq(S) /\ Len(s \o t) = Len(s) + Len(t)
         /\ \A i \in 1 .. Len(s) : (s \o t)[i] = s[i]
         /\ \A i \in 1 .. Len(t) : (s \o t)[Len(s) + i] = t[i]
<1>1. /\ s \o t \in Seq(S) /\ Len(s \o t) = Len(s) + Len(t)
      /\ \A i \in 1 .. Len(s) + Len(t) : (s \o t)[i] = IF i <= Len(s) THEN s[i] ELSE t[i - Len(s)]
  BY ConcatProperties
<1>2. \A i \in 1 .. Len(s) : (s \o t)[i] = s[i]
  BY <1>1
<1>3. ASSUME NEW i \in 1 .. Len(t) PROVE (s \o t)[Len(s) + i] = t[i]
  <2>1. Len(s) + i \in 1 .. Len(s) + Len(t) /\ ~(Len(s) + i <= Len(s)) /\ Len(s) + i - Len(s) = i
    OBVIOUS
  <2> QED BY <1>1, <2>1
<1> QED BY <1>1, <1>2, <1>3

(* u is s and then t. *)
Follow(s, t, u) ==
  /\ Len(u) = Len(s) + Len(t)
  /\ \A i \in 1 .. Len(s) : u[i] = s[i]
  /\ \A i \in 1 .. Len(t) : u[Len(s) + i] = t[i]

LEMMA JoinedTo ==
  ASSUME NEW S, NEW s \in Seq(S), NEW t \in Seq(S), NEW u, u = s \o t
  PROVE  u \in Seq(S) /\ Follow(s, t, u)
BY Joined DEF Follow

LEMMA NothingFlattened == FlattenSeq(<<>>) = <<>>
BY DEF FlattenSeq

\* What is in two sequences put together.
LEMMA InEither ==
  ASSUME NEW S, NEW s \in Seq(S), NEW t \in Seq(S)
  PROVE  ToSet(s \o t) = ToSet(s) \cup ToSet(t)
<1>1. PICK m \in Nat, n \in Nat : m = Len(s) /\ n = Len(t)
  BY LenProperties
<1>2. /\ DOMAIN s = 1 .. m /\ DOMAIN t = 1 .. n /\ DOMAIN (s \o t) = 1 .. (m + n)
      /\ \A i \in 1 .. m : (s \o t)[i] = s[i]
      /\ \A i \in 1 .. n : (s \o t)[m + i] = t[i]
  BY <1>1, Joined, LenProperties
<1>3. ASSUME NEW i \in 1 .. (m + n) PROVE (s \o t)[i] \in ToSet(s) \cup ToSet(t)
  <2>1. CASE i <= m
    <3>1. i \in 1 .. m /\ (s \o t)[i] = s[i]
      BY <1>2, <2>1
    <3> QED BY <1>2, <3>1 DEF ToSet
  <2>2. CASE ~(i <= m)
    <3>1. i - m \in 1 .. n /\ m + (i - m) = i
      BY <2>2
    <3>2. (s \o t)[i] = t[i - m]
      BY <1>2, <3>1
    <3> QED BY <1>2, <3>1, <3>2 DEF ToSet
  <2> QED BY <2>1, <2>2
<1>4. ASSUME NEW i \in 1 .. m PROVE s[i] \in ToSet(s \o t)
  <2>1. i \in 1 .. (m + n) /\ (s \o t)[i] = s[i]
    BY <1>2
  <2> QED BY <1>2, <2>1 DEF ToSet
<1>5. ASSUME NEW i \in 1 .. n PROVE t[i] \in ToSet(s \o t)
  <2>1. m + i \in 1 .. (m + n) /\ (s \o t)[m + i] = t[i]
    BY <1>2
  <2> QED BY <1>2, <2>1 DEF ToSet
<1> QED BY <1>2, <1>3, <1>4, <1>5 DEF ToSet

\* A sequence with nothing in it is the empty one.
LEMMA NothingIn ==
  ASSUME NEW S, NEW s \in Seq(S)
  PROVE  ToSet(s) = {} <=> s = <<>>
<1>1. DOMAIN s = 1 .. Len(s) /\ Len(s) \in Nat
  BY LenProperties
<1>2. s # <<>> => 1 \in DOMAIN s
  BY <1>1, EmptySeq
<1>3. DOMAIN <<>> = {}
  OBVIOUS
<1> QED BY <1>2, <1>3 DEF ToSet

\* What is in a sequence is of its type.
LEMMA InTyped ==
  ASSUME NEW S, NEW s \in Seq(S)
  PROVE  /\ ToSet(s) \subseteq S
         /\ \A i \in DOMAIN s : s[i] \in S /\ s[i] \in ToSet(s)
BY LenProperties, ElementOfSeq DEF ToSet

\* A comprehension over a sequence's places is a sequence.
LEMMA Mapped ==
  ASSUME NEW S, NEW T, NEW s \in Seq(S), NEW f, DOMAIN f = DOMAIN s,
         \A i \in DOMAIN s : f[i] \in T, f = [i \in DOMAIN s |-> f[i]]
  PROVE  f \in Seq(T) /\ Len(f) = Len(s)
<1>1. PICK n \in Nat : n = Len(s) /\ DOMAIN s = 1 .. n
  BY LenProperties
<1>2. f \in [1 .. n -> T]
  BY <1>1
<1>3. f \in Seq(T)
  BY <1>2, SeqDef
<1>4. DOMAIN f = 1 .. Len(f) /\ Len(f) \in Nat
  BY <1>3, LenProperties
<1> QED BY <1>1, <1>3, <1>4

\* What is in sequences put together, and what they come to when all are empty,
\* or all but one.
LEMMA FlatIn ==
  ASSUME NEW S, NEW s \in Seq(Seq(S))
  PROVE  /\ FlattenSeq(s) \in Seq(S)
         /\ ToSet(FlattenSeq(s)) = UNION {ToSet(s[i]) : i \in DOMAIN s}
<1>1. CASE s = <<>>
  <2>1. FlattenSeq(s) = <<>> /\ DOMAIN s = {}
    BY <1>1, NothingFlattened
  <2> QED BY <2>1, EmptySeq, NothingIn
<1>2. CASE s # <<>>
  <2>1. PICK L \in Nat \ {0} : L = Len(s) /\ DOMAIN s = 1 .. L /\ \A i \in 1 .. L : s[i] \in Seq(S)
    BY <1>2, EmptySeq, LenProperties, ElementOfSeq
  <2>2. PICK f \in [1 .. L -> Seq(S)] :
               /\ f[1] = s[1]
               /\ \A i \in 1 .. (L - 1) : f[i + 1] = f[i] \o s[i + 1]
               /\ FlattenSeq(s) = f[L]
    BY <1>2, <2>1, Flattened
  <2> DEFINE P == {n \in Nat : n + 1 \in 1 .. L => ToSet(f[n + 1]) = UNION {ToSet(s[i]) : i \in 1 .. (n + 1)}}
  <2>3. 0 \in P
    <3>1. 0 \in Nat /\ 0 + 1 = 1 /\ 1 .. 1 = {1}
      OBVIOUS
    <3> QED BY <2>2, <3>1
  <2>4. ASSUME NEW n \in 0 .. (L - 1 - 1), n \in P PROVE n + 1 \in P
    <3>1. /\ n + 1 \in 1 .. (L - 1) /\ n + 1 \in 1 .. L /\ n + 1 \in Nat /\ n + 1 + 1 \in 1 .. L
          /\ 1 .. (n + 1 + 1) = (1 .. (n + 1)) \cup {n + 1 + 1}
      BY <2>1
    <3>2. f[n + 1 + 1] = f[n + 1] \o s[n + 1 + 1] /\ f[n + 1] \in Seq(S) /\ s[n + 1 + 1] \in Seq(S)
      BY <2>1, <2>2, <3>1
    <3>3. ToSet(f[n + 1 + 1]) = ToSet(f[n + 1]) \cup ToSet(s[n + 1 + 1])
      BY <3>2, InEither
    <3>4. ToSet(f[n + 1]) = UNION {ToSet(s[i]) : i \in 1 .. (n + 1)}
      BY <2>4, <3>1
    <3>5. ToSet(f[n + 1 + 1]) = UNION {ToSet(s[i]) : i \in 1 .. (n + 1 + 1)}
      BY <3>1, <3>3, <3>4
    <3> QED BY <3>1, <3>5
  <2>5. L - 1 \in Nat /\ L - 1 \in 0 .. (L - 1) /\ L - 1 + 1 = L
    BY <2>1
  <2>6. L - 1 \in P
    <3> HIDE DEF P
    <3> QED BY <2>3, <2>4, <2>5, UpTo
  <2>7. L \in 1 .. L
    BY <2>1
  <2> QED BY <2>1, <2>2, <2>5, <2>6, <2>7
<1> QED BY <1>1, <1>2

LEMMA FlatEmpty ==
  ASSUME NEW S, NEW s \in Seq(Seq(S))
  PROVE  FlattenSeq(s) = <<>> <=> \A i \in DOMAIN s : s[i] = <<>>
<1>1. /\ FlattenSeq(s) \in Seq(S)
      /\ ToSet(FlattenSeq(s)) = UNION {ToSet(s[i]) : i \in DOMAIN s}
  BY FlatIn
<1>2. FlattenSeq(s) = <<>> <=> ToSet(FlattenSeq(s)) = {}
  BY <1>1, NothingIn
<1>3. \A i \in DOMAIN s : s[i] = <<>> <=> ToSet(s[i]) = {}
  BY InTyped, NothingIn
<1>4. UNION {ToSet(s[i]) : i \in DOMAIN s} = {} <=> \A i \in DOMAIN s : ToSet(s[i]) = {}
  OBVIOUS
<1> QED BY <1>1, <1>2, <1>3, <1>4

LEMMA FlatOne ==
  ASSUME NEW S, NEW s \in Seq(Seq(S)), NEW one \in DOMAIN s,
         \A i \in DOMAIN s : i # one => s[i] = <<>>
  PROVE  FlattenSeq(s) = s[one]
<1>1. PICK L \in Nat \ {0} : L = Len(s) /\ DOMAIN s = 1 .. L /\ \A i \in 1 .. L : s[i] \in Seq(S)
  BY EmptySeq, LenProperties, ElementOfSeq
<1>0. s # <<>>
  BY <1>1
<1>2. PICK f \in [1 .. L -> Seq(S)] :
             /\ f[1] = s[1]
             /\ \A i \in 1 .. (L - 1) : f[i + 1] = f[i] \o s[i + 1]
             /\ FlattenSeq(s) = f[L]
  BY <1>0, <1>1, Flattened
<1> DEFINE P == {n \in Nat : n + 1 \in 1 .. L => f[n + 1] = IF n + 1 < one THEN <<>> ELSE s[one]}
<1>3. 0 \in P
  <2>1. 0 \in Nat /\ 0 + 1 = 1 /\ one \in 1 .. L /\ (1 < one <=> one # 1)
    BY <1>1
  <2> QED BY <1>1, <1>2, <2>1
<1>4. ASSUME NEW n \in 0 .. (L - 1 - 1), n \in P PROVE n + 1 \in P
  <2>1. /\ n + 1 \in 1 .. (L - 1) /\ n + 1 \in 1 .. L /\ n + 1 \in Nat /\ n + 1 + 1 \in 1 .. L
        /\ one \in 1 .. L
    BY <1>1
  <2>2. f[n + 1 + 1] = f[n + 1] \o s[n + 1 + 1] /\ f[n + 1] \in Seq(S) /\ s[n + 1 + 1] \in Seq(S)
    BY <1>1, <1>2, <2>1
  <2>3. f[n + 1] = IF n + 1 < one THEN <<>> ELSE s[one]
    BY <1>4, <2>1
  <2>4. s[n + 1 + 1] = IF n + 1 + 1 = one THEN s[one] ELSE <<>>
    BY <1>1, <2>1
  <2>5. n + 1 < one <=> (n + 1 + 1 < one \/ n + 1 + 1 = one)
    BY <2>1
  <2>6. s[one] \o <<>> = s[one] /\ <<>> \o s[one] = s[one] /\ <<>> \o <<>> = <<>>
    <3>1. s[one] \in Seq(S) /\ <<>> \in Seq(S)
      BY <1>1, EmptySeq
    <3> QED BY <3>1, ConcatEmptySeq
  <2>7. f[n + 1 + 1] = IF n + 1 + 1 < one THEN <<>> ELSE s[one]
    <3>1. CASE n + 1 + 1 < one
      <4>1. n + 1 < one /\ n + 1 + 1 # one
        BY <2>1, <3>1
      <4> QED BY <2>2, <2>3, <2>4, <2>6, <3>1, <4>1
    <3>2. CASE n + 1 + 1 = one
      <4>1. n + 1 < one /\ ~(n + 1 + 1 < one)
        BY <2>1, <3>2
      <4> QED BY <2>2, <2>3, <2>4, <2>6, <3>2, <4>1
    <3>3. CASE ~(n + 1 + 1 < one) /\ n + 1 + 1 # one
      <4>1. ~(n + 1 < one)
        BY <2>5, <3>3
      <4> QED BY <2>2, <2>3, <2>4, <2>6, <3>3, <4>1
    <3> QED BY <3>1, <3>2, <3>3
  <2> QED BY <2>1, <2>7
<1>5. L - 1 \in Nat /\ L - 1 \in 0 .. (L - 1) /\ L - 1 + 1 = L /\ L \in 1 .. L
  BY <1>1
<1>6. L - 1 \in P
  <2> HIDE DEF P
  <2> QED BY <1>3, <1>4, <1>5, UpTo
<1>7. ~(L < one)
  BY <1>1
<1> QED BY <1>2, <1>5, <1>6, <1>7

(* What the first parts of a sequence come to, up to the n-th. *)
Builds(s, f, n) ==
  /\ f[1] = s[1]
  /\ \A i \in 1 .. (n - 1) : f[i + 1] = f[i] \o s[i + 1]
  /\ FlattenSeq(s) = f[n]

LEMMA Built ==
  ASSUME NEW S
  PROVE  \A s \in Seq(Seq(S)), n \in Nat \ {0} :
           Len(s) = n => \E f \in [1 .. n -> Seq(S)] : Builds(s, f, n)
<1> SUFFICES ASSUME NEW s \in Seq(Seq(S)), NEW n \in Nat \ {0}, Len(s) = n
             PROVE  \E f \in [1 .. n -> Seq(S)] : Builds(s, f, n)
  OBVIOUS
<1>1. s # <<>>
  BY EmptySeq
<1>2. \E f \in [1 .. n -> Seq(S)] :
        /\ f[1] = s[1]
        /\ \A i \in 1 .. (n - 1) : f[i + 1] = f[i] \o s[i + 1]
        /\ FlattenSeq(s) = f[n]
  BY <1>1, Flattened
<1> QED BY <1>2 DEF Builds

Sequences(f, n, S) == \A i \in 1 .. n : f[i] \in Seq(S)

(* What two come to, the second after the first. *)
BuildsOn(s, m, t, n, h) ==
  /\ h[1] = s[1]
  /\ \A i \in 1 .. (m - 1) : h[i + 1] = h[i] \o s[i + 1]
  /\ \A i \in 1 .. n : h[m + i] = h[m + i - 1] \o t[i]

EndsWith(h, m, n, f, g) == h[m + n] = f[m] \o g[n]

LEMMA OneThenOther ==
  ASSUME NEW S, NEW m \in Nat \ {0}, NEW n \in Nat \ {0}, NEW s, NEW t, NEW f, NEW g, NEW h,
         Sequences(t, n, S), Sequences(f, m, S), Sequences(g, n, S),
         Builds(s, f, m), Builds(t, g, n), BuildsOn(s, m, t, n, h)
  PROVE  EndsWith(h, m, n, f, g)
<1>0. /\ h[1] = f[1] /\ g[1] = t[1]
      /\ \A i \in 1 .. (m - 1) : h[i + 1] = h[i] \o s[i + 1] /\ f[i + 1] = f[i] \o s[i + 1]
      /\ \A i \in 1 .. n : h[m + i] = h[m + i - 1] \o t[i]
      /\ \A i \in 1 .. (n - 1) : g[i + 1] = g[i] \o t[i + 1]
  BY DEF Builds, BuildsOn
<1> DEFINE P == {k \in Nat : k + 1 \in 1 .. m => h[k + 1] = f[k + 1]}
<1>1. 0 \in P
  BY <1>0
<1>2. ASSUME NEW k \in 0 .. (m - 1 - 1), k \in P PROVE k + 1 \in P
  <2>1. /\ k + 1 \in 1 .. (m - 1) /\ k + 1 \in 1 .. m /\ k + 1 \in Nat
    OBVIOUS
  <2>2. /\ h[k + 1 + 1] = h[k + 1] \o s[k + 1 + 1]
        /\ f[k + 1 + 1] = f[k + 1] \o s[k + 1 + 1] /\ h[k + 1] = f[k + 1]
    BY <1>0, <1>2, <2>1
  <2> QED BY <2>1, <2>2
<1>3. m - 1 \in P /\ m - 1 + 1 = m /\ m \in 1 .. m
  <2>1. m - 1 \in Nat /\ m - 1 \in 0 .. (m - 1) /\ m - 1 + 1 = m /\ m \in 1 .. m
    OBVIOUS
  <2> HIDE DEF P
  <2> QED BY <1>1, <1>2, <2>1, UpTo
<1>4. h[m] = f[m] /\ f[m] \in Seq(S)
  BY <1>3 DEF Sequences
<1> DEFINE Q == {k \in Nat : k + 1 \in 1 .. n => h[m + (k + 1)] = f[m] \o g[k + 1]}
<1>5. 0 \in Q
  <2>1. 0 \in Nat /\ 0 + 1 = 1 /\ 1 \in 1 .. n /\ m + 1 - 1 = m
    OBVIOUS
  <2>2. h[m + 1] = h[m] \o t[1]
    BY <1>0, <2>1
  <2> QED BY <1>0, <1>4, <2>1, <2>2
<1>6. ASSUME NEW k \in 0 .. (n - 1 - 1), k \in Q PROVE k + 1 \in Q
  <2>1. /\ k + 1 \in 1 .. (n - 1) /\ k + 1 \in 1 .. n /\ k + 1 \in Nat /\ k + 1 + 1 \in 1 .. n
        /\ m + (k + 1 + 1) - 1 = m + (k + 1)
    OBVIOUS
  <2>2. /\ h[m + (k + 1 + 1)] = h[m + (k + 1)] \o t[k + 1 + 1]
        /\ g[k + 1 + 1] = g[k + 1] \o t[k + 1 + 1]
        /\ h[m + (k + 1)] = f[m] \o g[k + 1]
    BY <1>0, <1>6, <2>1
  <2>3. (f[m] \o g[k + 1]) \o t[k + 1 + 1] = f[m] \o (g[k + 1] \o t[k + 1 + 1])
    <3>1. f[m] \in Seq(S) /\ g[k + 1] \in Seq(S) /\ t[k + 1 + 1] \in Seq(S)
      BY <1>4, <2>1 DEF Sequences
    <3>2. PICK x, y, z : x = f[m] /\ y = g[k + 1] /\ z = t[k + 1 + 1]
      OBVIOUS
    <3>3. x \in Seq(S) /\ y \in Seq(S) /\ z \in Seq(S)
      BY <3>1, <3>2
    <3>4. (x \o y) \o z = x \o (y \o z)
      BY ONLY <3>3, ConcatAssociative
    <3> QED BY <3>2, <3>4
  <2> QED BY <2>1, <2>2, <2>3
<1>7. n - 1 \in Q /\ n - 1 + 1 = n /\ n \in 1 .. n
  <2>1. n - 1 \in Nat /\ n - 1 \in 0 .. (n - 1) /\ n - 1 + 1 = n /\ n \in 1 .. n
    OBVIOUS
  <2> HIDE DEF Q
  <2> QED BY <1>5, <1>6, <2>1, UpTo
<1> QED BY <1>7 DEF EndsWith

\* What two sequences of sequences come to one after the other.
LEMMA FlatSplit ==
  ASSUME NEW S, NEW s \in Seq(Seq(S)), NEW t \in Seq(Seq(S))
  PROVE  FlattenSeq(s \o t) = FlattenSeq(s) \o FlattenSeq(t)
<1>0. FlattenSeq(s) \in Seq(S) /\ FlattenSeq(t) \in Seq(S)
  BY FlatIn
<1>1. CASE s = <<>>
  <2>1. FlattenSeq(s) = <<>> /\ s \o t = t
    BY <1>1, NothingFlattened, ConcatEmptySeq
  <2> QED BY <1>0, <2>1, ConcatEmptySeq
<1>2. CASE t = <<>>
  <2>1. FlattenSeq(t) = <<>> /\ s \o t = s
    BY <1>2, NothingFlattened, ConcatEmptySeq
  <2> QED BY <1>0, <2>1, ConcatEmptySeq
<1>3. CASE s # <<>> /\ t # <<>>
  <2>1. PICK m \in Nat \ {0}, n \in Nat \ {0} : m = Len(s) /\ n = Len(t)
    BY <1>3, EmptySeq
  <2>2. t \in [1 .. n -> Seq(S)]
    BY <2>1, LenProperties
  <2>3. PICK u, l : u = s \o t /\ l = m + n
    OBVIOUS
  <2>4. /\ u \in Seq(Seq(S)) /\ Len(u) = l /\ l = m + n /\ l \in Nat \ {0}
        /\ \A i \in 1 .. m : u[i] = s[i]
        /\ \A i \in 1 .. n : u[m + i] = t[i]
    <3>1. /\ s \o t \in Seq(Seq(S)) /\ Len(s \o t) = Len(s) + Len(t)
          /\ \A i \in 1 .. Len(s) : (s \o t)[i] = s[i]
          /\ \A i \in 1 .. Len(t) : (s \o t)[Len(s) + i] = t[i]
      BY Joined
    <3> QED BY <2>1, <2>3, <3>1
  <2>5. PICK f \in [1 .. m -> Seq(S)] : Builds(s, f, m)
    BY <2>1, Built
  <2>6. PICK g \in [1 .. n -> Seq(S)] : Builds(t, g, n)
    BY <2>1, Built
  <2>7. PICK h \in [1 .. l -> Seq(S)] : Builds(u, h, l)
    BY <2>4, Built
  <2>8. BuildsOn(s, m, t, n, h)
    <3>1. ASSUME NEW i \in 1 .. (m - 1) PROVE h[i + 1] = h[i] \o s[i + 1]
      <4>1. i \in 1 .. (l - 1) /\ i + 1 \in 1 .. m
        BY <2>4
      <4> QED BY <2>4, <2>7, <4>1 DEF Builds
    <3>2. ASSUME NEW i \in 1 .. n PROVE h[m + i] = h[m + i - 1] \o t[i]
      <4>1. m + i - 1 \in 1 .. (l - 1) /\ m + i - 1 + 1 = m + i
        BY <2>4
      <4>2. h[m + i - 1 + 1] = h[m + i - 1] \o u[m + i - 1 + 1] /\ u[m + i] = t[i]
        BY <2>4, <2>7, <4>1 DEF Builds
      <4> QED BY <4>1, <4>2
    <3>3. h[1] = s[1]
      <4>1. 1 \in 1 .. m
        OBVIOUS
      <4> QED BY <2>4, <2>7, <4>1 DEF Builds
    <3> QED BY <3>1, <3>2, <3>3 DEF BuildsOn
  <2>9. Sequences(t, n, S) /\ Sequences(f, m, S) /\ Sequences(g, n, S)
    BY <2>2, <2>5, <2>6 DEF Sequences
  <2>10. EndsWith(h, m, n, f, g)
    BY <2>5, <2>6, <2>8, <2>9, OneThenOther
  <2>11. h[m + n] = f[m] \o g[n]
    BY <2>10 DEF EndsWith
  <2> QED BY <2>3, <2>5, <2>6, <2>7, <2>11 DEF Builds
<1> QED BY <1>1, <1>2, <1>3

\* What is chosen from a sequence.
LEMMA ChosenIn ==
  ASSUME NEW S, NEW s \in Seq(S), NEW keep
  PROVE  /\ Chosen(s, keep) \in Seq(S)
         /\ ToSet(Chosen(s, keep)) = {s[i] : i \in DOMAIN s \cap keep}
<1>1. PICK p : p = [i \in DOMAIN s |-> IF i \in keep THEN <<s[i]>> ELSE <<>>]
  OBVIOUS
<1>2. \A i \in DOMAIN s : p[i] \in Seq(S)
  <2>1. \A i \in DOMAIN s : s[i] \in S
    BY InTyped
  <2> QED BY <1>1, <2>1, EmptySeq
<1>3. p \in Seq(Seq(S)) /\ DOMAIN p = DOMAIN s
  BY <1>1, <1>2, Mapped
<1>4. FlattenSeq(p) \in Seq(S) /\ ToSet(FlattenSeq(p)) = UNION {ToSet(p[i]) : i \in DOMAIN s}
  BY <1>3, FlatIn
<1>5. \A i \in DOMAIN s : ToSet(p[i]) = IF i \in keep THEN {s[i]} ELSE {}
  <2>1. \A x : ToSet(<<x>>) = {x}
    BY DEF ToSet
  <2>2. ToSet(<<>>) = {}
    BY DEF ToSet
  <2> QED BY <1>1, <2>1, <2>2
<1>6. UNION {ToSet(p[i]) : i \in DOMAIN s} = {s[i] : i \in DOMAIN s \cap keep}
  BY <1>5
<1> QED BY <1>1, <1>4, <1>6 DEF Chosen

\* A finite set's sequence has each of its elements at exactly one place.
LEMMA Listed ==
  ASSUME NEW S, IsFiniteSet(S)
  PROVE  /\ SetToSeq(S) \in Seq(S) /\ ToSet(SetToSeq(S)) = S
         /\ \A i, j \in DOMAIN SetToSeq(S) : SetToSeq(S)[i] = SetToSeq(S)[j] => i = j
<1>1. PICK n \in Nat : n = Cardinality(S) /\ ExistsBijection(1 .. n, S)
  BY FS_CardinalityType
<1>2. PICK b : b \in [1 .. n -> S] /\ IsInjective(b)
  BY <1>1 DEF ExistsBijection, Bijection, Injection
<1>3. PICK f : f = SetToSeq(S)
  OBVIOUS
<1>4. f \in [1 .. n -> S] /\ IsInjective(f)
  BY <1>1, <1>2, <1>3 DEF SetToSeq
<1>5. f \in Seq(S) /\ DOMAIN f = 1 .. n
  BY <1>4, SeqDef
<1>6. f \in Surjection(1 .. n, S)
  <2>1. IsFiniteSet(1 .. n) /\ Cardinality(1 .. n) = n
    BY FS_Interval, SMT
  <2>2. f \in Injection(1 .. n, S)
    BY <1>4 DEF Injection
  <2> QED BY <1>1, <2>1, <2>2, FS_Injection
<1>7. ToSet(f) = S
  BY <1>4, <1>5, <1>6 DEF ToSet, Surjection
<1> QED BY <1>3, <1>4, <1>5, <1>7 DEF IsInjective

-----------------------------------------------------------------------------
(* What a call's pairs come to. *)

Texts  == Seq(0 .. 127)
Pairs == Seq(Texts \X Texts)

LEMMA PairTyped ==
  ASSUME NEW pairs \in Pairs
  PROVE  /\ DOMAIN pairs = 1 .. Len(pairs) /\ Len(pairs) \in Nat
         /\ \A i \in DOMAIN pairs :
              /\ pairs[i] = <<pairs[i][1], pairs[i][2]>>
              /\ pairs[i][1] \in Texts /\ pairs[i][2] \in Texts /\ pairs[i][1] \in NamesIn(pairs)
         /\ NamesIn(pairs) \subseteq Texts
<1>1. DOMAIN pairs = 1 .. Len(pairs) /\ Len(pairs) \in Nat
  BY LenProperties DEF Pairs
<1>2. \A i \in DOMAIN pairs : pairs[i] \in Texts \X Texts
  BY InTyped DEF Pairs
<1>3. \A i \in DOMAIN pairs : /\ pairs[i] = <<pairs[i][1], pairs[i][2]>>
                              /\ pairs[i][1] \in Texts /\ pairs[i][2] \in Texts
  BY <1>2
<1> QED BY <1>1, <1>3 DEF NamesIn

(* The pieces ValuesOf puts together. *)
Valued(name, pairs) == [i \in DOMAIN pairs |-> IF pairs[i][1] = name THEN <<pairs[i][2]>> ELSE <<>>]

LEMMA ValuedTyped ==
  ASSUME NEW pairs \in Pairs, NEW name
  PROVE  /\ Valued(name, pairs) \in Seq(Seq(Texts)) /\ Len(Valued(name, pairs)) = Len(pairs)
         /\ DOMAIN Valued(name, pairs) = DOMAIN pairs
<1>1. PICK v : v = Valued(name, pairs)
  OBVIOUS
<1>2. DOMAIN v = DOMAIN pairs /\ v = [i \in DOMAIN pairs |-> v[i]]
  BY <1>1 DEF Valued
<1>3. \A i \in DOMAIN pairs : v[i] \in Seq(Texts)
  <2>1. \A x \in Texts : <<x>> \in Seq(Texts)
    OBVIOUS
  <2> QED BY <1>1, <2>1, PairTyped, EmptySeq DEF Valued
<1>4. v \in Seq(Seq(Texts)) /\ Len(v) = Len(pairs)
  BY <1>2, <1>3, Mapped DEF Pairs
<1> QED BY <1>1, <1>2, <1>4

\* The values of a name are those given for it, and there are none for a name
\* that was not given.
LEMMA ValuesIn ==
  ASSUME NEW pairs \in Pairs, NEW name
  PROVE  /\ ValuesOf(name, pairs) \in Seq(Texts)
         /\ ToSet(ValuesOf(name, pairs)) = {pairs[i][2] : i \in {i \in DOMAIN pairs : pairs[i][1] = name}}
         /\ ValuesOf(name, pairs) = <<>> <=> name \notin NamesIn(pairs)
<1>1. PICK v : v = Valued(name, pairs)
  OBVIOUS
<1>2. v \in Seq(Seq(Texts)) /\ DOMAIN v = DOMAIN pairs
  BY <1>1, ValuedTyped
<1>3. ValuesOf(name, pairs) = FlattenSeq(v)
  BY <1>1 DEF ValuesOf, Valued
<1>4. FlattenSeq(v) \in Seq(Texts) /\ ToSet(FlattenSeq(v)) = UNION {ToSet(v[i]) : i \in DOMAIN pairs}
  BY <1>2, FlatIn
<1>5. \A i \in DOMAIN pairs : ToSet(v[i]) = IF pairs[i][1] = name THEN {pairs[i][2]} ELSE {}
  <2>1. \A x : ToSet(<<x>>) = {x}
    BY DEF ToSet
  <2>2. ToSet(<<>>) = {}
    BY DEF ToSet
  <2> QED BY <1>1, <2>1, <2>2 DEF Valued
<1>6. UNION {ToSet(v[i]) : i \in DOMAIN pairs}
      = {pairs[i][2] : i \in {i \in DOMAIN pairs : pairs[i][1] = name}}
  <2>1. ASSUME NEW x
        PROVE  (\E i \in DOMAIN pairs : x \in ToSet(v[i]))
               <=> \E i \in DOMAIN pairs : pairs[i][1] = name /\ x = pairs[i][2]
    BY <1>5
  <2> QED BY <2>1
<1>7. FlattenSeq(v) = <<>> <=> \A i \in DOMAIN pairs : v[i] = <<>>
  BY <1>2, FlatEmpty
<1>8. \A i \in DOMAIN pairs : v[i] = <<>> <=> pairs[i][1] # name
  BY <1>1 DEF Valued
<1>9. name \notin NamesIn(pairs) <=> \A i \in DOMAIN pairs : pairs[i][1] # name
  BY DEF NamesIn
<1> QED BY <1>3, <1>4, <1>6, <1>7, <1>8, <1>9

LEMMA ValuesAfter ==
  ASSUME NEW p \in Pairs, NEW q \in Pairs, NEW name
  PROVE  /\ p \o q \in Pairs /\ NamesIn(p \o q) = NamesIn(p) \cup NamesIn(q)
         /\ name \in NamesIn(p) => Head(ValuesOf(name, p \o q)) = Head(ValuesOf(name, p))
         /\ name \notin NamesIn(p) => ValuesOf(name, p \o q) = ValuesOf(name, q)
<1>1. PICK m \in Nat, n \in Nat : m = Len(p) /\ n = Len(q) /\ DOMAIN p = 1 .. m /\ DOMAIN q = 1 .. n
  BY PairTyped
<1>2. PICK r : r = p \o q
  OBVIOUS
<1>3. /\ r \in Pairs /\ Len(r) = m + n
      /\ \A i \in 1 .. m : r[i] = p[i]
      /\ \A i \in 1 .. n : r[m + i] = q[i]
  BY <1>1, <1>2, Joined DEF Pairs
<1>4. NamesIn(r) = NamesIn(p) \cup NamesIn(q)
  <2>1. ToSet(r) = ToSet(p) \cup ToSet(q)
    BY <1>2, InEither DEF Pairs
  <2>2. \A s : NamesIn(s) = {x[1] : x \in ToSet(s)}
    BY DEF NamesIn, ToSet
  <2> QED BY <2>1, <2>2
<1>5. PICK v, w, u : v = Valued(name, p) /\ w = Valued(name, q) /\ u = Valued(name, r)
  OBVIOUS
<1>6. /\ v \in Seq(Seq(Texts)) /\ Len(v) = m /\ w \in Seq(Seq(Texts)) /\ Len(w) = n
      /\ u \in Seq(Seq(Texts)) /\ Len(u) = m + n
  BY <1>1, <1>3, <1>5, ValuedTyped
<1>7. u = v \o w
  <2>1. PICK x : x = v \o w
    OBVIOUS
  <2>2. /\ x \in Seq(Seq(Texts)) /\ Len(x) = m + n
        /\ \A i \in 1 .. m : x[i] = v[i]
        /\ \A i \in 1 .. n : x[m + i] = w[i]
    <3>1. x \in Seq(Seq(Texts)) /\ Follow(v, w, x)
      BY <1>6, <2>1, JoinedTo
    <3> QED BY <1>6, <3>1 DEF Follow
  <2>3. ASSUME NEW i \in 1 .. (m + n) PROVE u[i] = x[i]
    <3>0. i \in DOMAIN r
      BY <1>3, PairTyped
    <3>1. CASE i <= m
      <4>1. i \in 1 .. m /\ i \in DOMAIN p
        BY <1>1, <3>1
      <4> QED BY <1>3, <1>5, <2>2, <3>0, <4>1 DEF Valued
    <3>2. CASE ~(i <= m)
      <4>1. PICK j \in 1 .. n : j = i - m /\ i = m + j
        BY <3>2
      <4>2. j \in DOMAIN q /\ r[i] = q[j] /\ x[i] = w[j]
        BY <1>1, <1>3, <2>2, <4>1
      <4> QED BY <1>5, <3>0, <4>2 DEF Valued
    <3> QED BY <3>1, <3>2
  <2>4. u = x
    BY <1>6, <2>2, <2>3, SeqEqual
  <2> QED BY <2>1, <2>4
<1>8. PICK a, b, c : a = FlattenSeq(v) /\ b = FlattenSeq(w) /\ c = FlattenSeq(u)
  OBVIOUS
<1>9. c = a \o b
  BY <1>6, <1>7, <1>8, FlatSplit
<1>10. a = ValuesOf(name, p) /\ b = ValuesOf(name, q) /\ c = ValuesOf(name, r)
  BY <1>5, <1>8 DEF Valued, ValuesOf
<1>11. a \in Seq(Texts) /\ b \in Seq(Texts) /\ (a = <<>> <=> name \notin NamesIn(p))
  BY <1>10, ValuesIn
<1>12. a = <<>> => c = b
  BY <1>9, <1>11, ConcatEmptySeq
<1>13. a # <<>> => Head(c) = Head(a)
  <2> SUFFICES ASSUME a # <<>> PROVE Head(c) = Head(a)
    OBVIOUS
  <2>1. /\ a \o b \in Seq(Texts) /\ Len(a \o b) = Len(a) + Len(b)
        /\ \A i \in 1 .. Len(a) : (a \o b)[i] = a[i]
    BY <1>11, Joined
  <2>2. Len(a) \in Nat \ {0} /\ Len(b) \in Nat
    BY <1>11, EmptySeq, LenProperties
  <2>3. c[1] = a[1] /\ c \in Seq(Texts) /\ Len(c) # 0
    BY <1>9, <2>1, <2>2
  <2>4. \A s \in Seq(Texts) : Len(s) # 0 => Head(s) = s[1]
    OBVIOUS
  <2> QED BY <1>11, <2>2, <2>3, <2>4
<1> QED BY <1>2, <1>3, <1>4, <1>10, <1>11, <1>12, <1>13

\* A name given once has the one value.
LEMMA ValueOnce ==
  ASSUME NEW pairs \in Pairs, NEW one \in DOMAIN pairs,
         \A i \in DOMAIN pairs : pairs[i][1] = pairs[one][1] => i = one
  PROVE  ValuesOf(pairs[one][1], pairs) = <<pairs[one][2]>>
<1>1. PICK name, v : name = pairs[one][1] /\ v = Valued(name, pairs)
  OBVIOUS
<1>2. v \in Seq(Seq(Texts)) /\ DOMAIN v = DOMAIN pairs
  BY <1>1, ValuedTyped
<1>3. v[one] = <<pairs[one][2]>> /\ \A i \in DOMAIN pairs : i # one => v[i] = <<>>
  BY <1>1 DEF Valued
<1>4. FlattenSeq(v) = v[one]
  BY <1>2, <1>3, FlatOne
<1> QED BY <1>1, <1>3, <1>4 DEF ValuesOf, Valued

LEMMA SeparatorWords ==
  /\ DOMAIN Separators = {"comma", "whitespace", "commaOrWhitespace", "newline"}
  /\ \A word \in DOMAIN Separators : Canonical[word] \in Texts
<1>1. DOMAIN Separators = {"comma", "whitespace", "commaOrWhitespace", "newline"}
  BY DEF Separators
<1>2. <<Comma>> \in Texts /\ <<32>> \in Texts /\ <<10>> \in Texts
  BY DEF Texts, Comma
<1>3. /\ Canonical["comma"] = <<Comma>> /\ Canonical["whitespace"] = <<32>>
      /\ Canonical["commaOrWhitespace"] = <<Comma>> /\ Canonical["newline"] = <<10>>
  BY DEF Canonical
<1> QED BY <1>1, <1>2, <1>3

LEMMA JoinTyped ==
  ASSUME NEW values \in Seq(Texts), NEW joint \in Texts
  PROVE  Join(values, joint) \in Texts
<1>1. PICK s : s = [i \in DOMAIN values |-> IF i = 1 THEN values[i] ELSE joint \o values[i]]
  OBVIOUS
<1>2. DOMAIN s = DOMAIN values /\ s = [i \in DOMAIN values |-> s[i]]
  BY <1>1
<1>3. ASSUME NEW i \in DOMAIN values PROVE s[i] \in Seq(0 .. 127)
  <2>1. PICK x : x = values[i]
    OBVIOUS
  <2>2. x \in Seq(0 .. 127) /\ joint \in Seq(0 .. 127)
    BY <2>1, InTyped DEF Texts
  <2>3. joint \o x \in Seq(0 .. 127)
    BY <2>2, ConcatProperties
  <2> QED BY <1>1, <2>1, <2>2, <2>3
<1>4. s \in Seq(Seq(0 .. 127))
  BY <1>2, <1>3, Mapped
<1> QED BY <1>1, <1>4, FlatIn DEF Join, Texts

-----------------------------------------------------------------------------
(* What a declared contract is. *)

BoundNames(action) == {arg.name : arg \in {arg \in ToSet(action.inputs) : arg.binding}}

LEMMA Inputs ==
  ASSUME NEW action, NEW variables, Declarable(action, variables)
  PROVE  /\ DOMAIN action.inputs = 1 .. Len(action.inputs) /\ Len(action.inputs) \in Nat
         /\ \A i \in DOMAIN action.inputs : action.inputs[i] \in ToSet(action.inputs)
         /\ \A arg \in ToSet(action.inputs) :
              /\ \E i \in DOMAIN action.inputs : arg = action.inputs[i]
              /\ arg.name \in Texts /\ arg.name \in InputNames(action)
              /\ arg.required \in BOOLEAN /\ arg.binding \in BOOLEAN
              /\ arg.list \in {"none"} \cup DOMAIN Separators
              /\ arg.binding <=> arg.name \in variables
              /\ arg.binding <=> arg.name \in BoundNames(action)
              /\ arg.binding => arg.required
              /\ arg.binding \/ action.derived => arg.list = "none"
         /\ InputNames(action) \subseteq Texts
         /\ BoundNames(action) \subseteq variables \cap InputNames(action)
<1>1. action.inputs \in Seq(ToSet(action.inputs))
  BY DEF Declarable
<1>2. /\ DOMAIN action.inputs = 1 .. Len(action.inputs) /\ Len(action.inputs) \in Nat
      /\ \A i \in DOMAIN action.inputs : action.inputs[i] \in ToSet(action.inputs)
  BY <1>1, LenProperties, InTyped
<1>3. ASSUME NEW arg \in ToSet(action.inputs)
      PROVE  /\ \E i \in DOMAIN action.inputs : arg = action.inputs[i]
             /\ arg.name \in Texts /\ arg.name \in InputNames(action)
             /\ arg.required \in BOOLEAN /\ arg.binding \in BOOLEAN
             /\ arg.list \in {"none"} \cup DOMAIN Separators
             /\ arg.binding <=> arg.name \in variables
             /\ arg.binding => arg.required
             /\ arg.binding \/ action.derived => arg.list = "none"
  <2>1. PICK i \in DOMAIN action.inputs : arg = action.inputs[i]
    BY DEF ToSet
  <2>2. arg.name \in InputNames(action)
    BY <2>1 DEF InputNames
  <2> QED BY <2>1, <2>2 DEF Declarable, Texts
<1>4. ASSUME NEW arg \in ToSet(action.inputs) PROVE arg.binding <=> arg.name \in BoundNames(action)
  BY <1>3 DEF BoundNames
<1>5. InputNames(action) = {arg.name : arg \in ToSet(action.inputs)}
  BY DEF InputNames, ToSet
<1>6. BoundNames(action) \subseteq variables \cap InputNames(action)
  BY <1>3, <1>5 DEF BoundNames
<1>7. InputNames(action) \subseteq Texts
  BY <1>3, <1>5
<1> QED BY <1>2, <1>3, <1>4, <1>6, <1>7

LEMMA ListKnown ==
  ASSUME NEW action, NEW variables, Declarable(action, variables), NEW name
  PROVE  /\ ListOf(action, name) = "none" \/ ListOf(action, name) \in DOMAIN Separators
         /\ name \in BoundNames(action) => ListOf(action, name) = "none"
<1>1. PICK at : at = {i \in DOMAIN action.inputs : action.inputs[i].name = name}
  OBVIOUS
<1>2. ListOf(action, name) = IF at = {} THEN "none" ELSE action.inputs[Min(at)].list
  BY <1>1 DEF ListOf
<1>3. CASE at = {}
  BY <1>2, <1>3
<1>4. CASE at # {}
  <2>1. at \subseteq Nat
    BY <1>1, Inputs
  <2>2. Min(at) \in at
    BY <1>4, <2>1, LeastIsMin
  <2>3. PICK k \in DOMAIN action.inputs : k = Min(at) /\ action.inputs[k].name = name
    BY <1>1, <2>2
  <2>5. PICK arg \in ToSet(action.inputs) : arg = action.inputs[k]
    <3>1. \A i \in DOMAIN action.inputs : action.inputs[i] \in ToSet(action.inputs)
      BY Inputs
    <3> QED BY <3>1
  <2>4. /\ arg.list \in {"none"} \cup DOMAIN Separators
        /\ arg.name \in BoundNames(action) => arg.list = "none"
    BY Inputs
  <2> QED BY <1>2, <1>4, <2>3, <2>4, <2>5
<1> QED BY <1>3, <1>4

\* Of every name that was given there is one text.
LEMMA OneValueEach ==
  ASSUME NEW action, NEW variables, Declarable(action, variables), NEW pairs \in Pairs
  PROVE  /\ JoinRepeats(action, pairs) \in [NamesIn(pairs) -> Texts]
         /\ DOMAIN JoinRepeats(action, pairs) = NamesIn(pairs)
<1>1. ASSUME NEW n \in NamesIn(pairs)
      PROVE  JoinRepeats(action, pairs)[n] \in Texts
  <2>1. PICK values, list : values = ValuesOf(n, pairs) /\ list = ListOf(action, n)
    OBVIOUS
  <2>2. values \in Seq(Texts) /\ values # <<>>
    BY <2>1, ValuesIn
  <2>3. Head(values) \in Texts
    BY <2>2, HeadTailProperties
  <2>4. list # "none" => Join(values, Canonical[list]) \in Texts
    <3>1. list # "none" => Canonical[list] \in Texts
      BY <2>1, ListKnown, SeparatorWords
    <3> QED BY <2>2, <3>1, JoinTyped
  <2>5. JoinRepeats(action, pairs)[n]
        = IF Len(values) > 1 /\ list # "none" THEN Join(values, Canonical[list]) ELSE Head(values)
    BY <2>1 DEF JoinRepeats
  <2> QED BY <2>3, <2>4, <2>5
<1> QED BY <1>1 DEF JoinRepeats

\* ... and the same text when other names were given before it.
LEMMA ValueKept ==
  ASSUME NEW action, NEW p \in Pairs, NEW q \in Pairs, NEW n \in NamesIn(q) \ NamesIn(p)
  PROVE  JoinRepeats(action, p \o q)[n] = JoinRepeats(action, q)[n]
<1>1. n \in NamesIn(p \o q) /\ ValuesOf(n, p \o q) = ValuesOf(n, q)
  BY ValuesAfter
<1> QED BY <1>1 DEF JoinRepeats

(* What is said of a name: the name that was asked for before the call's     *)
(* arguments.                                                                *)
Effective(action, bindings, texts) ==
  [n \in BoundNames(action) \cup DOMAIN texts |->
     IF n \in BoundNames(action) THEN bindings[n] ELSE texts[n]]

Bound(action, bindings, variables) ==
  Declarable(action, variables) /\ \A n \in variables : bindings[n] \in Texts

LEMMA BoundPairs ==
  ASSUME NEW action, NEW variables, NEW bindings, Bound(action, bindings, variables)
  PROVE  /\ FromName(action, bindings) \in Pairs
         /\ NamesIn(FromName(action, bindings)) = BoundNames(action)
         /\ \A i \in DOMAIN FromName(action, bindings) :
              FromName(action, bindings)[i][2] = bindings[FromName(action, bindings)[i][1]]
<1>1. Declarable(action, variables) /\ \A n \in variables : bindings[n] \in Texts
  BY DEF Bound
<1>2. PICK keep, bound, p :
        /\ keep = {i \in DOMAIN action.inputs : action.inputs[i].binding}
        /\ bound = Chosen(action.inputs, keep)
        /\ p = [i \in DOMAIN bound |-> <<bound[i].name, bindings[bound[i].name]>>]
  OBVIOUS
<1>3. p = FromName(action, bindings)
  BY <1>2 DEF FromName
<1>4. bound \in Seq(ToSet(action.inputs))
      /\ ToSet(bound) = {action.inputs[i] : i \in DOMAIN action.inputs \cap keep}
  <2>1. action.inputs \in Seq(ToSet(action.inputs))
    BY <1>1 DEF Declarable
  <2> QED BY <1>2, <2>1, ChosenIn
<1>5. ToSet(bound) = {arg \in ToSet(action.inputs) : arg.binding}
  <2>1. \A arg : arg \in ToSet(bound) <=> \E i \in DOMAIN action.inputs : action.inputs[i].binding /\ arg = action.inputs[i]
    BY <1>2, <1>4
  <2>2. \A arg : arg \in ToSet(action.inputs) <=> \E i \in DOMAIN action.inputs : arg = action.inputs[i]
    BY DEF ToSet
  <2> QED BY <2>1, <2>2
<1>6. ASSUME NEW i \in DOMAIN bound
      PROVE  bound[i].name \in Texts /\ bindings[bound[i].name] \in Texts
  <2>1. bound[i] \in ToSet(bound)
    BY <1>4, InTyped
  <2>2. bound[i] \in ToSet(action.inputs) /\ bound[i].binding
    BY <1>5, <2>1
  <2>3. bound[i].name \in Texts /\ bound[i].name \in variables
    BY <1>1, <2>2, Inputs
  <2> QED BY <1>1, <2>3
<1>7. p \in Pairs
  <2>1. DOMAIN p = DOMAIN bound /\ p = [i \in DOMAIN bound |-> p[i]]
    BY <1>2
  <2>2. \A i \in DOMAIN bound : p[i] \in Texts \X Texts
    BY <1>2, <1>6
  <2> QED BY <1>4, <2>1, <2>2, Mapped DEF Pairs
<1>8. NamesIn(p) = {arg.name : arg \in ToSet(bound)}
  <2>1. DOMAIN p = DOMAIN bound /\ \A i \in DOMAIN bound : p[i][1] = bound[i].name
    BY <1>2
  <2> QED BY <2>1 DEF NamesIn, ToSet
<1>9. \A i \in DOMAIN p : p[i][2] = bindings[p[i][1]]
  BY <1>2
<1> QED BY <1>3, <1>5, <1>7, <1>8, <1>9 DEF BoundNames

LEMMA Effect ==
  ASSUME NEW action, NEW variables, NEW bindings, Bound(action, bindings, variables),
         NEW q \in Pairs
  PROVE  /\ FromName(action, bindings) \o q \in Pairs
         /\ NamesIn(FromName(action, bindings) \o q) = BoundNames(action) \cup NamesIn(q)
         /\ JoinRepeats(action, FromName(action, bindings) \o q)
            = Effective(action, bindings, JoinRepeats(action, q))
<1>1. PICK p, r : p = FromName(action, bindings) /\ r = p \o q
  OBVIOUS
<1>2. /\ p \in Pairs /\ NamesIn(p) = BoundNames(action)
      /\ \A i \in DOMAIN p : p[i][2] = bindings[p[i][1]]
  BY <1>1, BoundPairs
<1>3. r \in Pairs /\ NamesIn(r) = NamesIn(p) \cup NamesIn(q)
  BY <1>1, <1>2, ValuesAfter
<1>4. PICK e, f : e = JoinRepeats(action, r) /\ f = JoinRepeats(action, q)
  OBVIOUS
<1>5. DOMAIN e = NamesIn(r) /\ e = [n \in NamesIn(r) |-> e[n]] /\ DOMAIN f = NamesIn(q)
  BY <1>4 DEF JoinRepeats
<1>6. ASSUME NEW n \in BoundNames(action) PROVE e[n] = bindings[n]
  <2>1. PICK values, first : values = ValuesOf(n, r) /\ first = ValuesOf(n, p)
    OBVIOUS
  <2>2. e[n] = Head(values)
    <3>1. ListOf(action, n) = "none"
      BY ListKnown DEF Bound
    <3> QED BY <1>2, <1>3, <1>4, <2>1, <3>1 DEF JoinRepeats
  <2>3. Head(values) = Head(first)
    BY <1>1, <1>2, <2>1, ValuesAfter
  <2>4. /\ first \in Seq(Texts) /\ first # <<>>
        /\ ToSet(first) = {p[i][2] : i \in {i \in DOMAIN p : p[i][1] = n}}
    BY <1>2, <2>1, ValuesIn
  <2>5. Head(first) = first[1] /\ 1 \in DOMAIN first
    BY <2>4, EmptySeq, LenProperties
  <2>6. Head(first) \in ToSet(first)
    BY <2>5 DEF ToSet
  <2>7. PICK i \in DOMAIN p : p[i][1] = n /\ Head(first) = p[i][2]
    BY <2>4, <2>6
  <2> QED BY <1>2, <2>2, <2>3, <2>7
<1>7. ASSUME NEW n \in NamesIn(q) \ BoundNames(action) PROVE e[n] = f[n]
  BY <1>1, <1>2, <1>4, ValueKept
<1>8. e = Effective(action, bindings, f)
  <2>1. \A n \in NamesIn(r) : e[n] = IF n \in BoundNames(action) THEN bindings[n] ELSE f[n]
    BY <1>2, <1>3, <1>6, <1>7
  <2> QED BY <1>2, <1>3, <1>5, <2>1 DEF Effective
<1> QED BY <1>1, <1>2, <1>3, <1>4, <1>8

(* Arguments that came inline, as the texts they are. *)
AsInline(texts) == [n \in DOMAIN texts |-> <<"Inline", texts[n]>>]

LEMMA InlinePairs ==
  ASSUME NEW names, names \subseteq Texts, IsFiniteSet(names), NEW texts \in [names -> Texts],
         NEW action, NEW bindings
  PROVE  \E q \in Pairs : /\ Proposed(action, bindings, AsInline(texts)) = FromName(action, bindings) \o q
                          /\ NamesIn(q) = names
                          /\ JoinRepeats(action, q) = texts
<1>1. PICK args, s, q : /\ args = AsInline(texts)
                        /\ s = SetToSeq({n \in DOMAIN args : args[n][1] = "Inline"})
                        /\ q = [i \in DOMAIN s |-> <<s[i], args[s[i]][2]>>]
  OBVIOUS
<1>2. {n \in DOMAIN args : args[n][1] = "Inline"} = names /\ \A n \in names : args[n][2] = texts[n]
  BY <1>1 DEF AsInline
<1>3. s \in Seq(names) /\ ToSet(s) = names /\ \A i, j \in DOMAIN s : s[i] = s[j] => i = j
  BY <1>1, <1>2, Listed
<1>4. Proposed(action, bindings, AsInline(texts)) = FromName(action, bindings) \o q
  BY <1>1 DEF Proposed
<1>5. ASSUME NEW i \in DOMAIN s PROVE s[i] \in names /\ q[i] = <<s[i], texts[s[i]]>>
  <2>1. s[i] \in names
    BY <1>3, InTyped
  <2> QED BY <1>1, <1>2, <2>1
<1>6. q \in Pairs /\ DOMAIN q = DOMAIN s
  <2>1. DOMAIN q = DOMAIN s /\ q = [i \in DOMAIN s |-> q[i]]
    BY <1>1
  <2>2. \A i \in DOMAIN s : q[i] \in Texts \X Texts
    <3>1. \A n \in names : n \in Texts /\ texts[n] \in Texts
      OBVIOUS
    <3> QED BY <1>5, <3>1
  <2> QED BY <1>3, <2>1, <2>2, Mapped DEF Pairs
<1>7. NamesIn(q) = names
  <2>1. \A i \in DOMAIN s : q[i][1] = s[i]
    BY <1>5
  <2> QED BY <1>3, <1>6, <2>1 DEF NamesIn, ToSet
<1>8. ASSUME NEW n \in names PROVE JoinRepeats(action, q)[n] = texts[n]
  <2>1. PICK i \in DOMAIN q : s[i] = n /\ q[i][1] = n /\ q[i][2] = texts[n]
    BY <1>3, <1>5, <1>6 DEF ToSet
  <2>2. \A j \in DOMAIN q : q[j][1] = q[i][1] => j = i
    BY <1>3, <1>5, <1>6, <2>1
  <2>3. ValuesOf(n, q) = <<texts[n]>>
    BY <1>6, <2>1, <2>2, ValueOnce
  <2>4. PICK text, values : text = texts[n] /\ values = <<text>>
    OBVIOUS
  <2>5. ~(Len(values) > 1) /\ Head(values) = text
    BY <2>4
  <2> QED BY <1>7, <2>3, <2>4, <2>5 DEF JoinRepeats
<1>9. JoinRepeats(action, q) = texts
  <2>1. PICK e : e = JoinRepeats(action, q)
    OBVIOUS
  <2>2. e = [n \in names |-> e[n]] /\ \A n \in names : e[n] = texts[n]
    BY <1>7, <1>8, <2>1 DEF JoinRepeats
  <2>3. texts = [n \in names |-> texts[n]]
    OBVIOUS
  <2> QED BY <2>1, <2>2, <2>3
<1> QED BY <1>4, <1>6, <1>7, <1>9

\* The names that are given are finitely many.
LEMMA FewNames ==
  ASSUME NEW pairs \in Pairs
  PROVE  IsFiniteSet(NamesIn(pairs))
<1>1. PICK n \in Nat : DOMAIN pairs = 1 .. n
  BY PairTyped
<1>2. PICK f : f = [i \in 1 .. n |-> pairs[i][1]]
  OBVIOUS
<1>3. f \in Surjection(1 .. n, NamesIn(pairs))
  BY <1>1, <1>2 DEF Surjection, NamesIn
<1>4. IsFiniteSet(1 .. n)
  BY FS_Interval, SMT
<1> QED BY <1>3, <1>4, FS_Surjection

-----------------------------------------------------------------------------
(* What the violations of a call are about, and when none is enforced.      *)

Rules == Enforced \cup {"given-twice", "missing", "unknown", "implausible"}
Broken == {Violation(kind, about) : kind \in Rules, about \in SUBSET Texts}

Harmless(violations) == \A v \in ToSet(violations) : v.kind \notin Enforced

LEMMA NothingHarmless ==
  /\ <<>> \in Seq(Broken) /\ ToSet(<<>>) = {} /\ Harmless(<<>>)
BY EmptySeq DEF Harmless, ToSet

LEMMA OneViolation ==
  ASSUME NEW kind \in Rules, NEW about \in SUBSET Texts, NEW conforms \in BOOLEAN
  PROVE  /\ Unless(conforms, kind, about) \in Seq(Broken)
         /\ Unless(conforms, kind, about) = <<>> <=> conforms
         /\ Harmless(Unless(conforms, kind, about)) <=> conforms \/ kind \notin Enforced
<1>1. PICK v : v = Violation(kind, about)
  OBVIOUS
<1>2. v \in Broken /\ v.kind = kind
  BY <1>1 DEF Broken, Violation
<1>3. <<v>> \in Seq(Broken) /\ <<v>> # <<>>
  BY <1>2
<1>4. ToSet(<<v>>) = {v}
  BY DEF ToSet
<1>5. CASE conforms
  <2>1. Unless(conforms, kind, about) = <<>>
    BY <1>5 DEF Unless
  <2> QED BY <1>5, <2>1, NothingHarmless
<1>6. CASE ~conforms
  <2>1. Unless(conforms, kind, about) = <<v>>
    BY <1>1, <1>6 DEF Unless
  <2>2. Harmless(<<v>>) <=> kind \notin Enforced
    BY <1>2, <1>4 DEF Harmless
  <2> QED BY <1>3, <1>6, <2>1, <2>2
<1> QED BY <1>5, <1>6

\* Parts put together are harmless, or empty, when each is.
LEMMA BothHarmless ==
  ASSUME NEW s \in Seq(Broken), NEW t \in Seq(Broken)
  PROVE  /\ s \o t \in Seq(Broken)
         /\ Harmless(s \o t) <=> Harmless(s) /\ Harmless(t)
         /\ s \o t = <<>> <=> s = <<>> /\ t = <<>>
<1>1. PICK u : u = s \o t
  OBVIOUS
<1>2. u \in Seq(Broken) /\ ToSet(u) = ToSet(s) \cup ToSet(t)
  <2>1. u \in Seq(Broken)
    BY <1>1, JoinedTo
  <2>2. ToSet(u) = ToSet(s) \cup ToSet(t)
    BY <1>1, InEither
  <2> QED BY <2>1, <2>2
<1>3. Harmless(u) <=> Harmless(s) /\ Harmless(t)
  BY <1>2 DEF Harmless
<1>4. u = <<>> <=> s = <<>> /\ t = <<>>
  <2>1. (u = <<>> <=> ToSet(u) = {}) /\ (s = <<>> <=> ToSet(s) = {}) /\ (t = <<>> <=> ToSet(t) = {})
    BY <1>2, NothingIn
  <2> QED BY <1>2, <2>1
<1> QED BY <1>1, <1>2, <1>3, <1>4

LEMMA AllHarmless ==
  ASSUME NEW S, NEW s \in Seq(S), NEW parts, DOMAIN parts = DOMAIN s,
         parts = [i \in DOMAIN s |-> parts[i]],
         \A i \in DOMAIN s : parts[i] \in Seq(Broken)
  PROVE  /\ FlattenSeq(parts) \in Seq(Broken)
         /\ Harmless(FlattenSeq(parts)) <=> \A i \in DOMAIN s : Harmless(parts[i])
         /\ FlattenSeq(parts) = <<>> <=> \A i \in DOMAIN s : parts[i] = <<>>
<1>1. parts \in Seq(Seq(Broken))
  BY Mapped
<1>2. PICK flat : flat = FlattenSeq(parts)
  OBVIOUS
<1>3. flat \in Seq(Broken) /\ ToSet(flat) = UNION {ToSet(parts[i]) : i \in DOMAIN s}
  BY <1>1, <1>2, FlatIn
<1>4. flat = <<>> <=> \A i \in DOMAIN s : parts[i] = <<>>
  BY <1>1, <1>2, FlatEmpty
<1>5. Harmless(flat) <=> \A i \in DOMAIN s : Harmless(parts[i])
  BY <1>3 DEF Harmless
<1> QED BY <1>2, <1>3, <1>4, <1>5

LEMMA NoneMissing ==
  \A effective, names : Missing(effective, names) = {} <=> \A n \in names : Given(effective, n)
BY DEF Missing

\* The items of a value are a sequence, and those of the contract's meaning.
LEMMA ItemsListed ==
  ASSUME NEW arg, NEW value \in Texts
  PROVE  /\ Items(arg, value) \in Seq(ToSet(Items(arg, value)))
         /\ ToSet(Items(arg, value)) = Lists(value, arg)
<1>1. CASE arg.list = "none"
  <2>1. ToSet(<<value>>) = {value} /\ <<value>> \in Seq({value})
    BY DEF ToSet
  <2> QED BY <1>1, <2>1 DEF Items, Lists
<1>2. CASE arg.list # "none"
  <2>1. Items(arg, value) = SplitList(arg.list, value) /\ Lists(value, arg) = ToSet(Items(arg, value))
    BY <1>2 DEF Items, Lists
  <2>2. PICK pieces, items, keep :
          /\ pieces = Pieces(value, Separators[arg.list])
          /\ items = [i \in DOMAIN pieces |-> Trim(pieces[i])]
          /\ keep = {i \in DOMAIN items : items[i] # <<>>}
    OBVIOUS
  <2>3. SplitList(arg.list, value) = Chosen(items, keep)
    BY <2>2 DEF SplitList
  <2>4. PICK ends : ends = {Len(value) + 1} \cup {i \in DOMAIN value : value[i] \in Separators[arg.list]}
    OBVIOUS
  <2>5. Cardinality(ends) \in Nat
    <3>1. Len(value) \in Nat /\ DOMAIN value = 1 .. Len(value)
      BY LenProperties DEF Texts
    <3>2. IsFiniteSet(1 .. (Len(value) + 1))
      BY <3>1, FS_Interval, SMT
    <3>3. ends \subseteq 1 .. (Len(value) + 1)
      BY <2>4, <3>1
    <3> QED BY <3>2, <3>3, FS_Subset, FS_CardinalityType
  <2>6. DOMAIN pieces = 1 .. Cardinality(ends)
    BY <2>2, <2>4 DEF Pieces
  <2>7. items \in Seq({items[i] : i \in DOMAIN items})
    <3>1. PICK n \in Nat : n = Cardinality(ends)
      BY <2>5
    <3>2. DOMAIN items = 1 .. n /\ items = [i \in 1 .. n |-> items[i]]
      BY <2>2, <2>6, <3>1
    <3>3. items \in [1 .. n -> {items[i] : i \in DOMAIN items}]
      BY <3>2
    <3> QED BY <3>3, SeqDef
  <2>8. Chosen(items, keep) \in Seq({items[i] : i \in DOMAIN items})
    BY <2>7, ChosenIn
  <2>9. PICK s : s = Chosen(items, keep)
    OBVIOUS
  <2>10. s \in Seq(ToSet(s))
    <3>1. DOMAIN s = 1 .. Len(s) /\ Len(s) \in Nat /\ s = [i \in 1 .. Len(s) |-> s[i]]
      BY <2>8, <2>9, LenProperties
    <3>2. s \in [1 .. Len(s) -> ToSet(s)]
      BY <3>1 DEF ToSet
    <3> QED BY <3>1, <3>2, SeqDef
  <2> QED BY <2>1, <2>3, <2>9, <2>10
<1> QED BY <1>1, <1>2

LEMMA ValueMeans ==
  ASSUME NEW arg, arg.name \in Texts, NEW value
  PROVE  /\ CheckValue(arg, value) \in Seq(Broken)
         /\ Harmless(CheckValue(arg, value)) <=> \A values \in arg.oneOf : value \in values
         /\ CheckValue(arg, value) = <<>> =>
              (\A values \in arg.oneOf : value \in values) /\ Plausible(arg.class, value)
<1>0. /\ "not-one-of" \in Rules /\ "implausible" \in Rules /\ {arg.name} \in SUBSET Texts
      /\ "not-one-of" \in Enforced /\ "implausible" \notin Enforced
  BY DEF Rules, Enforced
<1>1. CASE \E values \in arg.oneOf : value \notin values
  <2>1. CheckValue(arg, value) = Unless(FALSE, "not-one-of", {arg.name})
    BY <1>1 DEF CheckValue, Unless
  <2> QED BY <1>0, <1>1, <2>1, OneViolation
<1>2. CASE \A values \in arg.oneOf : value \in values
  <2>1. PICK plausible \in BOOLEAN : plausible <=> Plausible(arg.class, value)
    OBVIOUS
  <2>2. CheckValue(arg, value) = Unless(plausible, "implausible", {arg.name})
    BY <1>2, <2>1 DEF CheckValue, Unless
  <2> QED BY <1>0, <1>2, <2>1, <2>2, OneViolation
<1> QED BY <1>1, <1>2

LEMMA NotesMean ==
  ASSUME NEW arg, arg.name \in Texts, NEW effective, NEW items, items \in Seq(ToSet(items))
  PROVE  /\ CheckNotes(arg, effective, items) \in Seq(Broken)
         /\ Harmless(CheckNotes(arg, effective, items))
            <=> \A value \in ToSet(items) \cap DOMAIN arg.values :
                  \A n \in arg.values[value] : Given(effective, n)
<1> DEFINE Passed(i) == items[i] \notin DOMAIN arg.values \/ \E j \in 1 .. (i - 1) : items[j] = items[i]
<1>0. "needs" \in Rules /\ {arg.name} \in SUBSET Texts /\ "needs" \in Enforced
  BY DEF Rules, Enforced
<1>1. PICK parts :
        parts = [i \in DOMAIN items |->
          IF Passed(i) THEN <<>>
          ELSE Unless(Missing(effective, arg.values[items[i]]) = {}, "needs", {arg.name})]
  OBVIOUS
<1>2. CheckNotes(arg, effective, items) = FlattenSeq(parts)
  BY <1>1 DEF CheckNotes
<1>3. ASSUME NEW i \in DOMAIN items
      PROVE  /\ parts[i] \in Seq(Broken)
             /\ Harmless(parts[i])
                <=> Passed(i) \/ \A n \in arg.values[items[i]] : Given(effective, n)
  <2>1. CASE Passed(i)
    <3>1. parts[i] = <<>>
      BY <1>1, <2>1
    <3> QED BY <2>1, <3>1, NothingHarmless
  <2>2. CASE ~Passed(i)
    <3>1. PICK none \in BOOLEAN : none <=> Missing(effective, arg.values[items[i]]) = {}
      OBVIOUS
    <3>2. parts[i] = Unless(none, "needs", {arg.name})
      BY <1>1, <2>2, <3>1 DEF Unless
    <3>3. none <=> \A n \in arg.values[items[i]] : Given(effective, n)
      BY <3>1, NoneMissing
    <3> QED BY <1>0, <2>2, <3>2, <3>3, OneViolation
  <2> QED BY <2>1, <2>2
<1>4. DOMAIN parts = DOMAIN items /\ parts = [i \in DOMAIN items |-> parts[i]]
  BY <1>1
<1>5. /\ FlattenSeq(parts) \in Seq(Broken)
      /\ Harmless(FlattenSeq(parts)) <=> \A i \in DOMAIN items : Harmless(parts[i])
  <2>1. \A i \in DOMAIN items : parts[i] \in Seq(Broken)
    BY <1>3
  <2> QED BY <1>4, <2>1, AllHarmless
<1>6. DOMAIN items = 1 .. Len(items) /\ Len(items) \in Nat
  BY LenProperties
<1>7. ASSUME \A i \in DOMAIN items : Passed(i) \/ \A n \in arg.values[items[i]] : Given(effective, n),
             NEW value \in ToSet(items) \cap DOMAIN arg.values
      PROVE  \A n \in arg.values[value] : Given(effective, n)
  <2>1. PICK at : at = {i \in DOMAIN items : items[i] = value}
    OBVIOUS
  <2>2. at \subseteq Nat /\ at # {}
    BY <1>6, <2>1 DEF ToSet
  <2>3. PICK first \in at : \A i \in at : first <= i
    BY <2>2, Least
  <2>4. ASSUME NEW j \in 1 .. (first - 1) PROVE items[j] # items[first]
    <3>1. first \in 1 .. Len(items) /\ items[first] = value
      BY <1>6, <2>1, <2>3
    <3>2. j \in DOMAIN items /\ ~(first <= j)
      BY <1>6, <3>1
    <3> QED BY <2>1, <2>3, <3>1, <3>2
  <2>5. first \in DOMAIN items /\ items[first] = value /\ ~Passed(first)
    BY <1>7, <2>1, <2>3, <2>4
  <2> QED BY <1>7, <2>5
<1>8. ASSUME \A value \in ToSet(items) \cap DOMAIN arg.values :
               \A n \in arg.values[value] : Given(effective, n),
             NEW i \in DOMAIN items, ~Passed(i)
      PROVE  \A n \in arg.values[items[i]] : Given(effective, n)
  <2>1. items[i] \in ToSet(items) \cap DOMAIN arg.values
    BY <1>8 DEF ToSet
  <2> QED BY <1>8, <2>1
<1> HIDE DEF Passed
<1> QED BY <1>2, <1>3, <1>5, <1>7, <1>8

(* What is asked of an input that is in play and of a group.                 *)
Kept(arg, effective) ==
  arg.name \in DOMAIN effective =>
    /\ \A values \in arg.oneOf : Lists(effective[arg.name], arg) \subseteq values
    /\ \A value \in Lists(effective[arg.name], arg) \cap DOMAIN arg.values :
         \A n \in arg.values[value] : Given(effective, n)
    /\ Given(effective, arg.name) => \A n \in arg.needs : Given(effective, n)

LEMMA InputMeans ==
  ASSUME NEW arg, arg.name \in Texts, NEW effective, NEW repeated,
         arg.name \in DOMAIN effective => effective[arg.name] \in Texts
  PROVE  /\ CheckInput(arg, effective, repeated) \in Seq(Broken)
         /\ Harmless(CheckInput(arg, effective, repeated)) <=> Kept(arg, effective)
         /\ CheckInput(arg, effective, repeated) = <<>> =>
              IF arg.name \notin DOMAIN effective THEN ~arg.required \/ arg.binding
              ELSE \A value \in Lists(effective[arg.name], arg) :
                     (\A values \in arg.oneOf : value \in values) /\ Plausible(arg.class, value)
<1>0. /\ "given-twice" \in Rules /\ "missing" \in Rules /\ "needs" \in Rules
      /\ {arg.name} \in SUBSET Texts
      /\ "given-twice" \notin Enforced /\ "missing" \notin Enforced /\ "needs" \in Enforced
  BY DEF Rules, Enforced
<1>1. PICK once, twice : /\ once \in BOOLEAN /\ (once <=> arg.name \notin repeated)
                         /\ twice = Unless(once, "given-twice", {arg.name})
  <2>1. PICK once \in BOOLEAN : once <=> arg.name \notin repeated
    OBVIOUS
  <2> QED BY <2>1
<1>2. twice \in Seq(Broken) /\ Harmless(twice)
  BY <1>0, <1>1, OneViolation
<1>3. twice = Unless(arg.name \notin repeated, "given-twice", {arg.name})
  BY <1>1 DEF Unless
<1>4. CASE arg.name \notin DOMAIN effective
  <2>1. PICK present \in BOOLEAN : present <=> ~arg.required \/ arg.binding
    OBVIOUS
  <2>2. PICK missing : missing = Unless(present, "missing", {arg.name})
    OBVIOUS
  <2>3. CheckInput(arg, effective, repeated) = twice \o missing
    BY <1>3, <1>4, <2>1, <2>2 DEF CheckInput, Unless
  <2>4. missing \in Seq(Broken) /\ Harmless(missing) /\ (missing = <<>> <=> present)
    BY <1>0, <2>2, OneViolation
  <2>5. /\ twice \o missing \in Seq(Broken) /\ Harmless(twice \o missing)
        /\ twice \o missing = <<>> => present
    BY <1>2, <2>4, BothHarmless
  <2> QED BY <1>4, <2>1, <2>3, <2>5 DEF Kept
<1>5. CASE arg.name \in DOMAIN effective
  <2>1. PICK value, items : value = effective[arg.name] /\ items = Items(arg, value)
    OBVIOUS
  <2>2. value \in Texts /\ items \in Seq(ToSet(items)) /\ ToSet(items) = Lists(value, arg)
    BY <1>5, <2>1, ItemsListed
  <2>3. PICK parts, each, notes, needs, all :
          /\ parts = [i \in DOMAIN items |-> CheckValue(arg, items[i])]
          /\ each = FlattenSeq(parts)
          /\ notes = CheckNotes(arg, effective, items)
          /\ all \in BOOLEAN
          /\ all <=> (Given(effective, arg.name) => Missing(effective, arg.needs) = {})
          /\ needs = Unless(all, "needs", {arg.name})
    <3>1. PICK all \in BOOLEAN : all <=> (Given(effective, arg.name) => Missing(effective, arg.needs) = {})
      OBVIOUS
    <3> QED BY <3>1
  <2>4. CheckInput(arg, effective, repeated) = twice \o (each \o notes \o needs)
    <3>1. needs = Unless(Given(effective, arg.name) => Missing(effective, arg.needs) = {}, "needs", {arg.name})
      BY <2>3 DEF Unless
    <3> QED BY <1>3, <1>5, <2>1, <2>3, <3>1 DEF CheckInput
  <2>5. /\ each \in Seq(Broken)
        /\ Harmless(each) <=> \A item \in ToSet(items) : \A values \in arg.oneOf : item \in values
        /\ each = <<>> => \A item \in ToSet(items) :
                            (\A values \in arg.oneOf : item \in values) /\ Plausible(arg.class, item)
    <3>1. \A i \in DOMAIN items :
            /\ parts[i] \in Seq(Broken)
            /\ Harmless(parts[i]) <=> \A values \in arg.oneOf : items[i] \in values
            /\ parts[i] = <<>> =>
                 (\A values \in arg.oneOf : items[i] \in values) /\ Plausible(arg.class, items[i])
      BY <2>3, ValueMeans
    <3>2. DOMAIN parts = DOMAIN items /\ parts = [i \in DOMAIN items |-> parts[i]]
      BY <2>3
    <3>3. /\ each \in Seq(Broken)
          /\ Harmless(each) <=> \A i \in DOMAIN items : Harmless(parts[i])
          /\ each = <<>> <=> \A i \in DOMAIN items : parts[i] = <<>>
      BY <2>2, <2>3, <3>1, <3>2, AllHarmless
    <3>4. ToSet(items) = {items[i] : i \in DOMAIN items}
      BY DEF ToSet
    <3> QED BY <3>1, <3>3, <3>4
  <2>6. /\ notes \in Seq(Broken)
        /\ Harmless(notes) <=> \A item \in ToSet(items) \cap DOMAIN arg.values :
                                 \A n \in arg.values[item] : Given(effective, n)
    BY <2>2, <2>3, NotesMean
  <2>7. /\ needs \in Seq(Broken)
        /\ Harmless(needs) <=> (Given(effective, arg.name) => \A n \in arg.needs : Given(effective, n))
    <3>1. needs \in Seq(Broken) /\ (Harmless(needs) <=> all)
      BY <1>0, <2>3, OneViolation
    <3> QED BY <2>3, <3>1, NoneMissing
  <2>8. PICK two, three, four : two = each \o notes /\ three = two \o needs /\ four = twice \o three
    OBVIOUS
  <2>9. two \in Seq(Broken) /\ (Harmless(two) <=> Harmless(each) /\ Harmless(notes)) /\ (two = <<>> => each = <<>>)
    BY <2>5, <2>6, <2>8, BothHarmless
  <2>10. three \in Seq(Broken) /\ (Harmless(three) <=> Harmless(two) /\ Harmless(needs)) /\ (three = <<>> => two = <<>>)
    BY <2>7, <2>8, <2>9, BothHarmless
  <2>11. four \in Seq(Broken) /\ (Harmless(four) <=> Harmless(three)) /\ (four = <<>> => three = <<>>)
    BY <1>2, <2>8, <2>10, BothHarmless
  <2>12. CheckInput(arg, effective, repeated) = four
    BY <2>4, <2>8
  <2>13. Kept(arg, effective) <=>
           /\ \A item \in ToSet(items) : \A values \in arg.oneOf : item \in values
           /\ \A item \in ToSet(items) \cap DOMAIN arg.values :
                \A n \in arg.values[item] : Given(effective, n)
           /\ Given(effective, arg.name) => \A n \in arg.needs : Given(effective, n)
    BY <1>5, <2>1, <2>2 DEF Kept
  <2>14. Harmless(four) <=> Kept(arg, effective)
    BY <2>5, <2>6, <2>7, <2>9, <2>10, <2>11, <2>13
  <2>15. four = <<>> => \A item \in Lists(value, arg) :
                          (\A values \in arg.oneOf : item \in values) /\ Plausible(arg.class, item)
    BY <2>2, <2>5, <2>9, <2>10, <2>11
  <2> QED BY <1>5, <2>1, <2>11, <2>12, <2>14, <2>15
<1> QED BY <1>4, <1>5

GroupKept(group, effective) ==
  LET chosen == {m \in group.members : Given(effective, m)} IN
  CASE group.kind = "exactly-one"  -> \E m \in group.members : chosen = {m}
    [] group.kind = "at-least-one" -> chosen # {}
    [] group.kind = "at-most-one"  -> \A m, n \in chosen : m = n

LEMMA GroupMeans ==
  ASSUME NEW group, group.kind \in {"exactly-one", "at-least-one", "at-most-one"},
         group.members \subseteq Texts, IsFiniteSet(group.members), NEW effective
  PROVE  /\ CheckGroup(group, effective) \in Seq(Broken)
         /\ Harmless(CheckGroup(group, effective)) <=> GroupKept(group, effective)
<1>0. group.kind \in Rules /\ group.kind \in Enforced /\ group.members \in SUBSET Texts
  BY DEF Rules, Enforced
<1>1. PICK chosen, present : /\ chosen = {m \in group.members : Given(effective, m)}
                             /\ present = Cardinality(chosen)
  OBVIOUS
<1>2. IsFiniteSet(chosen) /\ chosen \subseteq group.members
  BY <1>1, FS_Subset
<1>3. present \in Nat /\ (present = 0 <=> chosen = {}) /\ (present = 1 <=> \E m : chosen = {m})
  <2>1. present \in Nat
    BY <1>1, <1>2, FS_CardinalityType
  <2>2. present = 0 <=> chosen = {}
    BY <1>1, <1>2, FS_EmptySet
  <2>3. present = 1 <=> \E m : chosen = {m}
    BY <1>1, <1>2, FS_Singleton
  <2> QED BY <2>1, <2>2, <2>3
<1>4. /\ present = 1 <=> \E m \in group.members : chosen = {m}
      /\ present > 0 <=> chosen # {}
      /\ present <= 1 <=> \A m, n \in chosen : m = n
  <2>1. present = 1 <=> \E m \in group.members : chosen = {m}
    BY <1>2, <1>3
  <2>2. present > 0 <=> chosen # {}
    BY <1>3
  <2>3. present <= 1 <=> (present = 0 \/ present = 1)
    BY <1>3
  <2>4. (chosen = {} \/ \E m : chosen = {m}) <=> \A m, n \in chosen : m = n
    <3>1. ASSUME \A m, n \in chosen : m = n, NEW m \in chosen PROVE chosen = {m}
      BY <3>1
    <3> QED BY <3>1
  <2> QED BY <1>3, <2>1, <2>2, <2>3, <2>4
<1>5. PICK kept \in BOOLEAN : kept <=> GroupKept(group, effective)
  OBVIOUS
<1>6. kept <=> CASE group.kind = "exactly-one"  -> present = 1
                 [] group.kind = "at-least-one" -> present > 0
                 [] group.kind = "at-most-one"  -> present <= 1
  <2>1. CASE group.kind = "exactly-one"
    BY <1>1, <1>4, <1>5, <2>1 DEF GroupKept
  <2>2. CASE group.kind = "at-least-one"
    BY <1>1, <1>4, <1>5, <2>2 DEF GroupKept
  <2>3. CASE group.kind = "at-most-one"
    BY <1>1, <1>4, <1>5, <2>3 DEF GroupKept
  <2> QED BY <2>1, <2>2, <2>3
<1>7. CheckGroup(group, effective) = Unless(kept, group.kind, group.members)
  BY <1>1, <1>6 DEF CheckGroup, Unless
<1> QED BY <1>0, <1>5, <1>7, OneViolation

LEMMA UnknownHarmless ==
  ASSUME NEW action, NEW pairs \in Pairs
  PROVE  Unknown(action, pairs) \in Seq(Broken) /\ Harmless(Unknown(action, pairs))
<1>1. PICK all, keep, names, parts :
        /\ all = [i \in DOMAIN pairs |-> pairs[i][1]]
        /\ keep = {i \in DOMAIN pairs : pairs[i][1] \notin InputNames(action)}
        /\ names = Chosen(all, keep)
        /\ parts = [i \in DOMAIN names |->
                      Unless(\E j \in 1 .. (i - 1) : names[j] = names[i], "unknown", {names[i]})]
  OBVIOUS
<1>2. all \in Seq(Texts)
  <2>1. DOMAIN all = DOMAIN pairs /\ all = [i \in DOMAIN pairs |-> all[i]]
    BY <1>1
  <2>2. \A i \in DOMAIN pairs : all[i] \in Texts
    BY <1>1, PairTyped
  <2>3. pairs \in Seq(Texts \X Texts)
    BY DEF Pairs
  <2>4. all \in Seq(Texts) /\ Len(all) = Len(pairs)
    BY <2>1, <2>2, <2>3, Mapped
  <2> QED BY <2>4
<1>3. names \in Seq(Texts)
  BY <1>1, <1>2, ChosenIn
<1>4. ASSUME NEW i \in DOMAIN names PROVE parts[i] \in Seq(Broken) /\ Harmless(parts[i])
  <2>1. names[i] \in Texts
    BY <1>3, InTyped
  <2>2. {names[i]} \in SUBSET Texts /\ "unknown" \in Rules /\ "unknown" \notin Enforced
    BY <2>1 DEF Rules, Enforced
  <2>3. PICK before \in BOOLEAN : before <=> \E j \in 1 .. (i - 1) : names[j] = names[i]
    OBVIOUS
  <2>4. parts[i] = Unless(before, "unknown", {names[i]})
    BY <1>1, <2>3 DEF Unless
  <2> QED BY <2>2, <2>4, OneViolation
<1>5. DOMAIN parts = DOMAIN names /\ parts = [i \in DOMAIN names |-> parts[i]]
  BY <1>1
<1>6. FlattenSeq(parts) \in Seq(Broken) /\ Harmless(FlattenSeq(parts))
  BY <1>3, <1>4, <1>5, AllHarmless
<1>7. Unknown(action, pairs) = FlattenSeq(parts)
  BY <1>1 DEF Unknown
<1> QED BY <1>6, <1>7

(* What a call's pairs come to conforms, but for what the server passes over. *)
Conforms(action, effective) ==
  /\ FieldsGiven(action, effective) => \A n \in Carrier(action) : ~Given(effective, n)
  /\ \A arg \in ToSet(action.inputs) : InPlay(action, effective, arg) => Kept(arg, effective)
  /\ \A group \in ToSet(action.groups) : GroupKept(group, effective)

LEMMA FewInputs ==
  ASSUME NEW action, NEW variables, Declarable(action, variables)
  PROVE  IsFiniteSet(InputNames(action))
<1>1. PICK n \in Nat : DOMAIN action.inputs = 1 .. n
  BY Inputs
<1>2. PICK f : f = [i \in 1 .. n |-> action.inputs[i].name]
  OBVIOUS
<1>3. f \in Surjection(1 .. n, InputNames(action))
  BY <1>1, <1>2 DEF Surjection, InputNames
<1>4. IsFiniteSet(1 .. n)
  BY FS_Interval, SMT
<1> QED BY <1>3, <1>4, FS_Surjection

LEMMA CheckedIn ==
  ASSUME NEW action, NEW variables, Declarable(action, variables), NEW effective
  PROVE  /\ Checked(action, effective) \in Seq(ToSet(action.inputs))
         /\ ToSet(Checked(action, effective))
            = {arg \in ToSet(action.inputs) : InPlay(action, effective, arg)}
<1>1. PICK keep : keep = {i \in DOMAIN action.inputs : InPlay(action, effective, action.inputs[i])}
  OBVIOUS
<1>2. /\ Chosen(action.inputs, keep) \in Seq(ToSet(action.inputs))
      /\ ToSet(Chosen(action.inputs, keep)) = {action.inputs[i] : i \in DOMAIN action.inputs \cap keep}
  <2>1. action.inputs \in Seq(ToSet(action.inputs))
    BY DEF Declarable
  <2> QED BY <2>1, ChosenIn
<1>3. {action.inputs[i] : i \in DOMAIN action.inputs \cap keep}
      = {arg \in ToSet(action.inputs) : InPlay(action, effective, arg)}
  <2>1. \A arg : arg \in ToSet(action.inputs) <=> \E i \in DOMAIN action.inputs : arg = action.inputs[i]
    BY DEF ToSet
  <2> QED BY <1>1, <2>1
<1> QED BY <1>1, <1>2, <1>3 DEF Checked

FourJoined(s, t, u, w, all) == all = s \o t \o u \o w

LEMMA FourHarmless ==
  ASSUME NEW s \in Seq(Broken), NEW t \in Seq(Broken), NEW u \in Seq(Broken), NEW w \in Seq(Broken),
         NEW all, FourJoined(s, t, u, w, all)
  PROVE  /\ all \in Seq(Broken)
         /\ Harmless(all) <=> Harmless(s) /\ Harmless(t) /\ Harmless(u) /\ Harmless(w)
         /\ all = <<>> => s = <<>> /\ t = <<>> /\ u = <<>> /\ w = <<>>
<1>1. PICK two, three : two = s \o t /\ three = two \o u
  OBVIOUS
<1>2. two \in Seq(Broken) /\ (Harmless(two) <=> Harmless(s) /\ Harmless(t))
      /\ (two = <<>> => s = <<>> /\ t = <<>>)
  BY <1>1, BothHarmless
<1>3. three \in Seq(Broken) /\ (Harmless(three) <=> Harmless(two) /\ Harmless(u))
      /\ (three = <<>> => two = <<>> /\ u = <<>>)
  BY <1>1, <1>2, BothHarmless
<1>4. all = three \o w
  BY <1>1 DEF FourJoined
<1>5. all \in Seq(Broken) /\ (Harmless(all) <=> Harmless(three) /\ Harmless(w))
      /\ (all = <<>> => three = <<>> /\ w = <<>>)
  BY <1>3, <1>4, BothHarmless
<1> QED BY <1>2, <1>3, <1>5

\* What the server enforces of a call is that it conforms; and where the check
\* finds nothing, every input in play passed it.
LEMMA CheckMeans ==
  ASSUME NEW action, NEW variables, Declarable(action, variables), NEW pairs \in Pairs
  PROVE  /\ Violations(action, pairs) \in Seq(Broken)
         /\ Harmless(Violations(action, pairs)) <=> Conforms(action, JoinRepeats(action, pairs))
         /\ Violations(action, pairs) = <<>> =>
              \A arg \in ToSet(action.inputs) :
                InPlay(action, JoinRepeats(action, pairs), arg) =>
                  CheckInput(arg, JoinRepeats(action, pairs), Repeated(action, pairs)) = <<>>
<1>1. PICK effective, checked, repeated :
        /\ effective = JoinRepeats(action, pairs)
        /\ checked = Checked(action, effective)
        /\ repeated = Repeated(action, pairs)
  OBVIOUS
<1>2. effective \in [NamesIn(pairs) -> Texts] /\ DOMAIN effective = NamesIn(pairs)
  BY <1>1, OneValueEach
<1>0. PICK single \in BOOLEAN :
        single <=> ~(FieldsGiven(action, effective) /\ \E n \in Carrier(action) : Given(effective, n))
  OBVIOUS
<1>3. PICK inputs, groups, s, t, u, w :
        /\ inputs = [i \in DOMAIN checked |-> CheckInput(checked[i], effective, repeated)]
        /\ groups = [i \in DOMAIN action.groups |-> CheckGroup(action.groups[i], effective)]
        /\ s = Unless(single, "envelope", Carrier(action))
        /\ t = FlattenSeq(inputs)
        /\ u = FlattenSeq(groups)
        /\ w = IF action.arguments[1] = "open" THEN <<>> ELSE Unknown(action, pairs)
  OBVIOUS
<1>4. Violations(action, pairs) = s \o t \o u \o w
  <2>1. s = Unless(~(FieldsGiven(action, effective) /\ \E n \in Carrier(action) : Given(effective, n)),
                   "envelope", Carrier(action))
    BY <1>0, <1>3 DEF Unless
  <2> QED BY <1>1, <1>3, <2>1 DEF Violations
<1>5. s \in Seq(Broken) /\ (Harmless(s) <=> single)
  <2>1. "envelope" \in Rules /\ "envelope" \in Enforced
    BY DEF Rules, Enforced
  <2>2. Carrier(action) \in SUBSET Texts
    BY Inputs DEF Declarable
  <2> QED BY <1>3, <2>1, <2>2, OneViolation
<1>6. /\ checked \in Seq(ToSet(action.inputs))
      /\ ToSet(checked) = {arg \in ToSet(action.inputs) : InPlay(action, effective, arg)}
  BY <1>1, CheckedIn
<1>7. ASSUME NEW i \in DOMAIN checked
      PROVE  /\ inputs[i] = CheckInput(checked[i], effective, repeated)
             /\ inputs[i] \in Seq(Broken)
             /\ Harmless(inputs[i]) <=> Kept(checked[i], effective)
  <2>1. PICK arg : arg = checked[i]
    OBVIOUS
  <2>2. arg \in ToSet(action.inputs)
    BY <1>6, <2>1, InTyped
  <2>3. arg.name \in Texts
    BY <2>2, Inputs
  <2>4. inputs[i] = CheckInput(arg, effective, repeated)
    BY <1>3, <2>1
  <2>5. arg.name \in DOMAIN effective => effective[arg.name] \in Texts
    BY <1>2
  <2>6. /\ CheckInput(arg, effective, repeated) \in Seq(Broken)
        /\ Harmless(CheckInput(arg, effective, repeated)) <=> Kept(arg, effective)
    BY <2>3, <2>5, InputMeans
  <2> QED BY <2>1, <2>4, <2>6
<1>8. /\ t \in Seq(Broken)
      /\ Harmless(t) <=> \A arg \in ToSet(action.inputs) : InPlay(action, effective, arg) => Kept(arg, effective)
      /\ t = <<>> => \A arg \in ToSet(action.inputs) :
                       InPlay(action, effective, arg) => CheckInput(arg, effective, repeated) = <<>>
  <2>1. DOMAIN inputs = DOMAIN checked /\ inputs = [i \in DOMAIN checked |-> inputs[i]]
    BY <1>3
  <2>2. /\ t \in Seq(Broken)
        /\ Harmless(t) <=> \A i \in DOMAIN checked : Harmless(inputs[i])
        /\ t = <<>> <=> \A i \in DOMAIN checked : inputs[i] = <<>>
    <3>1. \A i \in DOMAIN checked : inputs[i] \in Seq(Broken)
      BY <1>7
    <3>2. checked \in Seq(ToSet(action.inputs)) /\ t = FlattenSeq(inputs)
      BY <1>3, <1>6
    <3> QED BY <2>1, <3>1, <3>2, AllHarmless
  <2>3. \A arg : (arg \in ToSet(action.inputs) /\ InPlay(action, effective, arg))
                 <=> \E i \in DOMAIN checked : arg = checked[i]
    BY <1>6 DEF ToSet
  <2> QED BY <1>7, <2>2, <2>3
<1>9. ASSUME NEW i \in DOMAIN action.groups
      PROVE  /\ groups[i] \in Seq(Broken)
             /\ Harmless(groups[i]) <=> GroupKept(action.groups[i], effective)
  <2>1. PICK group : group = action.groups[i]
    OBVIOUS
  <2>2. group \in ToSet(action.groups)
    BY <2>1 DEF ToSet
  <2>3. /\ group.kind \in {"exactly-one", "at-least-one", "at-most-one"}
        /\ group.members \subseteq InputNames(action)
    BY <2>2 DEF Declarable
  <2>4. group.members \subseteq Texts /\ IsFiniteSet(group.members)
    BY <2>3, Inputs, FewInputs, FS_Subset
  <2>5. groups[i] = CheckGroup(group, effective)
    BY <1>3, <2>1
  <2> QED BY <2>1, <2>3, <2>4, <2>5, GroupMeans
<1>10. /\ u \in Seq(Broken)
       /\ Harmless(u) <=> \A group \in ToSet(action.groups) : GroupKept(group, effective)
  <2>1. DOMAIN groups = DOMAIN action.groups /\ groups = [i \in DOMAIN action.groups |-> groups[i]]
    BY <1>3
  <2>2. action.groups \in Seq(ToSet(action.groups))
    BY DEF Declarable
  <2>3. u \in Seq(Broken) /\ (Harmless(u) <=> \A i \in DOMAIN action.groups : Harmless(groups[i]))
    BY <1>3, <1>9, <2>1, <2>2, AllHarmless
  <2>4. ToSet(action.groups) = {action.groups[i] : i \in DOMAIN action.groups}
    BY DEF ToSet
  <2> QED BY <1>9, <2>3, <2>4
<1>11. w \in Seq(Broken) /\ Harmless(w)
  BY <1>3, UnknownHarmless, NothingHarmless
<1>12. PICK all : all = s \o t \o u \o w
  OBVIOUS
<1>13. /\ all \in Seq(Broken)
       /\ Harmless(all) <=> Harmless(s) /\ Harmless(t) /\ Harmless(u) /\ Harmless(w)
       /\ all = <<>> => t = <<>>
  <2>1. s \in Seq(Broken) /\ t \in Seq(Broken) /\ u \in Seq(Broken) /\ w \in Seq(Broken)
    BY <1>5, <1>8, <1>10, <1>11
  <2>2. FourJoined(s, t, u, w, all)
    BY <1>12 DEF FourJoined
  <2>3. /\ all \in Seq(Broken)
        /\ Harmless(all) <=> Harmless(s) /\ Harmless(t) /\ Harmless(u) /\ Harmless(w)
        /\ all = <<>> => s = <<>> /\ t = <<>> /\ u = <<>> /\ w = <<>>
    BY ONLY <2>1, <2>2, FourHarmless
  <2> QED BY <2>3
<1>14. Harmless(all) <=> Conforms(action, effective)
  BY <1>0, <1>5, <1>8, <1>10, <1>11, <1>13 DEF Conforms
<1> QED BY <1>1, <1>4, <1>8, <1>12, <1>13, <1>14

-----------------------------------------------------------------------------
(* What keeps a call from its handler.                                      *)

Refusable == {Refusal(error, about) : error \in {"InvalidArgument", "MissingArgument"}, about \in SUBSET Texts}

LEMMA OneRefusal ==
  ASSUME NEW action, NEW bindings, NEW args, NEW arg, arg.name \in Texts
  PROVE  ReadArgument(action, bindings, args, arg) \in Seq(Refusable)
<1>1. <<>> \in Seq(Refusable)
  BY EmptySeq
<1>2. ASSUME NEW error \in {"InvalidArgument", "MissingArgument"}
      PROVE  <<Refusal(error, {arg.name})>> \in Seq(Refusable)
  <2>1. PICK r : r = Refusal(error, {arg.name})
    OBVIOUS
  <2>2. r \in Refusable
    BY <2>1 DEF Refusable
  <2> QED BY <2>1, <2>2
<1> QED BY <1>1, <1>2 DEF ReadArgument

\* A call reaches its handler when every argument is read and nothing the server
\* enforces is broken.
LEMMA RefusedWhen ==
  ASSUME NEW action, NEW variables, Declarable(action, variables), NEW bindings, NEW args,
         Proposed(action, bindings, args) \in Pairs
  PROVE  Refusals(action, bindings, args) = <<>>
         <=> /\ \A arg \in ToSet(action.inputs) : ReadArgument(action, bindings, args, arg) = <<>>
             /\ Conforms(action, JoinRepeats(action, Proposed(action, bindings, args)))
<1>1. PICK pairs, violations, keep, enforced, refused, reads, read :
        /\ pairs = Proposed(action, bindings, args)
        /\ violations = Violations(action, pairs)
        /\ keep = {i \in DOMAIN violations : violations[i].kind \in Enforced}
        /\ enforced = Chosen(violations, keep)
        /\ refused = [i \in DOMAIN enforced |-> Refusal("InvalidArgument", enforced[i].about)]
        /\ reads = [i \in DOMAIN action.inputs |-> ReadArgument(action, bindings, args, action.inputs[i])]
        /\ read = FlattenSeq(reads)
  OBVIOUS
<1>2. refused = Preflight(action, bindings, args)
  BY <1>1 DEF Preflight
<1>3. Refusals(action, bindings, args) = read \o refused
  BY <1>1, <1>2 DEF Refusals
<1>4. /\ violations \in Seq(Broken)
      /\ Harmless(violations) <=> Conforms(action, JoinRepeats(action, pairs))
  BY <1>1, CheckMeans
<1>5. /\ enforced \in Seq(Broken)
      /\ ToSet(enforced) = {violations[i] : i \in DOMAIN violations \cap keep}
  BY <1>1, <1>4, ChosenIn
<1>6. enforced = <<>> <=> Harmless(violations)
  <2>1. enforced = <<>> <=> ToSet(enforced) = {}
    BY <1>5, NothingIn
  <2>2. ToSet(enforced) = {v \in ToSet(violations) : v.kind \in Enforced}
    <3>1. \A v : v \in ToSet(enforced) <=> \E i \in DOMAIN violations : violations[i].kind \in Enforced /\ v = violations[i]
      BY <1>1, <1>5
    <3>2. \A v : v \in ToSet(violations) <=> \E i \in DOMAIN violations : v = violations[i]
      BY DEF ToSet
    <3> QED BY <3>1, <3>2
  <2> QED BY <2>1, <2>2 DEF Harmless
<1>7. refused \in Seq(Refusable) /\ (refused = <<>> <=> enforced = <<>>)
  <2>1. DOMAIN refused = DOMAIN enforced /\ refused = [i \in DOMAIN enforced |-> refused[i]]
    BY <1>1
  <2>2. ASSUME NEW i \in DOMAIN enforced PROVE refused[i] \in Refusable
    <3>1. enforced[i] \in Broken
      BY <1>5, InTyped
    <3>2. enforced[i].about \in SUBSET Texts
      BY <3>1 DEF Broken, Violation
    <3>3. PICK about \in SUBSET Texts : about = enforced[i].about
      BY <3>2
    <3>4. refused[i] = Refusal("InvalidArgument", about)
      BY <1>1, <3>3
    <3> QED BY <3>4 DEF Refusable
  <2>3. refused \in Seq(Refusable) /\ Len(refused) = Len(enforced)
    BY <1>5, <2>1, <2>2, Mapped
  <2>4. (refused = <<>> <=> Len(refused) = 0) /\ (enforced = <<>> <=> Len(enforced) = 0)
    BY <1>5, <2>3, EmptySeq
  <2> QED BY <2>3, <2>4
<1>8. read \in Seq(Refusable)
      /\ (read = <<>> <=> \A arg \in ToSet(action.inputs) : ReadArgument(action, bindings, args, arg) = <<>>)
  <2>1. DOMAIN reads = DOMAIN action.inputs /\ reads = [i \in DOMAIN action.inputs |-> reads[i]]
    BY <1>1
  <2>2. action.inputs \in Seq(ToSet(action.inputs))
    BY DEF Declarable
  <2>3. ASSUME NEW i \in DOMAIN action.inputs
        PROVE  /\ reads[i] = ReadArgument(action, bindings, args, action.inputs[i])
               /\ reads[i] \in Seq(Refusable)
    <3>1. PICK arg \in ToSet(action.inputs) : arg = action.inputs[i]
      BY DEF ToSet
    <3>2. arg.name \in Texts
      BY Inputs
    <3>3. ReadArgument(action, bindings, args, arg) \in Seq(Refusable)
      BY <3>2, OneRefusal
    <3> QED BY <1>1, <3>1, <3>3
  <2>4. reads \in Seq(Seq(Refusable))
    <3>1. PICK T, S, inputs : T = Seq(Refusable) /\ S = ToSet(action.inputs) /\ inputs = action.inputs
      OBVIOUS
    <3>2. /\ inputs \in Seq(S) /\ DOMAIN reads = DOMAIN inputs
          /\ reads = [i \in DOMAIN inputs |-> reads[i]] /\ \A i \in DOMAIN inputs : reads[i] \in T
      BY <2>1, <2>2, <2>3, <3>1
    <3>3. reads \in Seq(T) /\ Len(reads) = Len(inputs)
      BY ONLY <3>2, Mapped
    <3> QED BY <3>1, <3>3
  <2>5. read \in Seq(Refusable) /\ (read = <<>> <=> \A i \in DOMAIN reads : reads[i] = <<>>)
    BY <1>1, <2>4, FlatIn, FlatEmpty
  <2>6. \A arg : arg \in ToSet(action.inputs) <=> \E i \in DOMAIN action.inputs : arg = action.inputs[i]
    BY DEF ToSet
  <2>7. (\A i \in DOMAIN reads : reads[i] = <<>>)
        <=> \A arg \in ToSet(action.inputs) : ReadArgument(action, bindings, args, arg) = <<>>
    <3>1. \A i \in DOMAIN action.inputs : reads[i] = ReadArgument(action, bindings, args, action.inputs[i])
      BY <2>3
    <3>2. ASSUME \A i \in DOMAIN reads : reads[i] = <<>>, NEW arg \in ToSet(action.inputs)
          PROVE  ReadArgument(action, bindings, args, arg) = <<>>
      <4>1. PICK i \in DOMAIN action.inputs : arg = action.inputs[i]
        BY <2>6
      <4> QED BY <2>1, <3>1, <3>2, <4>1
    <3>3. ASSUME \A arg \in ToSet(action.inputs) : ReadArgument(action, bindings, args, arg) = <<>>,
                 NEW i \in DOMAIN reads
          PROVE  reads[i] = <<>>
      <4>1. i \in DOMAIN action.inputs /\ action.inputs[i] \in ToSet(action.inputs)
        BY <2>1, <2>6
      <4>2. ReadArgument(action, bindings, args, action.inputs[i]) = <<>>
        BY <3>3, <4>1
      <4> QED BY <3>1, <4>1, <4>2
    <3> QED BY <3>2, <3>3
  <2> QED BY <2>5, <2>7
<1>9. read \o refused = <<>> <=> read = <<>> /\ refused = <<>>
  <2>1. PICK all : all = read \o refused
    OBVIOUS
  <2>2. all \in Seq(Refusable) /\ ToSet(all) = ToSet(read) \cup ToSet(refused)
    <3>1. all \in Seq(Refusable)
      BY <1>7, <1>8, <2>1, JoinedTo
    <3>2. ToSet(all) = ToSet(read) \cup ToSet(refused)
      BY <1>7, <1>8, <2>1, InEither
    <3> QED BY <3>1, <3>2
  <2>3. /\ all = <<>> <=> ToSet(all) = {}
        /\ read = <<>> <=> ToSet(read) = {}
        /\ refused = <<>> <=> ToSet(refused) = {}
    BY <1>7, <1>8, <2>2, NothingIn
  <2> QED BY <2>1, <2>2, <2>3
<1> QED BY <1>1, <1>3, <1>4, <1>6, <1>7, <1>8, <1>9

\* What reads as a whole number has no blank around it.
LEMMA TrimmedInteger ==
  ASSUME NEW value \in Texts, Digits(Unsigned(value))
  PROVE  Trim(value) = value
<1>1. PICK L \in Nat : L = Len(value) /\ DOMAIN value = 1 .. L
  BY LenProperties DEF Texts
<1>2. value # <<>>
  BY DEF Digits, Unsigned
<1>3. L # 0
  BY <1>1, <1>2, EmptySeq DEF Texts
<1>4. \A i \in 1 .. L : value[i] \in 48 .. 57 \/ value[i] \in {43, 45}
  <2>1. CASE value[1] \in {43, 45}
    <3>1. PICK rest : rest = Tail(value)
      OBVIOUS
    <3>2. Digits(rest)
      BY <1>2, <2>1, <3>1 DEF Unsigned
    <3>3. /\ rest \in Seq(0 .. 127) /\ Len(rest) = L - 1
          /\ \A i \in 1 .. Len(rest) : rest[i] = value[i + 1]
      BY <1>1, <1>2, <3>1, HeadTailProperties DEF Texts
    <3>4. DOMAIN rest = 1 .. (L - 1)
      BY <3>3, LenProperties
    <3>5. ASSUME NEW i \in 1 .. L, i # 1 PROVE value[i] \in 48 .. 57
      <4>1. PICK j \in 1 .. (L - 1) : j + 1 = i
        <5>1. i - 1 \in 1 .. (L - 1) /\ (i - 1) + 1 = i
          BY <3>5
        <5> QED BY <5>1
      <4>2. rest[j] \in 48 .. 57 /\ rest[j] = value[j + 1]
        BY <3>2, <3>3, <3>4 DEF Digits
      <4> QED BY <4>1, <4>2
    <3> QED BY <2>1, <3>5
  <2>2. CASE value[1] \notin {43, 45}
    BY <1>1, <2>2 DEF Unsigned, Digits
  <2> QED BY <2>1, <2>2
<1>5. Ink(value) = 1 .. L
  BY <1>1, <1>4 DEF Ink, Whitespace
<1>6. Min(1 .. L) = 1
  <2>1. Min(1 .. L) \in 1 .. L /\ \A n \in 1 .. L : Min(1 .. L) <= n
    <3>1. 1 .. L \subseteq Nat /\ 1 .. L # {}
      BY <1>3
    <3> QED BY <3>1, LeastIsMin
  <2> QED BY <1>3, <2>1
<1>7. Max(1 .. L) = L
  <2>1. \E x \in 1 .. L : \A y \in 1 .. L : x >= y
    BY <1>3
  <2>2. Max(1 .. L) \in 1 .. L /\ \A y \in 1 .. L : Max(1 .. L) >= y
    BY <2>1 DEF Max
  <2> QED BY <1>3, <2>2
<1>8. Trim(value) = SubSeq(value, 1, L)
  BY <1>3, <1>5, <1>6, <1>7 DEF Trim
<1>9. SubSeq(value, 1, Len(value)) = value
  BY SubSeqFull DEF Texts
<1> QED BY <1>1, <1>8, <1>9

\* What the check finds plausible the signature's type takes.
LEMMA Coerced ==
  ASSUME NEW arg, NEW value \in Texts, arg.list = "none",
         \A values \in arg.oneOf : value \in values, Plausible(arg.class, value)
  PROVE  ~Uncoercible(arg, value)
<1>1. arg.class = "boolean" => value \in {True, False}
  BY DEF Plausible
<1>2. arg.class = "integer" => Digits(Unsigned(Trim(value)))
  <2> SUFFICES ASSUME arg.class = "integer" PROVE Digits(Unsigned(Trim(value)))
    OBVIOUS
  <2>1. Digits(Unsigned(value))
    BY DEF Plausible
  <2> QED BY <2>1, TrimmedInteger
<1> QED BY <1>1, <1>2 DEF Uncoercible

(* The declaration, the name and the arguments of a call.                   *)
Call(action, bindings, variables, names, texts) ==
  /\ Bound(action, bindings, variables)
  /\ names \subseteq Texts /\ IsFiniteSet(names) /\ texts \in [names -> Texts]

LEMMA CallRead ==
  ASSUME NEW action, NEW bindings, NEW variables, NEW names, NEW texts,
         Call(action, bindings, variables, names, texts)
  PROVE  /\ Effective(action, bindings, texts) \in [BoundNames(action) \cup names -> Texts]
         /\ Refusals(action, bindings, AsInline(texts)) = <<>>
            <=> /\ \A arg \in ToSet(action.inputs) :
                     ReadArgument(action, bindings, AsInline(texts), arg) = <<>>
                /\ Conforms(action, Effective(action, bindings, texts))
<1>1. /\ Declarable(action, variables) /\ \A n \in variables : bindings[n] \in Texts
      /\ names \subseteq Texts /\ IsFiniteSet(names) /\ texts \in [names -> Texts]
      /\ Bound(action, bindings, variables)
  BY DEF Call, Bound
<1>2. PICK q \in Pairs : /\ Proposed(action, bindings, AsInline(texts)) = FromName(action, bindings) \o q
                         /\ NamesIn(q) = names
                         /\ JoinRepeats(action, q) = texts
  BY <1>1, InlinePairs
<1>3. PICK args, pairs : args = AsInline(texts) /\ pairs = Proposed(action, bindings, args)
  OBVIOUS
<1>4. pairs \in Pairs /\ JoinRepeats(action, pairs) = Effective(action, bindings, texts)
  <2>1. /\ FromName(action, bindings) \o q \in Pairs
        /\ JoinRepeats(action, FromName(action, bindings) \o q)
           = Effective(action, bindings, JoinRepeats(action, q))
    BY <1>1, Effect
  <2> QED BY <1>2, <1>3, <2>1
<1>5. Refusals(action, bindings, args) = <<>>
      <=> /\ \A arg \in ToSet(action.inputs) : ReadArgument(action, bindings, args, arg) = <<>>
          /\ Conforms(action, JoinRepeats(action, pairs))
  BY <1>1, <1>3, <1>4, RefusedWhen
<1>6. Effective(action, bindings, texts) \in [BoundNames(action) \cup names -> Texts]
  <2>1. BoundNames(action) \subseteq variables
    BY <1>1, Inputs
  <2> QED BY <1>1, <2>1 DEF Effective
<1> QED BY <1>3, <1>4, <1>5, <1>6

-----------------------------------------------------------------------------
(* What the check promises.                                                 *)

\* No call that the server lets through breaks its contract: every argument the
\* action requires is there, and every rule on values, groups and an envelope is
\* kept, whatever the contract declares, and whatever is given.  (Space._invoke,
\* _preflight, and check of ikigai/check.py, against the meaning of the rules.)
THEOREM OnlyLawfulEnter ==
  ASSUME NEW action, NEW bindings, NEW variables, NEW names, NEW texts,
         Call(action, bindings, variables, names, texts),
         Refusals(action, bindings, AsInline(texts)) = <<>>
  PROVE  Lawful(action, bindings, AsInline(texts))
<1> DEFINE args     == AsInline(texts)
           inputs   == ToSet(action.inputs)
           bound    == {arg.name : arg \in {arg \in inputs : arg.binding}}
           present  == bound \cup DOMAIN args
           says(n)  == IF n \in bound THEN bindings[n] ELSE IF n \in DOMAIN args THEN args[n][2] ELSE <<>>
           given(n) == \E i \in DOMAIN says(n) : says(n)[i] \notin Whitespace
           carrier  == Carrier(action)
           fields   == {n \in InputNames(action) \ carrier : given(n)}
           asked    == IF carrier = {} THEN inputs
                       ELSE IF fields # {} THEN {arg \in inputs : arg.name \notin carrier}
                       ELSE {arg \in inputs : arg.binding \/ arg.name \in carrier}
<1>1. PICK effective : effective = Effective(action, bindings, texts)
  OBVIOUS
<1>2. /\ effective \in [BoundNames(action) \cup names -> Texts]
      /\ \A arg \in inputs : ReadArgument(action, bindings, args, arg) = <<>>
      /\ Conforms(action, effective)
  BY <1>1, CallRead
<1>3. Declarable(action, variables) /\ texts \in [names -> Texts]
  BY DEF Call, Bound
<1>4. /\ bound = BoundNames(action) /\ DOMAIN args = names /\ DOMAIN effective = present
      /\ \A n \in names : args[n] = <<"Inline", texts[n]>>
  BY <1>2, <1>3 DEF BoundNames, AsInline
<1>5. ASSUME NEW n \in DOMAIN effective PROVE says(n) = effective[n]
  BY <1>1, <1>3, <1>4 DEF Effective
<1>6. ASSUME NEW n, n \notin DOMAIN effective PROVE says(n) = <<>>
  BY <1>4, <1>6
<1>7. ASSUME NEW n PROVE given(n) <=> Given(effective, n)
  <2>1. CASE n \in DOMAIN effective
    <3>1. says(n) = effective[n]
      BY <1>5, <2>1
    <3> HIDE DEF says
    <3> QED BY <2>1, <3>1 DEF Given, Ink
  <2>2. CASE n \notin DOMAIN effective
    <3>1. says(n) = <<>>
      BY <1>6, <2>2
    <3>2. DOMAIN <<>> = {}
      OBVIOUS
    <3> HIDE DEF says
    <3> QED BY <2>2, <3>1, <3>2 DEF Given
  <2> QED BY <2>1, <2>2
<1>8. fields # {} /\ carrier # {} <=> FieldsGiven(action, effective)
  <2> HIDE DEF given
  <2> QED BY <1>7 DEF FieldsGiven
<1>9. ASSUME NEW arg \in asked PROVE arg \in inputs /\ InPlay(action, effective, arg)
  <2>1. CASE carrier = {}
    BY <1>9, <2>1 DEF InPlay
  <2>2. CASE carrier # {} /\ fields # {}
    <3> HIDE DEF fields
    <3> QED BY <1>8, <1>9, <2>2 DEF InPlay
  <2>3. CASE carrier # {} /\ fields = {}
    <3> HIDE DEF fields
    <3> QED BY <1>8, <1>9, <2>3 DEF InPlay
  <2> QED BY <2>1, <2>2, <2>3
<1>10. ASSUME NEW n \in carrier, given(n) PROVE fields = {}
  <2> HIDE DEF given, fields
  <2>1. Given(effective, n)
    BY <1>7, <1>10
  <2>2. ~FieldsGiven(action, effective)
    BY <1>2, <1>10, <2>1 DEF Conforms
  <2> QED BY <1>8, <1>10, <2>2
<1>11. ASSUME NEW arg \in inputs, arg.required PROVE arg.name \in present
  <2>1. CASE arg.binding
    BY <1>11, <2>1
  <2>2. CASE ~arg.binding /\ arg.name \notin DOMAIN args
    <3>1. ReadArgument(action, bindings, args, arg) = <<Refusal("MissingArgument", {arg.name})>>
      BY <1>11, <2>2 DEF ReadArgument
    <3> QED BY <1>2, <3>1
  <2> QED BY <2>1, <2>2
<1>12. ASSUME NEW arg \in asked, arg.name \in present
       PROVE  /\ \A values \in arg.oneOf : Lists(says(arg.name), arg) \subseteq values
              /\ \A value \in Lists(says(arg.name), arg) \cap DOMAIN arg.values :
                   \A n \in arg.values[value] : given(n)
              /\ given(arg.name) => \A n \in arg.needs : given(n)
  <2>1. Kept(arg, effective)
    BY <1>2, <1>9, <1>12 DEF Conforms
  <2>2. arg.name \in DOMAIN effective /\ says(arg.name) = effective[arg.name]
    BY <1>4, <1>5, <1>12
  <2> HIDE DEF given, says
  <2> QED BY <1>7, <2>1, <2>2 DEF Kept
<1>13. ASSUME NEW group \in ToSet(action.groups)
       PROVE  LET chosen == {m \in group.members : given(m)} IN
              CASE group.kind = "exactly-one"  -> \E m \in group.members : chosen = {m}
                [] group.kind = "at-least-one" -> chosen # {}
                [] group.kind = "at-most-one"  -> \A m, n \in chosen : m = n
  <2>1. GroupKept(group, effective)
    BY <1>2 DEF Conforms
  <2>2. {m \in group.members : given(m)} = {m \in group.members : Given(effective, m)}
    <3> HIDE DEF given
    <3> QED BY <1>7
  <2> HIDE DEF given
  <2> QED BY <2>1, <2>2 DEF GroupKept
<1> QED BY <1>10, <1>11, <1>12, <1>13 DEF Lawful

\* No call the check finds nothing in is kept from its handler -- but by an integer
\* in the name that is not in its plain form, or by an input the check passes over
\* and dispatch does not.  (Space._invoke and _preflight against check of
\* ikigai/check.py, on the pairs the caller gave.)
THEOREM NoneKeptOut ==
  ASSUME NEW action, NEW bindings, NEW variables, Bound(action, bindings, variables),
         NEW pairs \in Pairs,
         Violations(action, FromName(action, bindings) \o pairs) = <<>>,
         \A arg \in ToSet(action.inputs) :
           /\ arg.binding /\ arg.class = "integer" => PlainInteger(bindings[arg.name])
           /\ arg.required \/ action.derived =>
                InPlay(action, JoinRepeats(action, FromName(action, bindings) \o pairs), arg)
  PROVE  Refusals(action, bindings, AsInline(JoinRepeats(action, pairs))) = <<>>
<1>1. PICK texts, effective, proposed, args :
        /\ texts = JoinRepeats(action, pairs)
        /\ effective = Effective(action, bindings, texts)
        /\ proposed = FromName(action, bindings) \o pairs
        /\ args = AsInline(texts)
  OBVIOUS
<1>2. Declarable(action, variables) /\ \A n \in variables : bindings[n] \in Texts
  BY DEF Bound
<1>3. proposed \in Pairs /\ JoinRepeats(action, proposed) = effective
  BY <1>1, Effect
<1>4. Call(action, bindings, variables, NamesIn(pairs), texts)
  <2>1. texts \in [NamesIn(pairs) -> Texts]
    BY <1>1, <1>2, OneValueEach
  <2> QED BY <2>1, PairTyped, FewNames DEF Call
<1>5. /\ DOMAIN args = NamesIn(pairs) /\ \A n \in NamesIn(pairs) : args[n] = <<"Inline", texts[n]>>
      /\ DOMAIN effective = BoundNames(action) \cup NamesIn(pairs)
      /\ \A n \in DOMAIN effective :
           effective[n] \in Texts /\ effective[n] = IF n \in BoundNames(action) THEN bindings[n] ELSE texts[n]
  <2>1. texts \in [NamesIn(pairs) -> Texts]
    BY <1>4 DEF Call
  <2>2. BoundNames(action) \subseteq variables
    BY <1>2, Inputs
  <2> QED BY <1>1, <1>2, <2>1, <2>2 DEF AsInline, Effective
<1>6. Violations(action, proposed) \in Seq(Broken)
      /\ Harmless(Violations(action, proposed)) <=> Conforms(action, effective)
  BY <1>2, <1>3, CheckMeans
<1>7. Violations(action, proposed) = <<>>
  BY <1>1
<1>8. Conforms(action, effective)
  BY <1>6, <1>7, NothingHarmless
<1>9. ASSUME NEW arg \in ToSet(action.inputs)
      PROVE  ReadArgument(action, bindings, args, arg) = <<>>
  <2>1. /\ arg.name \in Texts /\ arg.required \in BOOLEAN /\ arg.binding \in BOOLEAN
        /\ arg.binding <=> arg.name \in BoundNames(action)
        /\ arg.binding => arg.required
        /\ arg.binding \/ action.derived => arg.list = "none"
    BY <1>2, Inputs
  <2>2. /\ arg.binding /\ arg.class = "integer" => PlainInteger(bindings[arg.name])
        /\ arg.required \/ action.derived => InPlay(action, effective, arg)
    BY <1>1, <1>3
  <2>3. InPlay(action, effective, arg) =>
          IF arg.name \notin DOMAIN effective THEN ~arg.required \/ arg.binding
          ELSE \A value \in Lists(effective[arg.name], arg) :
                 (\A values \in arg.oneOf : value \in values) /\ Plausible(arg.class, value)
    <3> SUFFICES ASSUME InPlay(action, effective, arg)
                 PROVE  IF arg.name \notin DOMAIN effective THEN ~arg.required \/ arg.binding
                        ELSE \A value \in Lists(effective[arg.name], arg) :
                               (\A values \in arg.oneOf : value \in values) /\ Plausible(arg.class, value)
      OBVIOUS
    <3>1. PICK repeated : repeated = Repeated(action, proposed)
      OBVIOUS
    <3>2. CheckInput(arg, effective, repeated) = <<>>
      BY <1>2, <1>3, <1>7, <3>1, CheckMeans
    <3>3. arg.name \in DOMAIN effective => effective[arg.name] \in Texts
      BY <1>5
    <3> QED BY <2>1, <3>2, <3>3, InputMeans
  <2>4. ASSUME InPlay(action, effective, arg), arg.list = "none", arg.name \in DOMAIN effective
        PROVE  ~Uncoercible(arg, effective[arg.name])
    <3>1. Lists(effective[arg.name], arg) = {effective[arg.name]}
      BY <2>4 DEF Lists
    <3>2. /\ \A values \in arg.oneOf : effective[arg.name] \in values
          /\ Plausible(arg.class, effective[arg.name])
      BY <2>3, <2>4, <3>1
    <3>3. effective[arg.name] \in Texts
      BY <1>5, <2>4
    <3> QED BY <2>4, <3>2, <3>3, Coerced
  <2>5. CASE arg.binding
    <3>1. arg.name \in DOMAIN effective /\ effective[arg.name] = bindings[arg.name]
      BY <1>5, <2>1, <2>5
    <3>2. InPlay(action, effective, arg) /\ arg.list = "none"
      BY <2>1, <2>2, <2>5
    <3>3. ~BadBinding(arg, bindings[arg.name])
      BY <2>2, <2>4, <2>5, <3>1, <3>2 DEF BadBinding
    <3> QED BY <2>5, <3>3 DEF ReadArgument
  <2>6. CASE ~arg.binding /\ arg.name \in DOMAIN args
    <3>1. /\ args[arg.name] = <<"Inline", texts[arg.name]>>
          /\ arg.name \in DOMAIN effective /\ effective[arg.name] = texts[arg.name]
      BY <1>5, <2>1, <2>6
    <3>2. args[arg.name][1] = "Inline" /\ args[arg.name][2] = texts[arg.name]
      BY <3>1
    <3>3. action.derived => ~Uncoercible(arg, args[arg.name][2])
      BY <2>1, <2>2, <2>4, <3>1, <3>2
    <3> QED BY <2>6, <3>2, <3>3 DEF ReadArgument
  <2>7. CASE ~arg.binding /\ arg.name \notin DOMAIN args
    <3>1. arg.name \notin DOMAIN effective
      BY <1>5, <2>1, <2>7
    <3>2. ~arg.required
      BY <2>2, <2>3, <2>7, <3>1
    <3> QED BY <2>7, <3>2 DEF ReadArgument
  <2> QED BY <2>5, <2>6, <2>7
<1>10. Refusals(action, bindings, args) = <<>>
  BY <1>1, <1>4, <1>8, <1>9, CallRead
<1> QED BY <1>1, <1>10

=============================================================================
