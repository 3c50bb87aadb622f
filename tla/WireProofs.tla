----------------------------- MODULE WireProofs -----------------------------
(***************************************************************************)
(* Theorems on encoding and hashing, for every block: it is decoded to     *)
(* itself, it has a digest, and nothing else has the same one.             *)
(*                                                                         *)
(* All that a decoder or a digest sees of a struct is the set of its       *)
(* entries.  So the proofs are about such sets (TxEntries, BlockEntries):  *)
(* what a set of entries is decoded to, and that the digest determines it. *)
(***************************************************************************)
EXTENDS Wire, BalanceBookProofs, SequenceTheorems
-----------------------------------------------------------------------------
(* Sequences. *)

\* A concatenation has the members of both.
LEMMA ConcatRange ==
  ASSUME NEW S, NEW s \in Seq(S), NEW t \in Seq(S)
  PROVE  s \o t \in Seq(S) /\ Range(s \o t) = Range(s) \cup Range(t)
<1>1. /\ s \o t \in Seq(S) /\ Len(s \o t) = Len(s) + Len(t)
      /\ \A i \in 1 .. Len(s) + Len(t) : (s \o t)[i] = IF i <= Len(s) THEN s[i] ELSE t[i - Len(s)]
  BY ConcatProperties
<1>2. /\ Len(s) \in Nat /\ Len(t) \in Nat
      /\ DOMAIN s = 1 .. Len(s) /\ DOMAIN t = 1 .. Len(t)
      /\ DOMAIN (s \o t) = 1 .. Len(s) + Len(t)
  BY <1>1, LenProperties
<1> DEFINE u == s \o t
<1> HIDE DEF u
<1>3. ASSUME NEW x \in Range(u) PROVE x \in Range(s) \cup Range(t)
  <2>1. PICK i \in 1 .. Len(s) + Len(t) : x = u[i]
    BY <1>2 DEF Range, u
  <2>2. CASE i <= Len(s)
    <3>1. i \in 1 .. Len(s) /\ x = s[i]
      BY <1>1, <1>2, <2>1, <2>2 DEF u
    <3> QED BY <1>2, <3>1 DEF Range
  <2>3. CASE i > Len(s)
    <3>1. i - Len(s) \in 1 .. Len(t) /\ x = t[i - Len(s)]
      BY <1>1, <1>2, <2>1, <2>3 DEF u
    <3> QED BY <1>2, <3>1 DEF Range
  <2> QED BY <1>2, <2>1, <2>2, <2>3
<1>4. ASSUME NEW x \in Range(s) PROVE x \in Range(u)
  <2>1. PICK i \in 1 .. Len(s) : x = s[i]
    BY <1>2 DEF Range
  <2>2. i \in 1 .. Len(s) + Len(t) /\ u[i] = x
    BY <1>1, <1>2, <2>1 DEF u
  <2> QED BY <1>2, <2>2 DEF Range, u
<1>5. ASSUME NEW x \in Range(t) PROVE x \in Range(u)
  <2>1. PICK i \in 1 .. Len(t) : x = t[i]
    BY <1>2 DEF Range
  <2> DEFINE j == Len(s) + i
  <2>2. j \in 1 .. Len(s) + Len(t) /\ ~ (j <= Len(s)) /\ j - Len(s) = i
    BY <1>2, <2>1
  <2> HIDE DEF j
  <2>3. u[j] = x
    BY <1>1, <2>1, <2>2 DEF u
  <2> QED BY <1>2, <2>2, <2>3 DEF Range, u
<1>6. Range(u) = Range(s) \cup Range(t)
  BY <1>3, <1>4, <1>5
<1> QED BY <1>1, <1>6 DEF u

\* A sequence with a first member.
LEMMA ConsFacts ==
  ASSUME NEW S, NEW x \in S, NEW s \in Seq(S)
  PROVE  /\ <<x>> \o s \in Seq(S) /\ Len(<<x>> \o s) = Len(s) + 1
         /\ (<<x>> \o s)[1] = x
         /\ \A i \in 1 .. Len(s) : (<<x>> \o s)[i + 1] = s[i]
<1> DEFINE e == <<x>>
<1>1. e \in Seq(S) /\ Len(e) = 1 /\ e[1] = x
  OBVIOUS
<1> HIDE DEF e
<1>2. /\ e \o s \in Seq(S) /\ Len(e \o s) = Len(e) + Len(s)
      /\ \A i \in 1 .. Len(e) + Len(s) : (e \o s)[i] = IF i <= Len(e) THEN e[i] ELSE s[i - Len(e)]
  BY <1>1, ConcatProperties
<1>3. Len(s) \in Nat
  BY LenProperties
<1>4. (e \o s)[1] = x
  BY <1>1, <1>2, <1>3
<1>5. ASSUME NEW i \in 1 .. Len(s) PROVE (e \o s)[i + 1] = s[i]
  <2> DEFINE k == i + 1
  <2>1. k \in 1 .. Len(e) + Len(s) /\ ~ (k <= Len(e)) /\ k - Len(e) = i
    BY <1>1, <1>3
  <2> HIDE DEF k
  <2>2. (e \o s)[k] = s[i]
    BY <1>2, <2>1
  <2> QED BY <2>2 DEF k
<1> QED BY <1>1, <1>2, <1>3, <1>4, <1>5 DEF e

LEMMA ConsInjective ==
  ASSUME NEW S, NEW x \in S, NEW y \in S, NEW s \in Seq(S), NEW t \in Seq(S),
         <<x>> \o s = <<y>> \o t
  PROVE  x = y /\ s = t
<1> DEFINE u == <<x>> \o s
           v == <<y>> \o t
<1>1. /\ Len(u) = Len(s) + 1 /\ u[1] = x /\ \A i \in 1 .. Len(s) : u[i + 1] = s[i]
      /\ Len(v) = Len(t) + 1 /\ v[1] = y /\ \A i \in 1 .. Len(t) : v[i + 1] = t[i]
  BY ConsFacts
<1>2. u = v
  OBVIOUS
<1> HIDE DEF u, v
<1>3. Len(s) \in Nat /\ Len(t) \in Nat
  BY LenProperties
<1>4. x = y /\ Len(s) = Len(t)
  BY <1>1, <1>2, <1>3
<1>5. \A i \in 1 .. Len(s) : s[i] = t[i]
  BY <1>1, <1>2, <1>4
<1>6. s = t
  BY <1>4, <1>5, SeqEqual
<1> QED BY <1>4, <1>6

\* The members of a set, in some order.
LEMMA SetToSeqFacts ==
  ASSUME NEW S, IsFiniteSet(S)
  PROVE  /\ SetToSeq(S) \in Seq(S)
         /\ Len(SetToSeq(S)) = Cardinality(S)
         /\ Range(SetToSeq(S)) = S
<1> DEFINE n == Cardinality(S)
           q == SetToSeq(S)
<1>1. n \in Nat /\ ExistsBijection(1 .. n, S)
  BY FS_CardinalityType
<1>2. PICK b : b \in Bijection(1 .. n, S)
  BY <1>1 DEF ExistsBijection
<1>3. b \in [1 .. n -> S] /\ IsInjective(b)
  BY <1>2 DEF Bijection, Injection, IsInjective
<1>4. q \in [1 .. n -> S] /\ IsInjective(q)
  BY <1>3 DEF SetToSeq
<1> HIDE DEF n, q
<1>5. q \in Injection(1 .. n, S)
  BY <1>4 DEF Injection, IsInjective
<1>6. IsFiniteSet(1 .. n) /\ Cardinality(1 .. n) = n
  BY <1>1, FS_Interval
<1>7. q \in Surjection(1 .. n, S)
  BY <1>5, <1>6, FS_Injection DEF n
<1>8. Range(q) = S
  BY <1>4, <1>7 DEF Surjection, Range
<1>9. q \in Seq(S) /\ Len(q) = n
  BY <1>1, <1>4
<1> QED BY <1>8, <1>9 DEF n, q

\* A sequence of pairs.
PairSeq(pairs) ==
  /\ Len(pairs) \in Nat
  /\ pairs = [i \in 1 .. Len(pairs) |-> <<pairs[i][1], pairs[i][2]>>]

\* The n first pairs, one component after the other.
Flat(pairs, n) == [j \in 1 .. 2 * n |-> IF j % 2 = 1 THEN pairs[(j + 1) \div 2][1] ELSE pairs[j \div 2][2]]

\* What may be in such a sequence, in either place.
Parts(pairs) == {pairs[i][1] : i \in 1 .. Len(pairs)} \cup {pairs[i][2] : i \in 1 .. Len(pairs)}

\* Where the components of a pair are.
LEMMA FlatPlaces ==
  ASSUME NEW pairs, NEW n \in Nat, NEW i \in 1 .. n
  PROVE  /\ 2 * i - 1 \in 1 .. 2 * n /\ 2 * i \in 1 .. 2 * n
         /\ Flat(pairs, n)[2 * i - 1] = pairs[i][1]
         /\ Flat(pairs, n)[2 * i] = pairs[i][2]
<1>1. /\ 2 * i - 1 \in 1 .. 2 * n /\ 2 * i \in 1 .. 2 * n
      /\ (2 * i - 1) % 2 = 1 /\ (2 * i) % 2 = 0
      /\ (2 * i - 1 + 1) \div 2 = i /\ (2 * i) \div 2 = i
  OBVIOUS
<1> QED BY <1>1 DEF Flat

\* Every place is one of these.
LEMMA FlatCovered ==
  ASSUME NEW n \in Nat, NEW j \in 1 .. 2 * n
  PROVE  \E i \in 1 .. n : j = 2 * i - 1 \/ j = 2 * i
<1>1. CASE j % 2 = 1
  <2>1. (j + 1) \div 2 \in 1 .. n /\ j = 2 * ((j + 1) \div 2) - 1
    BY <1>1
  <2> QED BY <2>1
<1>2. CASE j % 2 = 0
  <2>1. j \div 2 \in 1 .. n /\ j = 2 * (j \div 2)
    BY <1>2
  <2> QED BY <2>1
<1> QED BY <1>1, <1>2

\* The first n pairs are a sequence of their components.
LEMMA FlatFacts ==
  ASSUME NEW pairs, PairSeq(pairs), NEW n \in 0 .. Len(pairs)
  PROVE  /\ Flat(pairs, n) \in Seq(Parts(pairs))
         /\ Len(Flat(pairs, n)) = 2 * n
<1>1. n \in Nat /\ Len(pairs) \in Nat
  BY DEF PairSeq
<1> DEFINE q == Flat(pairs, n)
           P == Parts(pairs)
<1>2. ASSUME NEW j \in 1 .. 2 * n PROVE q[j] \in P
  <2>1. PICK i \in 1 .. n : j = 2 * i - 1 \/ j = 2 * i
    BY <1>1, FlatCovered
  <2>2. q[j] = pairs[i][1] \/ q[j] = pairs[i][2]
    BY <1>1, <2>1, FlatPlaces
  <2>3. i \in 1 .. Len(pairs)
    BY <1>1
  <2> HIDE DEF q
  <2> QED BY <2>2, <2>3 DEF Parts
<1>3. DOMAIN q = 1 .. 2 * n /\ q = [j \in 1 .. 2 * n |-> q[j]]
  BY DEF Flat
<1> HIDE DEF q, P
<1>4. q \in [1 .. 2 * n -> P]
  BY <1>2, <1>3
<1>5. q \in Seq(P) /\ Len(q) = 2 * n
  BY <1>1, <1>4
<1> QED BY <1>5 DEF q, P

\* One pair more.
LEMMA FlatGrows ==
  ASSUME NEW pairs, PairSeq(pairs), NEW n \in Nat, n + 1 <= Len(pairs)
  PROVE  /\ Flat(pairs, n) \o pairs[n + 1] = Flat(pairs, n + 1)
         /\ Flat(pairs, 1) = pairs[1]
<1> DEFINE P == Parts(pairs)
           p == pairs[n + 1]
           q == Flat(pairs, n)
           r == Flat(pairs, n + 1)
<1>1. Len(pairs) \in Nat /\ n \in 0 .. Len(pairs) /\ n + 1 \in 1 .. Len(pairs)
      /\ n + 1 \in 0 .. Len(pairs) /\ 1 \in 1 .. Len(pairs) /\ 1 \in 0 .. Len(pairs)
  BY DEF PairSeq
<1>2. \A i \in 1 .. Len(pairs) : /\ pairs[i] = <<pairs[i][1], pairs[i][2]>>
                                 /\ pairs[i][1] \in P /\ pairs[i][2] \in P
  BY DEF PairSeq, Parts
<1>3. /\ q \in Seq(P) /\ Len(q) = 2 * n
      /\ r \in Seq(P) /\ Len(r) = 2 * n + 2
      /\ Flat(pairs, 1) \in Seq(P) /\ Len(Flat(pairs, 1)) = 2
  <2>1. 2 * (n + 1) = 2 * n + 2 /\ 2 * 1 = 2
    OBVIOUS
  <2>2. q \in Seq(P) /\ Len(q) = 2 * n
    BY <1>1, FlatFacts
  <2>3. r \in Seq(P) /\ Len(r) = 2 * (n + 1)
    BY <1>1, FlatFacts
  <2>4. Flat(pairs, 1) \in Seq(P) /\ Len(Flat(pairs, 1)) = 2 * 1
    BY <1>1, FlatFacts
  <2> QED BY <2>1, <2>2, <2>3, <2>4
<1>4. \A i \in 1 .. n : /\ q[2 * i - 1] = pairs[i][1] /\ q[2 * i] = pairs[i][2]
                        /\ r[2 * i - 1] = pairs[i][1] /\ r[2 * i] = pairs[i][2]
  <2> TAKE i \in 1 .. n
  <2>1. i \in 1 .. n + 1 /\ n + 1 \in Nat
    OBVIOUS
  <2> QED BY <2>1, FlatPlaces
<1>5. r[2 * n + 1] = p[1] /\ r[2 * n + 2] = p[2]
  <2>1. n + 1 \in 1 .. n + 1 /\ n + 1 \in Nat /\ 2 * (n + 1) - 1 = 2 * n + 1 /\ 2 * (n + 1) = 2 * n + 2
    OBVIOUS
  <2> QED BY <2>1, FlatPlaces
<1>6. p = <<p[1], p[2]>> /\ p \in Seq(P) /\ Len(p) = 2
  <2> DEFINE x == p[1]
             y == p[2]
  <2>1. p = <<x, y>> /\ x \in P /\ y \in P
    BY <1>1, <1>2
  <2> HIDE DEF p, x, y, P
  <2>2. <<x, y>> \in Seq(P) /\ Len(<<x, y>>) = 2
    BY <2>1
  <2> QED BY <2>1, <2>2 DEF x, y
<1>7. q \o p = r
  <2> HIDE DEF p, q, r, P
  <2>1. /\ q \o p \in Seq(P) /\ Len(q \o p) = 2 * n + 2
        /\ \A j \in 1 .. 2 * n + 2 : (q \o p)[j] = IF j <= 2 * n THEN q[j] ELSE p[j - 2 * n]
    <3>1. /\ q \o p \in Seq(P) /\ Len(q \o p) = Len(q) + Len(p)
          /\ \A j \in 1 .. Len(q) + Len(p) : (q \o p)[j] = IF j <= Len(q) THEN q[j] ELSE p[j - Len(q)]
      <4>1. q \in Seq(P) /\ p \in Seq(P)
        BY <1>3, <1>6
      <4> QED BY <4>1, ConcatProperties
    <3> QED BY <1>3, <1>6, <3>1
  <2> DEFINE u == q \o p
  <2> HIDE DEF u
  <2>2. ASSUME NEW j \in 1 .. 2 * n + 2 PROVE u[j] = r[j]
    <3>1. CASE j <= 2 * n
      <4>0. j \in 1 .. 2 * n
        BY <3>1
      <4>1. PICK i \in 1 .. n : j = 2 * i - 1 \/ j = 2 * i
        BY <4>0, FlatCovered
      <4>2. q[j] = r[j]
        BY <1>4, <4>1
      <4> QED BY <2>1, <3>1, <4>2 DEF u
    <3>2. CASE j = 2 * n + 1
      <4>1. ~ (j <= 2 * n) /\ j - 2 * n = 1
        BY <3>2
      <4> QED BY <1>5, <2>1, <3>2, <4>1 DEF u
    <3>3. CASE j = 2 * n + 2
      <4>1. ~ (j <= 2 * n) /\ j - 2 * n = 2
        BY <3>3
      <4> QED BY <1>5, <2>1, <3>3, <4>1 DEF u
    <3> QED BY <3>1, <3>2, <3>3
  <2>3. u = r
    BY <1>3, <2>1, <2>2, SeqEqual DEF u
  <2> QED BY <2>3 DEF u
<1>8. Flat(pairs, 1) = pairs[1]
  <2> DEFINE a == Flat(pairs, 1)
             b == pairs[1]
  <2>1. a[1] = b[1] /\ a[2] = b[2]
    <3>1. 2 * 1 - 1 = 1 /\ 2 * 1 = 2 /\ 1 \in Nat /\ 1 \in 1 .. 1
      OBVIOUS
    <3> QED BY <3>1, FlatPlaces
  <2>2. b = <<b[1], b[2]>> /\ b[1] \in P /\ b[2] \in P
    BY <1>1, <1>2
  <2> HIDE DEF a, b, P
  <2>3. b \in Seq(P) /\ Len(b) = 2
    BY <2>2
  <2>4. a \in Seq(P) /\ Len(a) = 2
    BY <1>3 DEF a
  <2>5. \A i \in 1 .. Len(a) : a[i] = b[i]
    BY <2>1, <2>4
  <2>6. a = b
    BY <2>3, <2>4, <2>5, SeqEqual
  <2> QED BY <2>6 DEF a, b
<1> QED BY <1>7, <1>8

\* The function that FlattenSeq recurses through.
FlattenRun(pairs, f) ==
  f = [i \in 1 .. Len(pairs) |-> IF i = 1 THEN pairs[i] ELSE f[i - 1] \o pairs[i]]

LEMMA FlattenIsRun ==
  ASSUME NEW pairs, Len(pairs) # 0
  PROVE  FlattenSeq(pairs) = (CHOOSE f : FlattenRun(pairs, f))[Len(pairs)]
BY DEF FlattenSeq, FlattenRun

\* FlattenSeq of pairs is what it should be.
LEMMA FlattenPairs ==
  ASSUME NEW pairs, PairSeq(pairs)
  PROVE  FlattenSeq(pairs) = Flat(pairs, Len(pairs))
<1> DEFINE n == Len(pairs)
           g == [i \in 1 .. n |-> Flat(pairs, i)]
           h == CHOOSE f : FlattenRun(pairs, f)
<1>1. n \in Nat
  BY DEF PairSeq
<1>2. CASE n = 0
  <2>1. FlattenSeq(pairs) = pairs
    BY <1>2 DEF FlattenSeq
  <2>2. pairs = [i \in 1 .. 0 |-> <<pairs[i][1], pairs[i][2]>>]
    BY <1>2 DEF PairSeq
  <2>3. Flat(pairs, n) = [j \in 1 .. 0 |-> IF j % 2 = 1 THEN pairs[(j + 1) \div 2][1] ELSE pairs[j \div 2][2]]
    BY <1>2 DEF Flat
  <2>4. 1 .. 0 = {}
    OBVIOUS
  <2>5. \A f, e : (f = [i \in {} |-> f[i]] /\ e = [i \in {} |-> e[i]]) => f = e
    OBVIOUS
  <2>6. pairs = [i \in {} |-> pairs[i]]
    BY <2>2, <2>4
  <2>7. Flat(pairs, n) = [i \in {} |-> Flat(pairs, n)[i]]
    BY <2>3, <2>4
  <2>8. pairs = Flat(pairs, n)
    BY <2>5, <2>6, <2>7
  <2> QED BY <2>1, <2>8
<1>3. CASE n # 0
  <2>1. \A i \in 1 .. n : i # 1 => g[i] = g[i - 1] \o pairs[i]
    <3> TAKE i \in 1 .. n
    <3> HAVE i # 1
    <3>1. i - 1 \in Nat /\ i - 1 + 1 = i /\ i <= n /\ i - 1 \in 1 .. n
      BY <1>1
    <3>2. Flat(pairs, i - 1) \o pairs[i] = Flat(pairs, i)
      BY <3>1, FlatGrows
    <3> QED BY <3>1, <3>2
  <2>2. g[1] = pairs[1]
    <3>1. 0 \in Nat /\ 0 + 1 <= n /\ 1 \in 1 .. n
      BY <1>1, <1>3
    <3> QED BY <3>1, FlatGrows
  <2>3. \A i \in 1 .. n : g[i] = IF i = 1 THEN pairs[i] ELSE g[i - 1] \o pairs[i]
    BY <2>1, <2>2
  <2>4. g = [i \in 1 .. n |-> IF i = 1 THEN pairs[i] ELSE g[i - 1] \o pairs[i]]
    BY <2>3
  <2>5. FlattenRun(pairs, h)
    <3> HIDE DEF g
    <3> QED BY <2>4 DEF FlattenRun
  <2> HIDE DEF h
  <2>6. \A i \in 1 .. n : h[i] = IF i = 1 THEN pairs[i] ELSE h[i - 1] \o pairs[i]
    BY <2>5 DEF FlattenRun
  <2> DEFINE Good == {m \in 0 .. n : m = 0 \/ h[m] = Flat(pairs, m)}
  <2>7. 0 \in Good
    BY <1>1
  <2>8. ASSUME NEW m \in 0 .. n, m \in Good, m + 1 <= n PROVE m + 1 \in Good
    <3>1. m + 1 \in 1 .. n /\ m \in Nat /\ m + 1 - 1 = m
      BY <1>1, <2>8
    <3>2. Flat(pairs, m) \o pairs[m + 1] = Flat(pairs, m + 1) /\ Flat(pairs, 1) = pairs[1]
      BY <2>8, <3>1, FlatGrows
    <3>3. CASE m = 0
      BY <2>6, <3>1, <3>2, <3>3
    <3>4. CASE m # 0
      <4>1. h[m] = Flat(pairs, m)
        BY <2>8, <3>4
      <4>2. h[m + 1] = h[m] \o pairs[m + 1]
        <5> DEFINE k == m + 1
        <5>1. k \in 1 .. n /\ k # 1 /\ k - 1 = m
          BY <1>1, <2>8, <3>4
        <5> HIDE DEF k
        <5>2. h[k] = h[k - 1] \o pairs[k]
          BY <2>6, <5>1
        <5> QED BY <5>1, <5>2 DEF k
      <4>3. h[m + 1] = Flat(pairs, m + 1)
        BY <3>2, <4>1, <4>2
      <4>4. m + 1 \in 0 .. n
        BY <3>1
      <4> HIDE DEF g, n
      <4> QED BY <4>3, <4>4
    <3> QED BY <3>3, <3>4
  <2>9. Good \in SUBSET (0 .. n)
    OBVIOUS
  <2> HIDE DEF Good
  <2>10. Good = 0 .. n
    BY <1>1, <2>7, <2>8, <2>9, UpToInduction
  <2>11. h[n] = Flat(pairs, n)
    BY <1>1, <1>3, <2>10 DEF Good
  <2> QED BY <1>3, <2>11, FlattenIsRun DEF h
<1> QED BY <1>2, <1>3

-----------------------------------------------------------------------------
(* Digests of maps. *)

\* What is hashed of a set of pairs.
Spread(P) == FlattenSeq(SetToSeq(P))

\* A set of pairs.
PairSet(P) == IsFiniteSet(P) /\ \A p \in P : p = <<p[1], p[2]>>

\* The set can be told from it.
LEMMA SpreadInjective ==
  ASSUME NEW P, NEW Q, PairSet(P), PairSet(Q), Spread(P) = Spread(Q)
  PROVE  P = Q
<1> DEFINE s == SetToSeq(P)
           t == SetToSeq(Q)
<1>1. s \in Seq(P) /\ Range(s) = P /\ t \in Seq(Q) /\ Range(t) = Q
  BY SetToSeqFacts DEF PairSet
<1>2. Len(s) \in Nat /\ DOMAIN s = 1 .. Len(s) /\ Len(t) \in Nat /\ DOMAIN t = 1 .. Len(t)
  BY <1>1, LenProperties
<1>3. PairSeq(s) /\ PairSeq(t)
  <2> HIDE DEF s, t
  <2>1. \A i \in 1 .. Len(s) : s[i] = <<s[i][1], s[i][2]>>
    BY <1>1, ElementOfSeq DEF PairSet
  <2>2. \A i \in 1 .. Len(t) : t[i] = <<t[i][1], t[i][2]>>
    BY <1>1, ElementOfSeq DEF PairSet
  <2>3. s = [i \in 1 .. Len(s) |-> s[i]] /\ t = [i \in 1 .. Len(t) |-> t[i]]
    BY <1>1, <1>2
  <2> QED BY <1>2, <2>1, <2>2, <2>3 DEF PairSeq
<1>4. Flat(s, Len(s)) = Flat(t, Len(t))
  BY <1>3, FlattenPairs DEF Spread
<1>5. Len(s) = Len(t)
  <2>1. Len(Flat(s, Len(s))) = 2 * Len(s) /\ Len(Flat(t, Len(t))) = 2 * Len(t)
    <3>1. Len(s) \in 0 .. Len(s) /\ Len(t) \in 0 .. Len(t)
      BY <1>2
    <3> HIDE DEF s, t
    <3> QED BY <1>3, <3>1, FlatFacts
  <2>2. Len(Flat(s, Len(s))) = Len(Flat(t, Len(t)))
    BY <1>4
  <2> DEFINE m == Len(s)
             k == Len(t)
  <2>3. m \in Nat /\ k \in Nat /\ 2 * m = 2 * k
    BY <1>2, <2>1, <2>2
  <2> HIDE DEF m, k
  <2>4. m = k
    BY <2>3
  <2> QED BY <2>4 DEF m, k
<1>6. ASSUME NEW i \in 1 .. Len(s) PROVE s[i] = t[i]
  <2>1. /\ Flat(s, Len(s))[2 * i - 1] = s[i][1] /\ Flat(s, Len(s))[2 * i] = s[i][2]
        /\ Flat(t, Len(t))[2 * i - 1] = t[i][1] /\ Flat(t, Len(t))[2 * i] = t[i][2]
    BY <1>2, <1>5, FlatPlaces
  <2>2. s[i][1] = t[i][1] /\ s[i][2] = t[i][2]
    BY <1>4, <2>1
  <2>3. s[i] = <<s[i][1], s[i][2]>> /\ t[i] = <<t[i][1], t[i][2]>>
    BY <1>3, <1>5 DEF PairSeq
  <2> HIDE DEF s, t
  <2> QED BY <2>2, <2>3
<1>7. Range(s) = Range(t)
  <2> HIDE DEF s, t
  <2> QED BY <1>2, <1>5, <1>6 DEF Range
<1> QED BY <1>1, <1>7

\* A sequence of pairs without Undefined in them.
DefinedPairs(pairs) ==
  /\ PairSeq(pairs)
  /\ \A i \in 1 .. Len(pairs) : pairs[i][1] # Undefined /\ pairs[i][2] # Undefined

\* Of such a sequence the digest sees the set of its pairs.
LEMMA MapHashFacts ==
  ASSUME NEW pairs, DefinedPairs(pairs)
  PROVE  /\ Collected(FlattenSeq(pairs), map_hash(pairs)) = sha256(Spread(Range(pairs)))
         /\ PairSet(Range(pairs))
<1> DEFINE q == Flat(pairs, Len(pairs))
<1>1. PairSeq(pairs) /\ Len(pairs) \in Nat /\ Len(pairs) \in 0 .. Len(pairs)
  BY DEF DefinedPairs, PairSeq
<1>2. FlattenSeq(pairs) = q
  BY <1>1, FlattenPairs
<1>3. q \in Seq(Parts(pairs))
  BY <1>1, FlatFacts
<1>4. Range(q) \in SUBSET Parts(pairs)
  BY <1>3, RangeOfSeq
<1>5. Undefined \notin Parts(pairs)
  BY DEF DefinedPairs, Parts
<1>6. Undefined \notin Range(FlattenSeq(pairs))
  BY <1>2, <1>4, <1>5
<1>7. Collected(FlattenSeq(pairs), map_hash(pairs)) = sha256(Spread(Range(pairs)))
  BY <1>6 DEF Collected, map_hash, Spread
<1>8. DOMAIN pairs = 1 .. Len(pairs) /\ \A i \in 1 .. Len(pairs) : pairs[i] = <<pairs[i][1], pairs[i][2]>>
  BY <1>1 DEF PairSeq
<1>9. \A p \in Range(pairs) : p = <<p[1], p[2]>>
  <2> TAKE p \in Range(pairs)
  <2>1. PICK i \in 1 .. Len(pairs) : p = pairs[i]
    BY <1>8 DEF Range
  <2>2. pairs[i] = <<pairs[i][1], pairs[i][2]>>
    BY <1>8
  <2> QED BY <2>1, <2>2
<1>10. IsFiniteSet(Range(pairs))
  <2> DEFINE f == [i \in 1 .. Len(pairs) |-> pairs[i]]
  <2>1. IsFiniteSet(1 .. Len(pairs))
    BY <1>1, FS_Interval
  <2>2. IsFiniteSet({pairs[i] : i \in 1 .. Len(pairs)})
    <3>1. f \in Surjection(1 .. Len(pairs), {pairs[i] : i \in 1 .. Len(pairs)})
      BY DEF Surjection
    <3> QED BY <2>1, <3>1, FS_Surjection
  <2> QED BY <1>8, <2>2 DEF Range
<1> QED BY <1>7, <1>9, <1>10 DEF PairSet
-----------------------------------------------------------------------------
(* LEB128. *)

\* A number without its lowest digit is smaller, and the two make up the number.
LEMMA DigitFacts ==
  ASSUME NEW n \in Nat
  PROVE  /\ n \div Radix \in Nat /\ n % Radix \in 0 .. Radix - 1
         /\ n = Radix * (n \div Radix) + (n % Radix)
         /\ n >= Radix => n \div Radix < n
<1>1. Radix \in Nat /\ Radix >= 2
  BY WireAssumption
<1>2. n \div Radix \in Nat /\ n % Radix \in 0 .. Radix - 1 /\ n = Radix * (n \div Radix) + (n % Radix)
  BY <1>1
<1>3. ASSUME n >= Radix PROVE n \div Radix < n
  <2> DEFINE d == n \div Radix
             r == n % Radix
  <2>1. d \in Nat /\ r \in Nat /\ n = Radix * d + r
    BY <1>1, <1>2
  <2> HIDE DEF d, r
  <2>2. \A x, y, z \in Nat : x >= 2 /\ y >= 1 => x * y >= 2 * y /\ x * y \in Nat
    BY SMT
  <2>3. CASE d = 0
    BY <1>1, <1>3, <2>3 DEF d
  <2>4. CASE d # 0
    <3>1. Radix * d >= 2 * d /\ Radix * d \in Nat
      BY <1>1, <2>1, <2>2, <2>4
    <3> DEFINE p == Radix * d
    <3> HIDE DEF p
    <3>2. p >= 2 * d /\ p \in Nat /\ n = p + r
      BY <2>1, <3>1 DEF p
    <3>3. d < n
      BY <2>1, <2>4, <3>2
    <3> QED BY <3>3 DEF d
  <2> QED BY <2>3, <2>4
<1> QED BY <1>2, <1>3

\* The digits of n, given those of n without the lowest.
Digits(n, rest) ==
  IF n < Radix THEN <<[byte |-> n]>> ELSE <<[byte |-> (n % Radix) + Radix]>> \o rest

\* The recursion of leb128, for numbers up to m.
LebTo(m, f) == f = [n \in 0 .. m |-> Digits(n, f[n \div Radix])]

\* For what both cover, two of them agree.
LEMMA LebAgree ==
  ASSUME NEW m \in Nat, NEW k \in Nat, NEW f, NEW g, LebTo(m, f), LebTo(k, g),
         NEW i \in Nat, i <= m, i <= k
  PROVE  f[i] = g[i]
<1> DEFINE Good == {l \in 0 .. i : \A x \in 0 .. l : f[x] = g[x]}
<1>1. \A x \in 0 .. i : f[x] = Digits(x, f[x \div Radix]) /\ g[x] = Digits(x, g[x \div Radix])
  <2>1. \A x \in 0 .. i : x \in 0 .. m /\ x \in 0 .. k
    OBVIOUS
  <2> QED BY <2>1 DEF LebTo
<1>2. ASSUME NEW x \in 0 .. i, \A y \in 0 .. i : y < x => f[y] = g[y]
      PROVE  f[x] = g[x]
  <2>1. CASE x < Radix
    BY <1>1, <2>1 DEF Digits
  <2>2. CASE ~ (x < Radix)
    <3>1. x \div Radix \in 0 .. i /\ x \div Radix < x
      <4>1. x \in Nat /\ x >= Radix
        BY <2>2, WireAssumption
      <4> QED BY <4>1, DigitFacts
    <3>2. f[x \div Radix] = g[x \div Radix]
      BY <1>2, <3>1
    <3> QED BY <1>1, <3>2
  <2> QED BY <2>1, <2>2
<1>3. 0 \in Good
  <2>1. f[0] = g[0]
    BY <1>2
  <2> QED BY <2>1
<1>4. ASSUME NEW l \in 0 .. i, l \in Good, l + 1 <= i PROVE l + 1 \in Good
  <2>1. \A x \in 0 .. l : f[x] = g[x]
    BY <1>4
  <2>2. f[l + 1] = g[l + 1]
    <3>1. l + 1 \in 0 .. i /\ \A y \in 0 .. i : y < l + 1 => y \in 0 .. l
      BY <1>4
    <3> QED BY <1>2, <2>1, <3>1
  <2>3. \A x \in 0 .. l + 1 : x \in 0 .. l \/ x = l + 1
    OBVIOUS
  <2> QED BY <1>4, <2>1, <2>2, <2>3
<1>5. Good \in SUBSET (0 .. i)
  OBVIOUS
<1> HIDE DEF Good
<1>6. Good = 0 .. i
  BY <1>3, <1>4, <1>5, UpToInduction
<1> QED BY <1>6 DEF Good

\* There is one for every m.
LEMMA LebExists ==
  ASSUME NEW m \in Nat
  PROVE  \E f : LebTo(m, f)
<1> DEFINE Good == {l \in 0 .. m : \E f : LebTo(l, f)}
<1>1. 0 \in Good
  <2> DEFINE f == [n \in 0 .. 0 |-> Digits(n, << >>)]
  <2>1. \A n \in 0 .. 0 : Digits(n, << >>) = Digits(n, f[n \div Radix])
    BY WireAssumption DEF Digits
  <2>2. LebTo(0, f)
    BY <2>1 DEF LebTo
  <2> HIDE DEF f
  <2> QED BY <2>2
<1>2. ASSUME NEW l \in 0 .. m, l \in Good, l + 1 <= m PROVE l + 1 \in Good
  <2>1. PICK f : LebTo(l, f)
    BY <1>2
  <2> DEFINE g == [n \in 0 .. l + 1 |-> IF n <= l THEN f[n] ELSE Digits(n, f[n \div Radix])]
  <2>2. ASSUME NEW n \in 0 .. l + 1
        PROVE  g[n] = Digits(n, f[n \div Radix])
    <3>1. n <= l => n \in 0 .. l
      OBVIOUS
    <3> QED BY <2>1, <3>1 DEF LebTo
  <2>3. ASSUME NEW n \in 0 .. l + 1
        PROVE  Digits(n, f[n \div Radix]) = Digits(n, g[n \div Radix])
    <3>1. CASE n < Radix
      BY <3>1 DEF Digits
    <3>2. CASE ~ (n < Radix)
      <4>1. n \in Nat /\ n >= Radix
        BY <3>2, WireAssumption
      <4>2. n \div Radix \in Nat /\ n \div Radix < n
        BY <4>1, DigitFacts
      <4>3. n \div Radix \in 0 .. l + 1 /\ n \div Radix <= l
        BY <4>2
      <4>4. f[n \div Radix] = g[n \div Radix]
        BY <4>3
      <4> QED BY <4>4
    <3> QED BY <3>1, <3>2
  <2>4. g = [n \in 0 .. l + 1 |-> g[n]]
    OBVIOUS
  <2> HIDE DEF g
  <2>5. \A n \in 0 .. l + 1 : g[n] = Digits(n, g[n \div Radix])
    BY <2>2, <2>3
  <2>6. LebTo(l + 1, g)
    BY <2>4, <2>5 DEF LebTo
  <2> QED BY <1>2, <2>6
<1>3. Good \in SUBSET (0 .. m)
  OBVIOUS
<1> HIDE DEF Good
<1>4. Good = 0 .. m
  BY <1>1, <1>2, <1>3, UpToInduction
<1> QED BY <1>4 DEF Good

\* leb128 is what its definition says.
LEMMA Leb128Digits ==
  ASSUME NEW n \in Nat
  PROVE  leb128[n] = Digits(n, leb128[n \div Radix])
<1> DEFINE Leb(f) == f = [i \in Nat |-> Digits(i, f[i \div Radix])]
           upto(m) == CHOOSE f : LebTo(m, f)
           g == [i \in Nat |-> upto(i)[i]]
<1>1. \A m \in Nat : LebTo(m, upto(m))
  BY LebExists
<1> HIDE DEF upto
<1>2. ASSUME NEW i \in Nat PROVE g[i] = Digits(i, g[i \div Radix])
  <2>1. g[i] = Digits(i, upto(i)[i \div Radix])
    <3>1. i \in 0 .. i
      OBVIOUS
    <3> QED BY <1>1, <3>1 DEF LebTo
  <2>2. CASE i < Radix
    BY <2>1, <2>2 DEF Digits
  <2>3. CASE ~ (i < Radix)
    <3> DEFINE j == i \div Radix
    <3>0. i >= Radix
      BY <2>3, WireAssumption
    <3>1. j \in Nat /\ j < i
      BY <3>0, DigitFacts
    <3> HIDE DEF j
    <3>4. j <= i /\ j <= j
      BY <3>1
    <3>2. upto(i)[j] = upto(j)[j]
      BY <1>1, <3>1, <3>4, LebAgree
    <3>3. g[j] = upto(j)[j]
      BY <3>1
    <3> QED BY <2>1, <3>2, <3>3 DEF j
  <2> QED BY <2>2, <2>3
<1>3. g = [i \in Nat |-> Digits(i, g[i \div Radix])]
  BY <1>2
<1>4. Leb(g)
  BY <1>3
<1> HIDE DEF g
<1>5. leb128 = CHOOSE f : Leb(f)
  BY DEF leb128, Digits
<1>6. Leb(leb128)
  <2> HIDE DEF Leb
  <2> QED BY <1>4, <1>5
<1> QED BY <1>6

\* What it returns is a string of bytes, of more than one for numbers of several digits.
LEMMA Leb128Type ==
  ASSUME NEW n \in Nat
  PROVE  /\ leb128[n] \in ByteString
         /\ n < Radix => leb128[n] = <<[byte |-> n]>> /\ Len(leb128[n]) = 1
         /\ ~ (n < Radix) =>
              /\ leb128[n] = <<[byte |-> (n % Radix) + Radix]>> \o leb128[n \div Radix]
              /\ [byte |-> (n % Radix) + Radix] \in [byte : Byte]
              /\ leb128[n \div Radix] \in ByteString
              /\ Len(leb128[n]) > 1
<1> DEFINE B == [byte : Byte]
           Good == {l \in 0 .. n : \A x \in 0 .. l : leb128[x] \in Seq(B) /\ Len(leb128[x]) >= 1}
<1>0. Radix \in Nat /\ Radix >= 2 /\ Byte = 0 .. 2 * Radix - 1
  BY WireAssumption
<1>1. ASSUME NEW x \in Nat, x < Radix
      PROVE  leb128[x] = <<[byte |-> x]>> /\ leb128[x] \in Seq(B) /\ Len(leb128[x]) = 1
  <2>1. leb128[x] = <<[byte |-> x]>>
    BY <1>1, Leb128Digits DEF Digits
  <2> DEFINE b == [byte |-> x]
  <2>2. b \in B
    BY <1>0, <1>1
  <2> HIDE DEF b, B
  <2>3. <<b>> \in Seq(B) /\ Len(<<b>>) = 1
    BY <2>2
  <2> QED BY <2>1, <2>3 DEF b
<1>2. ASSUME NEW x \in Nat, ~ (x < Radix)
      PROVE  /\ leb128[x] = <<[byte |-> (x % Radix) + Radix]>> \o leb128[x \div Radix]
             /\ [byte |-> (x % Radix) + Radix] \in B
             /\ x \div Radix \in Nat /\ x \div Radix < x
  <2>1. leb128[x] = <<[byte |-> (x % Radix) + Radix]>> \o leb128[x \div Radix]
    BY <1>2, Leb128Digits DEF Digits
  <2>2. x >= Radix
    BY <1>0, <1>2
  <2>3. x \div Radix \in Nat /\ x \div Radix < x /\ x % Radix \in 0 .. Radix - 1
    BY <2>2, DigitFacts
  <2> DEFINE r == x % Radix
  <2>4. r \in 0 .. Radix - 1
    BY <2>3
  <2> HIDE DEF r
  <2>5. r + Radix \in Byte
    BY <1>0, <2>4
  <2>6. [byte |-> r + Radix] \in B
    BY <2>5
  <2> QED BY <2>1, <2>3, <2>6 DEF r
<1> HIDE DEF B
<1>3. ASSUME NEW x \in Nat, ~ (x < Radix),
             leb128[x \div Radix] \in Seq(B), Len(leb128[x \div Radix]) >= 1
      PROVE  leb128[x] \in Seq(B) /\ Len(leb128[x]) > 1
  <2> DEFINE b == [byte |-> (x % Radix) + Radix]
             s == leb128[x \div Radix]
  <2>1. b \in B /\ s \in Seq(B) /\ Len(s) >= 1 /\ leb128[x] = <<b>> \o s
    BY <1>2, <1>3
  <2> HIDE DEF b, s
  <2>2. <<b>> \o s \in Seq(B) /\ Len(<<b>> \o s) = Len(s) + 1
    BY <2>1, ConsFacts
  <2>3. Len(s) \in Nat
    BY <2>1, LenProperties
  <2> QED BY <2>1, <2>2, <2>3
<1>4. 0 \in Good
  <2>1. 0 < Radix /\ 0 \in Nat
    BY <1>0
  <2>2. leb128[0] \in Seq(B) /\ Len(leb128[0]) = 1
    BY <1>1, <2>1
  <2> QED BY <2>2
<1>5. ASSUME NEW l \in 0 .. n, l \in Good, l + 1 <= n PROVE l + 1 \in Good
  <2> DEFINE x == l + 1
  <2>0. x \in Nat /\ \A y \in Nat : y < x => y \in 0 .. l
    OBVIOUS
  <2>1. \A y \in 0 .. l : leb128[y] \in Seq(B) /\ Len(leb128[y]) >= 1
    BY <1>5
  <2>5. \A y \in 0 .. l + 1 : y \in 0 .. l \/ y = x
    OBVIOUS
  <2> HIDE DEF x
  <2>2. leb128[x] \in Seq(B) /\ Len(leb128[x]) >= 1
    <3>1. CASE x < Radix
      <4>1. x \in Nat
        BY <2>0
      <4>2. leb128[x] \in Seq(B) /\ Len(leb128[x]) = 1
        BY <1>1, <3>1, <4>1
      <4> QED BY <4>2
    <3>2. CASE ~ (x < Radix)
      <4>1. x \div Radix \in 0 .. l
        BY <1>2, <2>0, <3>2
      <4>2. leb128[x] \in Seq(B) /\ Len(leb128[x]) > 1
        BY <1>3, <2>0, <2>1, <3>2, <4>1
      <4>3. Len(leb128[x]) \in Nat
        BY <4>2, LenProperties
      <4> QED BY <4>2, <4>3
    <3> QED BY <3>1, <3>2
  <2>3. l + 1 \in 0 .. n
    BY <1>5
  <2> QED BY <2>1, <2>2, <2>3, <2>5
<1>6. Good \in SUBSET (0 .. n)
  OBVIOUS
<1> HIDE DEF Good
<1>7. Good = 0 .. n
  BY <1>4, <1>5, <1>6, UpToInduction
<1>8. \A x \in 0 .. n : leb128[x] \in Seq(B) /\ Len(leb128[x]) >= 1
  <2>1. n \in Good
    BY <1>7
  <2> QED BY <2>1 DEF Good
<1>9. leb128[n] \in Seq(B)
  <2>1. n \in 0 .. n
    OBVIOUS
  <2> QED BY <1>8, <2>1
<1>12. leb128[n] \in ByteString
  BY <1>9 DEF ByteString, B
<1>10. CASE n < Radix
  <2>1. leb128[n] = <<[byte |-> n]>> /\ Len(leb128[n]) = 1
    BY <1>1, <1>10
  <2> QED BY <1>10, <1>12, <2>1, Zenon
<1>11. CASE ~ (n < Radix)
  <2>0. n >= Radix
    BY <1>0, <1>11
  <2>1. n \div Radix \in 0 .. n
    BY <2>0, DigitFacts
  <2>2. leb128[n \div Radix] \in Seq(B) /\ Len(leb128[n \div Radix]) >= 1
    BY <1>8, <2>1
  <2>3. Len(leb128[n]) > 1
    BY <1>3, <1>11, <2>2
  <2>4. leb128[n \div Radix] \in ByteString
    BY <2>2 DEF ByteString, B
  <2>5. /\ leb128[n] = <<[byte |-> (n % Radix) + Radix]>> \o leb128[n \div Radix]
        /\ [byte |-> (n % Radix) + Radix] \in [byte : Byte]
    BY <1>2, <1>11 DEF B
  <2> QED BY <1>11, <1>12, <2>3, <2>4, <2>5
<1> QED BY <1>10, <1>11

\* Different numbers are written differently.
LEMMA Leb128Injective ==
  ASSUME NEW n \in Nat, NEW m \in Nat, leb128[n] = leb128[m]
  PROVE  n = m
<1> DEFINE Good == {l \in 0 .. n : \A x \in 0 .. l : \A y \in Nat : leb128[x] = leb128[y] => x = y}
<1>0. Radix \in Nat /\ Radix >= 2
  BY WireAssumption
<1>1. ASSUME NEW x \in Nat, NEW y \in Nat, leb128[x] = leb128[y], ~ (x < Radix)
      PROVE  ~ (y < Radix)
  <2>1. Len(leb128[x]) > 1
    BY <1>1, Leb128Type
  <2>2. y < Radix => Len(leb128[y]) = 1
    BY Leb128Type
  <2>3. Len(leb128[x]) = Len(leb128[y])
    BY <1>1
  <2>4. ~ (1 > 1)
    OBVIOUS
  <2> QED BY <2>1, <2>2, <2>3, <2>4, Zenon
<1>2. ASSUME NEW x \in Nat, NEW y \in Nat, leb128[x] = leb128[y], x < Radix
      PROVE  x = y
  <2>1. y < Radix
    BY <1>1, <1>2
  <2>2. leb128[x] = <<[byte |-> x]>>
    BY <1>2, Leb128Type
  <2>3. leb128[y] = <<[byte |-> y]>>
    BY <2>1, Leb128Type
  <2>4. <<[byte |-> x]>>[1].byte = x /\ <<[byte |-> y]>>[1].byte = y
    OBVIOUS
  <2> QED BY <1>2, <2>2, <2>3, <2>4
<1>3. ASSUME NEW x \in Nat, ~ (x < Radix), NEW y \in Nat, leb128[x] = leb128[y],
             \A z \in Nat : leb128[x \div Radix] = leb128[z] => x \div Radix = z
      PROVE  x = y
  <2>1. ~ (y < Radix)
    BY <1>1, <1>3
  <2> DEFINE b == [byte |-> (x % Radix) + Radix]
             c == [byte |-> (y % Radix) + Radix]
             s == leb128[x \div Radix]
             t == leb128[y \div Radix]
             B == [byte : Byte]
  <2>2. /\ leb128[x] = <<b>> \o s /\ b \in B /\ s \in Seq(B)
        /\ leb128[y] = <<c>> \o t /\ c \in B /\ t \in Seq(B)
    BY <1>3, <2>1, Leb128Type DEF ByteString
  <2> HIDE DEF b, c, s, t, B
  <2>3. b = c /\ s = t
    <3>1. <<b>> \o s = <<c>> \o t
      BY <1>3, <2>2
    <3> QED BY <2>2, <3>1, ConsInjective
  <2>4. y \div Radix \in Nat
    BY DigitFacts
  <2>5. x \div Radix = y \div Radix
    BY <1>3, <2>3, <2>4 DEF s, t
  <2>6. b.byte = (x % Radix) + Radix /\ c.byte = (y % Radix) + Radix
    BY DEF b, c
  <2>7. x % Radix \in 0 .. Radix - 1 /\ y % Radix \in 0 .. Radix - 1
    BY DigitFacts
  <2> DEFINE p == x % Radix
             q == y % Radix
  <2>8. p \in Int /\ q \in Int /\ p + Radix = q + Radix
    BY <1>0, <2>3, <2>6, <2>7
  <2> HIDE DEF p, q
  <2>9. p = q
    BY <1>0, <2>8
  <2>10. x = Radix * (x \div Radix) + (x % Radix) /\ y = Radix * (y \div Radix) + (y % Radix)
    BY DigitFacts
  <2> QED BY <2>5, <2>9, <2>10 DEF p, q
<1>4. 0 \in Good
  <2>1. \A y \in Nat : leb128[0] = leb128[y] => 0 = y
    BY <1>0, <1>2
  <2> QED BY <2>1
<1>5. ASSUME NEW l \in 0 .. n, l \in Good, l + 1 <= n PROVE l + 1 \in Good
  <2> DEFINE x == l + 1
  <2>0. x \in Nat /\ (\A y \in Nat : y < x => y \in 0 .. l) /\ \A y \in 0 .. l + 1 : y \in 0 .. l \/ y = x
    OBVIOUS
  <2>1. \A z \in 0 .. l : \A y \in Nat : leb128[z] = leb128[y] => z = y
    BY <1>5
  <2>2. l + 1 \in 0 .. n
    BY <1>5
  <2> HIDE DEF x
  <2>3. \A y \in Nat : leb128[x] = leb128[y] => x = y
    <3> TAKE y \in Nat
    <3> HAVE leb128[x] = leb128[y]
    <3>1. CASE x < Radix
      BY <1>2, <2>0, <3>1
    <3>2. CASE ~ (x < Radix)
      <4>1. x \div Radix \in 0 .. l
        <5>1. x >= Radix
          BY <1>0, <2>0, <3>2
        <5> QED BY <2>0, <5>1, DigitFacts
      <4> QED BY <1>3, <2>0, <2>1, <3>2, <4>1
    <3> QED BY <3>1, <3>2
  <2> QED BY <2>0, <2>1, <2>2, <2>3
<1>6. Good \in SUBSET (0 .. n)
  OBVIOUS
<1> HIDE DEF Good
<1>7. Good = 0 .. n
  BY <1>4, <1>5, <1>6, UpToInduction
<1> QED BY <1>7 DEF Good
-----------------------------------------------------------------------------
(* Values. *)

\* The kinds of values exclude one another.
LEMMA LeafHashes ==
  /\ \A n \in Nat : hash_leaf(Integer(n)) = sha256(leb128[n])
  /\ \A b : hash_leaf(Bytes(b)) = sha256(b)
  /\ \A t : hash_leaf(Text(t)) = sha256(Utf8[t])
BY DEF hash_leaf, hash_with, Is, Integer, Bytes, Text

LEMMA AccountLeafHashes ==
  /\ \A n \in Nat : hash_account(Integer(n)) = sha256(leb128[n])
  /\ \A b : hash_account(Bytes(b)) = sha256(b)
  /\ \A t : hash_account(Text(t)) = sha256(Utf8[t])
BY DEF hash_account, hash_with, Is, Integer, Bytes, Text

LEMMA TransactionLeafHashes ==
  /\ \A n \in Nat : hash_transaction(Integer(n)) = sha256(leb128[n])
  /\ \A b : hash_transaction(Bytes(b)) = sha256(b)
  /\ \A t : hash_transaction(Text(t)) = sha256(Utf8[t])
BY DEF hash_transaction, hash_with, Is, Integer, Bytes, Text

\* What becomes of arrays and maps.
LEMMA ArrayHash ==
  ASSUME NEW q
  PROVE  LET hashes == [i \in DOMAIN q |-> hash_leaf(q[i])]
         IN  hash_account(Array(q)) = Collected(hashes, array_hash(hashes))
BY DEF hash_account, hash_with, Is, Array

LEMMA TransactionMapHash ==
  ASSUME NEW q
  PROVE  LET hpairs == [i \in DOMAIN q |-> <<hash_account(q[i][1]), hash_account(q[i][2])>>]
         IN  hash_transaction(Map(q)) = Collected(FlattenSeq(hpairs), map_hash(hpairs))
BY DEF hash_transaction, hash_with, Is, Map

LEMMA BlockMapHash ==
  ASSUME NEW q
  PROVE  LET hpairs == [i \in DOMAIN q |-> <<hash_transaction(q[i][1]), hash_transaction(q[i][2])>>]
         IN  hash_block(Map(q)) = Collected(FlattenSeq(hpairs), map_hash(hpairs))
BY DEF hash_block, hash_with, Is, Map

LEMMA TagHash == ASSUME NEW t, NEW v PROVE hash_tagged(Tag(t, v)) = hash_block(v)
BY DEF hash_tagged, hash_with, Is, Tag

LEMMA DigestFacts ==
  /\ \A x, y : sha256(x) = sha256(y) => x = y
  /\ \A x : sha256(x) # Undefined
<1>1. ASSUME NEW x, NEW y, sha256(x) = sha256(y) PROVE x = y
  <2>1. sha256(x).digest = sha256(y).digest
    BY <1>1
  <2> QED BY <2>1 DEF sha256
<1>2. ASSUME NEW x PROVE sha256(x) # Undefined
  <2>1. DOMAIN sha256(x) = {"digest"} /\ DOMAIN Undefined = {"error"}
    BY DEF sha256, Undefined
  <2> QED BY <2>1
<1> QED BY <1>1, <1>2
-----------------------------------------------------------------------------
(* Accounts. *)

\* Of an account, its owner and its subaccount.
LEMMA AccountFacts ==
  ASSUME NEW a \in Account
  PROVE  /\ a = [owner |-> a.owner, subaccount |-> a.subaccount]
         /\ PrincipalFits(a.owner)
         /\ a.subaccount # NoSubaccount => Len(a.subaccount) = SubaccountLength
<1>1. a \in WrittenAccount
  BY WireAssumption
<1>2. a = [owner |-> a.owner, subaccount |-> a.subaccount] /\ a.subaccount \in Subaccount \cup {NoSubaccount}
  BY <1>1 DEF WrittenAccount
<1>3. PrincipalFits(a.owner)
  <2>1. a.owner \in Principal
    BY <1>1 DEF WrittenAccount
  <2> QED BY <2>1, WireAssumption DEF PrincipalFits
<1> QED BY <1>2, <1>3, WireAssumption

\* The array is as long as there are parts.
LEMMA CompactAccount ==
  ASSUME NEW a
  PROVE  ser_compact_account(a) = Array(IF a.subaccount = NoSubaccount
                                        THEN <<Bytes(a.owner)>>
                                        ELSE <<Bytes(a.owner), Bytes(a.subaccount)>>)
<1> DEFINE x == Bytes(a.owner)
           y == Bytes(a.subaccount)
           S == {x, y}
<1> HIDE DEF x, y
<1>1. <<x>> \in Seq(S) /\ <<y>> \in Seq(S) /\ << >> \in Seq(S)
  OBVIOUS
<1>2. <<x>> \o << >> = <<x>>
  BY <1>1, ConcatEmptySeq
<1>3. <<x>> \o <<y>> = <<x, y>>
  <2> DEFINE s == <<y>>
             t == <<x, y>>
             u == <<x>> \o s
  <2>1. s \in Seq(S) /\ Len(s) = 1 /\ s[1] = y
    BY <1>1
  <2>2. t \in Seq(S) /\ Len(t) = 2 /\ t[1] = x /\ t[2] = y
    OBVIOUS
  <2>3. x \in S
    OBVIOUS
  <2> HIDE DEF s, t, S
  <2>4. /\ u \in Seq(S) /\ Len(u) = Len(s) + 1 /\ u[1] = x
        /\ \A i \in 1 .. Len(s) : u[i + 1] = s[i]
    <3>1. s \in Seq(S)
      BY <2>1
    <3> QED BY <2>3, <3>1, ConsFacts
  <2> HIDE DEF u
  <2>5. Len(u) = 2 /\ u[2] = y
    <3>1. 1 \in 1 .. Len(s) /\ 1 + 1 = 2
      BY <2>1
    <3> QED BY <2>1, <2>4, <3>1
  <2>6. \A i \in 1 .. Len(u) : u[i] = t[i]
    <3>1. \A i \in 1 .. 2 : i = 1 \/ i = 2
      OBVIOUS
    <3> QED BY <2>2, <2>4, <2>5, <3>1
  <2>7. u = t
    BY <2>2, <2>4, <2>5, <2>6, SeqEqual
  <2> QED BY <2>7 DEF s, t, u
<1>4. ser_compact_account(a) = Array(<<x>> \o (IF a.subaccount = NoSubaccount THEN << >> ELSE <<y>>))
  BY DEF ser_compact_account, x, y
<1> QED BY <1>2, <1>3, <1>4 DEF x, y

\* An account is read back as it was written.
LEMMA AccountDecodes ==
  ASSUME NEW a \in Account
  PROVE  de_compact_account(ser_compact_account(a)) = a
<1> DEFINE v == ser_compact_account(a)
<1>0. a = [owner |-> a.owner, subaccount |-> a.subaccount] /\ PrincipalFits(a.owner)
  BY AccountFacts
<1>1. CASE a.subaccount = NoSubaccount
  <2>1. v.array = <<Bytes(a.owner)>>
    BY <1>1, CompactAccount DEF Array
  <2>2. Len(v.array) = 1 /\ v.array[1].bytes = a.owner
    BY <2>1 DEF Bytes
  <2> HIDE DEF v
  <2>3. de_compact_account(v) = [owner |-> a.owner, subaccount |-> NoSubaccount]
    BY <1>0, <2>2 DEF de_compact_account
  <2> QED BY <1>0, <1>1, <2>3 DEF v
<1>2. CASE a.subaccount # NoSubaccount
  <2>1. v.array = <<Bytes(a.owner), Bytes(a.subaccount)>>
    BY <1>2, CompactAccount DEF Array
  <2>2. Len(v.array) = 2 /\ v.array[1].bytes = a.owner /\ v.array[2].bytes = a.subaccount
    BY <2>1 DEF Bytes
  <2>3. Len(a.subaccount) = SubaccountLength
    BY <1>2, AccountFacts
  <2> HIDE DEF v
  <2>4. de_compact_account(v) = [owner |-> a.owner, subaccount |-> a.subaccount]
    BY <1>0, <2>2, <2>3 DEF de_compact_account
  <2> QED BY <1>0, <2>4 DEF v
<1> QED BY <1>1, <1>2

\* What is hashed of an account: the digests of its parts.
AccountDigests(a) ==
  IF a.subaccount = NoSubaccount THEN <<sha256(a.owner)>> ELSE <<sha256(a.owner), sha256(a.subaccount)>>

LEMMA AccountHash ==
  ASSUME NEW a
  PROVE  hash_account(ser_compact_account(a)) = sha256(AccountDigests(a))
<1> DEFINE q == IF a.subaccount = NoSubaccount
                THEN <<Bytes(a.owner)>> ELSE <<Bytes(a.owner), Bytes(a.subaccount)>>
           hashes == [i \in DOMAIN q |-> hash_leaf(q[i])]
           x == sha256(a.owner)
           y == sha256(a.subaccount)
<1>1. hash_account(ser_compact_account(a)) = Collected(hashes, array_hash(hashes))
  <2> HIDE DEF q
  <2>1. ser_compact_account(a) = Array(q)
    BY CompactAccount DEF q
  <2> QED BY <2>1, ArrayHash
<1>2. hash_leaf(Bytes(a.owner)) = x /\ hash_leaf(Bytes(a.subaccount)) = y
  BY LeafHashes
<1>3. x # Undefined /\ y # Undefined
  BY DigestFacts
<1>4. CASE a.subaccount = NoSubaccount
  <2>1. q = <<Bytes(a.owner)>>
    BY <1>4
  <2>2. DOMAIN q = {1} /\ q[1] = Bytes(a.owner)
    BY <2>1
  <2>3. hashes = [i \in {1} |-> x]
    <3> HIDE DEF q, x
    <3> QED BY <1>2, <2>2
  <2> HIDE DEF q, x, hashes
  <2>4. hashes = <<x>> /\ Range(hashes) = {x}
    <3>1. <<x>> = [i \in {1} |-> x]
      OBVIOUS
    <3> QED BY <2>3, <3>1 DEF Range
  <2>5. Collected(hashes, array_hash(hashes)) = sha256(hashes)
    BY <1>3, <2>4 DEF Collected, array_hash
  <2>6. AccountDigests(a) = <<x>>
    BY <1>4 DEF AccountDigests, x
  <2> QED BY <1>1, <2>4, <2>5, <2>6
<1>5. CASE a.subaccount # NoSubaccount
  <2>1. q = <<Bytes(a.owner), Bytes(a.subaccount)>>
    BY <1>5
  <2>2. DOMAIN q = {1, 2} /\ q[1] = Bytes(a.owner) /\ q[2] = Bytes(a.subaccount)
    BY <2>1
  <2>3. hashes = [i \in {1, 2} |-> IF i = 1 THEN x ELSE y]
    <3> HIDE DEF q, x, y
    <3> QED BY <1>2, <2>2
  <2> HIDE DEF q, x, y, hashes
  <2>4. hashes = <<x, y>> /\ Range(hashes) = {x, y}
    <3>1. <<x, y>> = [i \in {1, 2} |-> IF i = 1 THEN x ELSE y]
      OBVIOUS
    <3> QED BY <2>3, <3>1 DEF Range
  <2>5. Collected(hashes, array_hash(hashes)) = sha256(hashes)
    BY <1>3, <2>4 DEF Collected, array_hash
  <2>6. AccountDigests(a) = <<x, y>>
    BY <1>5 DEF AccountDigests, x, y
  <2> QED BY <1>1, <2>4, <2>5, <2>6
<1> QED BY <1>4, <1>5

\* Accounts written differently have different digests.
LEMMA AccountHashInjective ==
  ASSUME NEW a \in Account, NEW b \in Account,
         hash_account(ser_compact_account(a)) = hash_account(ser_compact_account(b))
  PROVE  a = b
<1>1. AccountDigests(a) = AccountDigests(b)
  BY AccountHash, DigestFacts
<1>2. Len(AccountDigests(a)) = (IF a.subaccount = NoSubaccount THEN 1 ELSE 2)
      /\ Len(AccountDigests(b)) = (IF b.subaccount = NoSubaccount THEN 1 ELSE 2)
  BY DEF AccountDigests
<1>3. a.subaccount = NoSubaccount <=> b.subaccount = NoSubaccount
  BY <1>1, <1>2
<1>4. sha256(a.owner) = sha256(b.owner)
  <2>1. AccountDigests(a)[1] = sha256(a.owner) /\ AccountDigests(b)[1] = sha256(b.owner)
    BY DEF AccountDigests
  <2> QED BY <1>1, <2>1
<1>5. a.subaccount # NoSubaccount => sha256(a.subaccount) = sha256(b.subaccount)
  <2>1. a.subaccount # NoSubaccount => AccountDigests(a)[2] = sha256(a.subaccount)
    BY DEF AccountDigests
  <2>2. b.subaccount # NoSubaccount => AccountDigests(b)[2] = sha256(b.subaccount)
    BY DEF AccountDigests
  <2> QED BY <1>1, <1>3, <2>1, <2>2
<1>6. a.owner = b.owner /\ a.subaccount = b.subaccount
  BY <1>3, <1>4, <1>5, DigestFacts
<1> QED BY <1>6, AccountFacts
-----------------------------------------------------------------------------
(* The entries of a transaction. *)

\* An entry with key k and value v, under condition c.
Given(c, k, v) == {e \in {<<Text(k), v>>} : c}

\* The entries of an operation, and those of its transaction.
OperationEntries(o) ==
  Given(TRUE, "op", Text(o.op)) \cup Given(TRUE, "amt", Integer(o.amount))
    \cup Given(o.op # "burn", "to", ser_compact_account(o.to))
    \cup Given(o.op # "mint", "from", ser_compact_account(o.from))
    \cup Given(o.op = "xfer", "fee", Integer(o.fee))

TxEntries(tx) ==
  OperationEntries(tx.operation)
    \cup Given(tx.created_at_time # None, "ts", Integer(tx.created_at_time))
    \cup Given(tx.memo # None, "memo", Bytes(tx.memo))

\* The one entry that Entry makes, and the one or none of EntryIfSome.
LEMMA EntryFacts ==
  ASSUME NEW k, NEW v, NEW S, <<Text(k), v>> \in S
  PROVE  /\ Entry(k, v) \in Seq(S) /\ Range(Entry(k, v)) = {<<Text(k), v>>}
         /\ \A x : /\ EntryIfSome(k, x, v) \in Seq(S)
                   /\ Range(EntryIfSome(k, x, v)) = Given(x # None, k, v)
<1> DEFINE e == <<Text(k), v>>
<1>1. e \in S /\ Entry(k, v) = <<e>>
  BY DEF Entry
<1> HIDE DEF e
<1>2. <<e>> \in Seq(S) /\ << >> \in Seq(S)
  BY <1>1
<1>3. Range(<<e>>) = {e}
  <2>1. DOMAIN <<e>> = {1} /\ <<e>>[1] = e
    OBVIOUS
  <2> QED BY <2>1 DEF Range
<1>4. Range(<< >>) = {}
  <2>1. DOMAIN << >> = {}
    OBVIOUS
  <2> QED BY <2>1 DEF Range
<1>5. ASSUME NEW x
      PROVE  EntryIfSome(k, x, v) \in Seq(S) /\ Range(EntryIfSome(k, x, v)) = Given(x # None, k, v)
  <2>1. CASE x = None
    <3>1. EntryIfSome(k, x, v) = << >> /\ Given(x # None, k, v) = {}
      BY <2>1 DEF EntryIfSome, Given
    <3> QED BY <1>2, <1>4, <3>1
  <2>2. CASE x # None
    <3>1. EntryIfSome(k, x, v) = <<e>> /\ Given(x # None, k, v) = {e}
      BY <1>1, <2>2 DEF EntryIfSome, Given, e
    <3> QED BY <1>2, <1>3, <3>1
  <2> QED BY <2>1, <2>2
<1>6. Entry(k, v) \in Seq(S) /\ Range(Entry(k, v)) = {<<Text(k), v>>}
  BY <1>1, <1>2, <1>3 DEF e
<1> QED BY <1>5, <1>6

LEMMA OperationKinds ==
  ASSUME NEW o \in Operation
  PROVE  \/ o.op = "mint" /\ o.to \in Account /\ o.amount \in Nat /\ o = MintOp(o.to, o.amount)
         \/ o.op = "burn" /\ o.from \in Account /\ o.amount \in Nat /\ o = BurnOp(o.from, o.amount)
         \/ /\ o.op = "xfer" /\ o.from \in Account /\ o.to \in Account
            /\ o.amount \in Nat /\ o.fee \in Nat
            /\ o = TransferOp(o.from, o.to, o.amount, o.fee)
<1>1. Token \subseteq Nat
  BY MaxTokensAssumption DEF Token
<1>2. CASE o \in Mint
  BY <1>1, <1>2 DEF Mint, MintOp
<1>3. CASE o \in Burn
  BY <1>1, <1>3 DEF Burn, BurnOp
<1>4. CASE o \in Transfer
  BY <1>1, <1>4 DEF Transfer, TransferOp
<1> QED BY <1>2, <1>3, <1>4 DEF Operation

\* An operation is written as its entries.
LEMMA OperationWritten ==
  ASSUME NEW o \in Operation, NEW S,
         <<Text("op"), Text(o.op)>> \in S, <<Text("amt"), Integer(o.amount)>> \in S,
         <<Text("to"), ser_compact_account(o.to)>> \in S,
         <<Text("from"), ser_compact_account(o.from)>> \in S,
         <<Text("fee"), Integer(o.fee)>> \in S
  PROVE  encode_operation(o) \in Seq(S) /\ Range(encode_operation(o)) = OperationEntries(o)
<1> DEFINE op   == Entry("op", Text(o.op))
           amt  == Entry("amt", Integer(o.amount))
           to   == Entry("to", ser_compact_account(o.to))
           from == Entry("from", ser_compact_account(o.from))
           fee  == Entry("fee", Integer(o.fee))
<1>0. \A s, t \in Seq(S) : s \o t \in Seq(S) /\ Range(s \o t) = Range(s) \cup Range(t)
  BY ConcatRange
<1>7. op \in Seq(S) /\ amt \in Seq(S) /\ to \in Seq(S) /\ from \in Seq(S) /\ fee \in Seq(S)
  BY EntryFacts
<1>1. /\ op \in Seq(S) /\ Range(op) = Given(TRUE, "op", Text(o.op))
      /\ amt \in Seq(S) /\ Range(amt) = Given(TRUE, "amt", Integer(o.amount))
  BY EntryFacts DEF Given
<1>2. /\ to \in Seq(S) /\ Range(to) = Given(TRUE, "to", ser_compact_account(o.to))
      /\ from \in Seq(S) /\ Range(from) = Given(TRUE, "from", ser_compact_account(o.from))
      /\ fee \in Seq(S) /\ Range(fee) = Given(TRUE, "fee", Integer(o.fee))
  BY EntryFacts DEF Given
<1>3. \A k, v : Given(FALSE, k, v) = {}
  BY DEF Given
<1>4. CASE o.op = "mint"
  <2>1. encode_operation(o) = op \o (to \o amt)
    BY <1>4 DEF encode_operation
  <2>2. OperationEntries(o) = Range(op) \cup (Range(to) \cup Range(amt))
    <3>1. (o.op # "burn") = TRUE /\ (o.op # "mint") = FALSE /\ (o.op = "xfer") = FALSE
      BY <1>4
    <3> QED BY <1>1, <1>2, <1>3, <1>4 DEF OperationEntries
  <2> HIDE DEF op, to, amt
  <2>3. to \o amt \in Seq(S) /\ Range(to \o amt) = Range(to) \cup Range(amt)
    BY <1>0, <1>7
  <2>4. op \o (to \o amt) \in Seq(S) /\ Range(op \o (to \o amt)) = Range(op) \cup Range(to \o amt)
    BY <1>0, <1>7, <2>3
  <2> QED BY <2>1, <2>2, <2>3, <2>4
<1>5. CASE o.op = "burn"
  <2>1. encode_operation(o) = op \o (from \o amt)
    BY <1>5 DEF encode_operation
  <2>2. OperationEntries(o) = Range(op) \cup (Range(from) \cup Range(amt))
    BY <1>1, <1>2, <1>3, <1>5 DEF OperationEntries
  <2> HIDE DEF op, from, amt
  <2>3. from \o amt \in Seq(S) /\ Range(from \o amt) = Range(from) \cup Range(amt)
    BY <1>0, <1>7
  <2>4. op \o (from \o amt) \in Seq(S) /\ Range(op \o (from \o amt)) = Range(op) \cup Range(from \o amt)
    BY <1>0, <1>7, <2>3
  <2> QED BY <2>1, <2>2, <2>3, <2>4
<1>6. CASE o.op = "xfer"
  <2>1. encode_operation(o) = op \o (((from \o to) \o amt) \o fee)
    BY <1>6 DEF encode_operation
  <2>2. OperationEntries(o) = Range(op) \cup (Range(from) \cup Range(to) \cup Range(amt) \cup Range(fee))
    BY <1>1, <1>2, <1>3, <1>6 DEF OperationEntries
  <2> HIDE DEF op, from, to, amt, fee
  <2>3. from \o to \in Seq(S) /\ Range(from \o to) = Range(from) \cup Range(to)
    BY <1>0, <1>7
  <2>4. /\ (from \o to) \o amt \in Seq(S)
        /\ Range((from \o to) \o amt) = Range(from \o to) \cup Range(amt)
    BY <1>0, <1>7, <2>3
  <2>5. /\ ((from \o to) \o amt) \o fee \in Seq(S)
        /\ Range(((from \o to) \o amt) \o fee) = Range((from \o to) \o amt) \cup Range(fee)
    BY <1>0, <1>7, <2>4
  <2>6. /\ op \o (((from \o to) \o amt) \o fee) \in Seq(S)
        /\ Range(op \o (((from \o to) \o amt) \o fee)) = Range(op) \cup Range(((from \o to) \o amt) \o fee)
    BY <1>0, <1>7, <2>5
  <2> QED BY <2>1, <2>2, <2>3, <2>4, <2>5, <2>6
<1> QED BY <1>4, <1>5, <1>6, OperationKinds

\* So is a transaction.
LEMMA TransactionWritten ==
  ASSUME NEW tx, tx.operation \in Operation
  PROVE  /\ encode_transaction(tx).map \in Seq(Range(encode_transaction(tx).map))
         /\ Range(encode_transaction(tx).map) = TxEntries(tx)
<1> DEFINE o    == tx.operation
           S    == {<<Text("op"), Text(o.op)>>, <<Text("amt"), Integer(o.amount)>>,
                    <<Text("to"), ser_compact_account(o.to)>>,
                    <<Text("from"), ser_compact_account(o.from)>>,
                    <<Text("fee"), Integer(o.fee)>>,
                    <<Text("ts"), Integer(tx.created_at_time)>>,
                    <<Text("memo"), Bytes(tx.memo)>>}
           ops  == encode_operation(o)
           ts   == EntryIfSome("ts", tx.created_at_time, Integer(tx.created_at_time))
           memo == EntryIfSome("memo", tx.memo, Bytes(tx.memo))
<1>1. ops \in Seq(S) /\ Range(ops) = OperationEntries(o)
  <2>1. /\ <<Text("op"), Text(o.op)>> \in S /\ <<Text("amt"), Integer(o.amount)>> \in S
        /\ <<Text("to"), ser_compact_account(o.to)>> \in S
        /\ <<Text("from"), ser_compact_account(o.from)>> \in S
        /\ <<Text("fee"), Integer(o.fee)>> \in S
    OBVIOUS
  <2> HIDE DEF S
  <2> QED BY <2>1, OperationWritten
<1>2. ts \in Seq(S) /\ Range(ts) = Given(tx.created_at_time # None, "ts", Integer(tx.created_at_time))
  BY EntryFacts
<1>3. memo \in Seq(S) /\ Range(memo) = Given(tx.memo # None, "memo", Bytes(tx.memo))
  BY EntryFacts
<1>4. encode_transaction(tx).map = (ops \o ts) \o memo
  BY DEF encode_transaction, Map
<1> HIDE DEF ops, ts, memo, S
<1>0. \A s, t \in Seq(S) : s \o t \in Seq(S) /\ Range(s \o t) = Range(s) \cup Range(t)
  BY ConcatRange
<1>5. ops \o ts \in Seq(S) /\ Range(ops \o ts) = Range(ops) \cup Range(ts)
  BY <1>0, <1>1, <1>2
<1>6. (ops \o ts) \o memo \in Seq(S) /\ Range((ops \o ts) \o memo) = Range(ops \o ts) \cup Range(memo)
  BY <1>0, <1>3, <1>5
<1> DEFINE q == (ops \o ts) \o memo
<1>7. q \in Seq(Range(q))
  <2> HIDE DEF q
  <2>1. q \in Seq(S)
    BY <1>6 DEF q
  <2>2. q \in [1 .. Len(q) -> Range(q)] /\ Len(q) \in Nat
    BY <2>1, LenProperties DEF Range
  <2> QED BY <2>2
<1>8. Range(q) = TxEntries(tx)
  BY <1>1, <1>2, <1>3, <1>5, <1>6 DEF TxEntries
<1> QED BY <1>4, <1>7, <1>8

\* The entries under a key.
At(T, k) == {e \in T : e[1] = Text(k)}

LEMMA TextInjective == \A j, k : Text(j) = Text(k) => j = k
<1> SUFFICES ASSUME NEW j, NEW k, Text(j) = Text(k) PROVE j = k
  OBVIOUS
<1>1. Text(j).text = Text(k).text
  OBVIOUS
<1> QED BY <1>1 DEF Text

LEMMA AtFacts ==
  /\ \A A, B, k : At(A \cup B, k) = At(A, k) \cup At(B, k)
  /\ \A c, j, v, k : j # k => At(Given(c, j, v), k) = {}
  /\ \A c, k, v : At(Given(c, k, v), k) = Given(c, k, v)
<1>1. ASSUME NEW A, NEW B, NEW k PROVE At(A \cup B, k) = At(A, k) \cup At(B, k)
  BY DEF At
<1>2. ASSUME NEW c, NEW j, NEW v, NEW k, j # k PROVE At(Given(c, j, v), k) = {}
  <2>1. Text(j) # Text(k)
    BY <1>2, TextInjective
  <2>2. <<Text(j), v>>[1] = Text(j)
    OBVIOUS
  <2> QED BY <2>1, <2>2 DEF At, Given
<1>3. ASSUME NEW c, NEW k, NEW v PROVE At(Given(c, k, v), k) = Given(c, k, v)
  <2>1. <<Text(k), v>>[1] = Text(k)
    OBVIOUS
  <2> QED BY <2>1 DEF At, Given
<1> QED BY <1>1, <1>2, <1>3

\* What a decoder finds under a key.
LEMMA FieldFacts ==
  ASSUME NEW value, NEW k, NEW v, At(Range(value.map), k) = {<<Text(k), v>>}
  PROVE  Has(value, k) /\ Field(value, k) = v
<1> DEFINE T == Range(value.map)
           p == <<Text(k), v>>
<1>1. \A e : (e \in T /\ e[1] = Text(k)) <=> e = p
  BY DEF At
<1>2. p[2] = v
  OBVIOUS
<1> HIDE DEF p, T
<1>3. Has(value, k)
  BY <1>1 DEF Has, T
<1>4. (CHOOSE e \in T : e[1] = Text(k)) = p
  BY <1>1
<1>5. Field(value, k) = v
  BY <1>2, <1>4 DEF Field, T
<1> QED BY <1>3, <1>5

LEMMA NoField ==
  ASSUME NEW value, NEW k, At(Range(value.map), k) = {}
  PROVE  ~ Has(value, k)
BY DEF At, Has

\* The keys of an operation and of a transaction are different.
LEMMA OperationFields ==
  ASSUME NEW o
  PROVE  /\ At(OperationEntries(o), "op") = Given(TRUE, "op", Text(o.op))
         /\ At(OperationEntries(o), "amt") = Given(TRUE, "amt", Integer(o.amount))
         /\ At(OperationEntries(o), "to") = Given(o.op # "burn", "to", ser_compact_account(o.to))
         /\ At(OperationEntries(o), "from") = Given(o.op # "mint", "from", ser_compact_account(o.from))
         /\ At(OperationEntries(o), "fee") = Given(o.op = "xfer", "fee", Integer(o.fee))
         /\ At(OperationEntries(o), "ts") = {} /\ At(OperationEntries(o), "memo") = {}
<1> DEFINE op   == Given(TRUE, "op", Text(o.op))
           amt  == Given(TRUE, "amt", Integer(o.amount))
           to   == Given(o.op # "burn", "to", ser_compact_account(o.to))
           from == Given(o.op # "mint", "from", ser_compact_account(o.from))
           fee  == Given(o.op = "xfer", "fee", Integer(o.fee))
<1>1. OperationEntries(o) = op \cup amt \cup to \cup from \cup fee
  BY DEF OperationEntries
<1>2. \A k : At(OperationEntries(o), k)
             = At(op, k) \cup At(amt, k) \cup At(to, k) \cup At(from, k) \cup At(fee, k)
  <2> HIDE DEF op, amt, to, from, fee
  <2> QED BY <1>1 DEF At
<1>3. /\ \A k : k # "op" => At(op, k) = {}
      /\ \A k : k # "amt" => At(amt, k) = {}
      /\ \A k : k # "to" => At(to, k) = {}
      /\ \A k : k # "from" => At(from, k) = {}
      /\ \A k : k # "fee" => At(fee, k) = {}
  BY AtFacts
<1>4. /\ At(op, "op") = op /\ At(amt, "amt") = amt /\ At(to, "to") = to
      /\ At(from, "from") = from /\ At(fee, "fee") = fee
  <2>1. At(op, "op") = op
    BY AtFacts
  <2>2. At(amt, "amt") = amt
    BY AtFacts
  <2>3. At(to, "to") = to
    BY AtFacts
  <2>4. At(from, "from") = from
    BY AtFacts
  <2>5. At(fee, "fee") = fee
    BY AtFacts
  <2> HIDE DEF op, amt, to, from, fee
  <2> QED BY <2>1, <2>2, <2>3, <2>4, <2>5
<1> HIDE DEF op, amt, to, from, fee
<1>5. At(OperationEntries(o), "op") = op
  BY <1>2, <1>3, <1>4
<1>6. At(OperationEntries(o), "amt") = amt
  BY <1>2, <1>3, <1>4
<1>7. At(OperationEntries(o), "to") = to
  BY <1>2, <1>3, <1>4
<1>8. At(OperationEntries(o), "from") = from
  BY <1>2, <1>3, <1>4
<1>9. At(OperationEntries(o), "fee") = fee
  BY <1>2, <1>3, <1>4
<1>10. At(OperationEntries(o), "ts") = {} /\ At(OperationEntries(o), "memo") = {}
  BY <1>2, <1>3
<1> QED BY <1>5, <1>6, <1>7, <1>8, <1>9, <1>10 DEF op, amt, to, from, fee

LEMMA TransactionFields ==
  ASSUME NEW tx
  PROVE  /\ \A k : k \notin {"ts", "memo"} => At(TxEntries(tx), k) = At(OperationEntries(tx.operation), k)
         /\ At(TxEntries(tx), "ts") = Given(tx.created_at_time # None, "ts", Integer(tx.created_at_time))
         /\ At(TxEntries(tx), "memo") = Given(tx.memo # None, "memo", Bytes(tx.memo))
<1> DEFINE ops  == OperationEntries(tx.operation)
           ts   == Given(tx.created_at_time # None, "ts", Integer(tx.created_at_time))
           memo == Given(tx.memo # None, "memo", Bytes(tx.memo))
<1>1. TxEntries(tx) = ops \cup ts \cup memo
  BY DEF TxEntries
<1>2. \A k : At(TxEntries(tx), k) = At(ops, k) \cup At(ts, k) \cup At(memo, k)
  <2> HIDE DEF ops, ts, memo
  <2> QED BY <1>1 DEF At
<1>3. /\ \A k : k # "ts" => At(ts, k) = {}
      /\ \A k : k # "memo" => At(memo, k) = {}
      /\ At(ts, "ts") = ts /\ At(memo, "memo") = memo
  BY AtFacts
<1>4. At(ops, "ts") = {} /\ At(ops, "memo") = {}
  BY OperationFields
<1> HIDE DEF ops, ts, memo
<1>5. \A k : k \notin {"ts", "memo"} => At(TxEntries(tx), k) = At(ops, k)
  BY <1>2, <1>3
<1>6. At(TxEntries(tx), "ts") = ts
  BY <1>2, <1>3, <1>4
<1>7. At(TxEntries(tx), "memo") = memo
  BY <1>2, <1>3, <1>4
<1> QED BY <1>5, <1>6, <1>7 DEF ops, ts, memo

\* An operation is read back from any value with its entries.
LEMMA OperationDecodes ==
  ASSUME NEW o \in Operation, NEW value,
         \A k : k \notin {"ts", "memo"} => At(Range(value.map), k) = At(OperationEntries(o), k)
  PROVE  decode_operation(value) = o
<1> DEFINE T == Range(value.map)
<1>0. \A k : k \notin {"ts", "memo"} => At(T, k) = At(OperationEntries(o), k)
  OBVIOUS
<1>9. /\ At(T, "op") = {<<Text("op"), Text(o.op)>>}
      /\ At(T, "amt") = {<<Text("amt"), Integer(o.amount)>>}
      /\ o.op # "burn" => At(T, "to") = {<<Text("to"), ser_compact_account(o.to)>>}
      /\ o.op # "mint" => At(T, "from") = {<<Text("from"), ser_compact_account(o.from)>>}
      /\ o.op = "xfer" => At(T, "fee") = {<<Text("fee"), Integer(o.fee)>>}
  <2> HIDE DEF T
  <2> QED BY <1>0, OperationFields DEF Given
<1>1. Field(value, "op") = Text(o.op) /\ Field(value, "amt") = Integer(o.amount)
  <2>1. /\ At(Range(value.map), "op") = {<<Text("op"), Text(o.op)>>}
        /\ At(Range(value.map), "amt") = {<<Text("amt"), Integer(o.amount)>>}
    BY <1>9
  <2> QED BY <2>1, FieldFacts
<1>2. Field(value, "op").text = o.op /\ Field(value, "amt").integer = o.amount
  BY <1>1 DEF Text, Integer
<1>3. o.op # "burn" => Field(value, "to") = ser_compact_account(o.to)
  <2>1. o.op # "burn" => At(Range(value.map), "to") = {<<Text("to"), ser_compact_account(o.to)>>}
    BY <1>9
  <2> QED BY <2>1, FieldFacts
<1>4. o.op # "mint" => Field(value, "from") = ser_compact_account(o.from)
  <2>1. o.op # "mint" => At(Range(value.map), "from") = {<<Text("from"), ser_compact_account(o.from)>>}
    BY <1>9
  <2> QED BY <2>1, FieldFacts
<1>5. o.op = "xfer" => Field(value, "fee") = Integer(o.fee)
  <2>1. o.op = "xfer" => At(Range(value.map), "fee") = {<<Text("fee"), Integer(o.fee)>>}
    BY <1>9
  <2> QED BY <2>1, FieldFacts
<1>6. CASE o.op = "mint" /\ o.to \in Account /\ o = MintOp(o.to, o.amount)
  <2>1. de_compact_account(Field(value, "to")) = o.to
    BY <1>3, <1>6, AccountDecodes
  <2>2. decode_operation(value) = MintOp(o.to, o.amount)
    BY <1>2, <1>6, <2>1 DEF decode_operation
  <2> QED BY <1>6, <2>2
<1>7. CASE o.op = "burn" /\ o.from \in Account /\ o = BurnOp(o.from, o.amount)
  <2>1. de_compact_account(Field(value, "from")) = o.from
    BY <1>4, <1>7, AccountDecodes
  <2>2. decode_operation(value) = BurnOp(o.from, o.amount)
    BY <1>2, <1>7, <2>1 DEF decode_operation
  <2> QED BY <1>7, <2>2
<1>8. CASE /\ o.op = "xfer" /\ o.from \in Account /\ o.to \in Account
           /\ o = TransferOp(o.from, o.to, o.amount, o.fee)
  <2>1. de_compact_account(Field(value, "from")) = o.from /\ de_compact_account(Field(value, "to")) = o.to
    BY <1>3, <1>4, <1>8, AccountDecodes
  <2>2. Field(value, "fee").integer = o.fee
    BY <1>5, <1>8 DEF Integer
  <2>3. decode_operation(value) = TransferOp(o.from, o.to, o.amount, o.fee)
    BY <1>2, <1>8, <2>1, <2>2 DEF decode_operation
  <2> QED BY <1>8, <2>3
<1> QED BY <1>6, <1>7, <1>8, OperationKinds

\* The accounts of an operation are not the decoder's error.
LEMMA PartiesDecode ==
  ASSUME NEW o \in Operation, NEW party \in {"from", "to"} \cap DOMAIN o
  PROVE  o[party] # Undecodable
<1>1. ASSUME NEW a \in Account PROVE a # Undecodable
  <2>1. a = [owner |-> a.owner, subaccount |-> a.subaccount]
    BY <1>1, AccountFacts
  <2>2. DOMAIN a = {"owner", "subaccount"} /\ DOMAIN Undecodable = {"error"}
    BY <2>1 DEF Undecodable
  <2> QED BY <2>2
<1>2. o[party] \in Account
  <2>1. CASE o \in Mint
    BY <2>1 DEF Mint
  <2>2. CASE o \in Burn
    BY <2>2 DEF Burn
  <2>3. CASE o \in Transfer
    BY <2>3 DEF Transfer
  <2> QED BY <2>1, <2>2, <2>3 DEF Operation
<1> QED BY <1>1, <1>2

\* So is a transaction whose memo is not too long.
LEMMA TransactionDecodes ==
  ASSUME NEW tx, IsTransaction(tx), tx.memo = None \/ MemoFits(tx.memo),
         NEW value, Range(value.map) = TxEntries(tx)
  PROVE  decode_transaction(value) = tx
<1>1. tx = [operation |-> tx.operation, created_at_time |-> tx.created_at_time, memo |-> tx.memo]
      /\ tx.operation \in Operation
  BY DEF IsTransaction
<1>2. decode_operation(value) = tx.operation
  BY <1>1, TransactionFields, OperationDecodes
<1>3. /\ Has(value, "ts") <=> tx.created_at_time # None
      /\ tx.created_at_time # None => Field(value, "ts") = Integer(tx.created_at_time)
  <2>1. At(Range(value.map), "ts") = Given(tx.created_at_time # None, "ts", Integer(tx.created_at_time))
    BY TransactionFields
  <2>2. CASE tx.created_at_time = None
    <3>1. At(Range(value.map), "ts") = {}
      BY <2>1, <2>2 DEF Given
    <3> QED BY <2>2, <3>1, NoField
  <2>3. CASE tx.created_at_time # None
    <3>1. At(Range(value.map), "ts") = {<<Text("ts"), Integer(tx.created_at_time)>>}
      BY <2>1, <2>3 DEF Given
    <3> QED BY <2>3, <3>1, FieldFacts
  <2> QED BY <2>2, <2>3
<1>4. /\ Has(value, "memo") <=> tx.memo # None
      /\ tx.memo # None => Field(value, "memo") = Bytes(tx.memo)
  <2>1. At(Range(value.map), "memo") = Given(tx.memo # None, "memo", Bytes(tx.memo))
    BY TransactionFields
  <2>2. CASE tx.memo = None
    <3>1. At(Range(value.map), "memo") = {}
      BY <2>1, <2>2 DEF Given
    <3> QED BY <2>2, <3>1, NoField
  <2>3. CASE tx.memo # None
    <3>1. At(Range(value.map), "memo") = {<<Text("memo"), Bytes(tx.memo)>>}
      BY <2>1, <2>3 DEF Given
    <3> QED BY <2>3, <3>1, FieldFacts
  <2> QED BY <2>2, <2>3
<1>5. tx.created_at_time # None => Field(value, "ts").integer = tx.created_at_time
  BY <1>3 DEF Integer
<1>6. tx.memo # None => Field(value, "memo").bytes = tx.memo
  BY <1>4 DEF Bytes
<1>7. ~ (Has(value, "memo") /\ ~MemoFits(Field(value, "memo").bytes))
  BY <1>4, <1>6
<1>8. (IF Has(value, "ts") THEN Field(value, "ts").integer ELSE None) = tx.created_at_time
  BY <1>3, <1>5
<1>9. (IF Has(value, "memo") THEN Field(value, "memo").bytes ELSE None) = tx.memo
  BY <1>4, <1>6
<1>10. \A party \in {"from", "to"} \cap DOMAIN tx.operation : tx.operation[party] # Undecodable
  BY <1>1, PartiesDecode
<1>11. decode_transaction(value) = [operation |-> tx.operation, created_at_time |-> tx.created_at_time,
                                    memo |-> tx.memo]
  BY <1>2, <1>7, <1>8, <1>9, <1>10 DEF decode_transaction
<1> QED BY <1>1, <1>11
-----------------------------------------------------------------------------
(* The digest of a transaction. *)

\* The entries that a transaction may have.
TypedEntry(e) ==
  \/ \E w \in Word : e = <<Text("op"), Text(w)>>
  \/ \E k \in {"to", "from"}, a \in Account : e = <<Text(k), ser_compact_account(a)>>
  \/ \E k \in {"amt", "fee", "ts"}, n \in Nat : e = <<Text(k), Integer(n)>>
  \/ \E b : e = <<Text("memo"), Bytes(b)>>

LEMMA TxTyped ==
  ASSUME NEW tx, IsTransaction(tx), NEW e \in TxEntries(tx)
  PROVE  TypedEntry(e)
<1> DEFINE o == tx.operation
<1>1. o \in Operation /\ (tx.created_at_time # None => tx.created_at_time \in Nat)
  BY DEF IsTransaction
<1>2. /\ o.op \in Word /\ o.amount \in Nat
      /\ o.op # "burn" => o.to \in Account
      /\ o.op # "mint" => o.from \in Account
      /\ o.op = "xfer" => o.fee \in Nat
  <2> HIDE DEF o
  <2> QED BY <1>1, OperationKinds DEF Word
<1>3. \/ e = <<Text("op"), Text(o.op)>>
      \/ e = <<Text("amt"), Integer(o.amount)>>
      \/ o.op # "burn" /\ e = <<Text("to"), ser_compact_account(o.to)>>
      \/ o.op # "mint" /\ e = <<Text("from"), ser_compact_account(o.from)>>
      \/ o.op = "xfer" /\ e = <<Text("fee"), Integer(o.fee)>>
      \/ tx.created_at_time # None /\ e = <<Text("ts"), Integer(tx.created_at_time)>>
      \/ e = <<Text("memo"), Bytes(tx.memo)>>
  BY DEF TxEntries, OperationEntries, Given
<1> HIDE DEF o
<1>4. CASE e = <<Text("op"), Text(o.op)>>
  BY <1>2, <1>4 DEF TypedEntry
<1>5. CASE e = <<Text("amt"), Integer(o.amount)>>
  BY <1>2, <1>5 DEF TypedEntry
<1>6. CASE o.op # "burn" /\ e = <<Text("to"), ser_compact_account(o.to)>>
  BY <1>2, <1>6 DEF TypedEntry
<1>7. CASE o.op # "mint" /\ e = <<Text("from"), ser_compact_account(o.from)>>
  BY <1>2, <1>7 DEF TypedEntry
<1>8. CASE o.op = "xfer" /\ e = <<Text("fee"), Integer(o.fee)>>
  BY <1>2, <1>8 DEF TypedEntry
<1>9. CASE tx.created_at_time # None /\ e = <<Text("ts"), Integer(tx.created_at_time)>>
  BY <1>1, <1>9 DEF TypedEntry
<1>10. CASE e = <<Text("memo"), Bytes(tx.memo)>>
  BY <1>10 DEF TypedEntry
<1> QED BY <1>3, <1>4, <1>5, <1>6, <1>7, <1>8, <1>9, <1>10

\* An entry of this kind has digests, of its key and of its value.
LEMMA TypedHashes ==
  ASSUME NEW e, TypedEntry(e)
  PROVE  /\ e = <<e[1], e[2]>>
         /\ \E k \in Word : e[1] = Text(k) /\ hash_account(e[1]) = sha256(Utf8[k])
         /\ hash_account(e[1]) # Undefined /\ hash_account(e[2]) # Undefined
<1>1. CASE \E w \in Word : e = <<Text("op"), Text(w)>>
  <2>1. PICK w \in Word : e = <<Text("op"), Text(w)>>
    BY <1>1
  <2>2. e[1] = Text("op") /\ e[2] = Text(w) /\ "op" \in Word
    BY <2>1 DEF Word
  <2>3. hash_account(e[1]) = sha256(Utf8["op"]) /\ hash_account(e[2]) = sha256(Utf8[w])
    BY <2>2, AccountLeafHashes
  <2> QED BY <2>1, <2>2, <2>3, DigestFacts
<1>2. CASE \E k \in {"to", "from"}, a \in Account : e = <<Text(k), ser_compact_account(a)>>
  <2>1. PICK k \in {"to", "from"}, a \in Account : e = <<Text(k), ser_compact_account(a)>>
    BY <1>2
  <2>2. e[1] = Text(k) /\ e[2] = ser_compact_account(a) /\ k \in Word
    BY <2>1 DEF Word
  <2>3. hash_account(e[1]) = sha256(Utf8[k]) /\ hash_account(e[2]) = sha256(AccountDigests(a))
    BY <2>2, AccountLeafHashes, AccountHash
  <2> QED BY <2>1, <2>2, <2>3, DigestFacts
<1>3. CASE \E k \in {"amt", "fee", "ts"}, n \in Nat : e = <<Text(k), Integer(n)>>
  <2>1. PICK k \in {"amt", "fee", "ts"}, n \in Nat : e = <<Text(k), Integer(n)>>
    BY <1>3
  <2>2. e[1] = Text(k) /\ e[2] = Integer(n) /\ k \in Word
    BY <2>1 DEF Word
  <2>3. hash_account(e[1]) = sha256(Utf8[k]) /\ hash_account(e[2]) = sha256(leb128[n])
    BY <2>2, AccountLeafHashes
  <2> QED BY <2>1, <2>2, <2>3, DigestFacts
<1>4. CASE \E b : e = <<Text("memo"), Bytes(b)>>
  <2>1. PICK b : e = <<Text("memo"), Bytes(b)>>
    BY <1>4
  <2>2. e[1] = Text("memo") /\ e[2] = Bytes(b) /\ "memo" \in Word
    BY <2>1 DEF Word
  <2>3. hash_account(e[1]) = sha256(Utf8["memo"]) /\ hash_account(e[2]) = sha256(b)
    BY <2>2, AccountLeafHashes
  <2> QED BY <2>1, <2>2, <2>3, DigestFacts
<1> QED BY <1>1, <1>2, <1>3, <1>4 DEF TypedEntry

\* Under one key, values with one digest are one value.
LEMMA TypedInjective ==
  ASSUME NEW e, TypedEntry(e), NEW f, TypedEntry(f),
         hash_account(e[1]) = hash_account(f[1]), hash_account(e[2]) = hash_account(f[2])
  PROVE  e = f
<1>1. PICK j \in Word : e[1] = Text(j) /\ hash_account(e[1]) = sha256(Utf8[j])
  BY TypedHashes
<1>2. PICK k \in Word : f[1] = Text(k) /\ hash_account(f[1]) = sha256(Utf8[k])
  BY TypedHashes
<1>3. j = k
  BY <1>1, <1>2, DigestFacts, WireAssumption
<1>4. e[1] = f[1]
  BY <1>1, <1>2, <1>3
<1>5. e[2] = f[2]
  <2>1. CASE \E w \in Word : e = <<Text("op"), Text(w)>>
    <3>1. PICK w \in Word : e = <<Text("op"), Text(w)>>
      BY <2>1
    <3>2. e[1] = Text("op") /\ e[2] = Text(w)
      BY <3>1
    <3>3. k = "op"
      BY <1>2, <1>4, <3>2, TextInjective
    <3>4. PICK v \in Word : f = <<Text("op"), Text(v)>>
      <4>1. \A i : f[1] = Text(i) => i = "op"
        BY <1>2, <3>3, TextInjective
      <4>2. \A i, x : f = <<Text(i), x>> => i = "op"
        BY <4>1
      <4> QED BY <4>2 DEF TypedEntry
    <3>5. sha256(Utf8[w]) = sha256(Utf8[v])
      <4>1. f[2] = Text(v)
        BY <3>4
      <4> QED BY <3>2, <4>1, AccountLeafHashes
    <3>6. w = v
      BY <3>5, DigestFacts, WireAssumption
    <3> QED BY <3>2, <3>4, <3>6
  <2>2. CASE \E i \in {"to", "from"}, a \in Account : e = <<Text(i), ser_compact_account(a)>>
    <3>1. PICK i \in {"to", "from"}, a \in Account : e = <<Text(i), ser_compact_account(a)>>
      BY <2>2
    <3>2. e[1] = Text(i) /\ e[2] = ser_compact_account(a)
      BY <3>1
    <3>3. k = i
      BY <1>2, <1>4, <3>2, TextInjective
    <3>4. PICK b \in Account : f[2] = ser_compact_account(b)
      <4>1. \A l, x : f = <<Text(l), x>> => l = i /\ f[2] = x
        <5>1. \A l : f[1] = Text(l) => l = i
          BY <1>2, <3>3, TextInjective
        <5> QED BY <5>1
      <4> QED BY <3>1, <4>1 DEF TypedEntry
    <3>5. a = b
      BY <3>2, <3>4, AccountHashInjective
    <3> QED BY <3>2, <3>4, <3>5
  <2>3. CASE \E i \in {"amt", "fee", "ts"}, n \in Nat : e = <<Text(i), Integer(n)>>
    <3>1. PICK i \in {"amt", "fee", "ts"}, n \in Nat : e = <<Text(i), Integer(n)>>
      BY <2>3
    <3>2. e[1] = Text(i) /\ e[2] = Integer(n)
      BY <3>1
    <3>3. k = i
      BY <1>2, <1>4, <3>2, TextInjective
    <3>4. PICK m \in Nat : f[2] = Integer(m)
      <4>1. \A l, x : f = <<Text(l), x>> => l = i /\ f[2] = x
        <5>1. \A l : f[1] = Text(l) => l = i
          BY <1>2, <3>3, TextInjective
        <5> QED BY <5>1
      <4> QED BY <3>1, <4>1 DEF TypedEntry
    <3>5. leb128[n] = leb128[m]
      BY <3>2, <3>4, AccountLeafHashes, DigestFacts
    <3>6. n = m
      BY <3>5, Leb128Injective
    <3> QED BY <3>2, <3>4, <3>6
  <2>4. CASE \E b : e = <<Text("memo"), Bytes(b)>>
    <3>1. PICK b : e = <<Text("memo"), Bytes(b)>>
      BY <2>4
    <3>2. e[1] = Text("memo") /\ e[2] = Bytes(b)
      BY <3>1
    <3>3. k = "memo"
      BY <1>2, <1>4, <3>2, TextInjective
    <3>4. PICK c : f[2] = Bytes(c)
      <4>1. \A l, x : f = <<Text(l), x>> => l = "memo" /\ f[2] = x
        <5>1. \A l : f[1] = Text(l) => l = "memo"
          BY <1>2, <3>3, TextInjective
        <5> QED BY <5>1
      <4> QED BY <4>1 DEF TypedEntry
    <3>5. b = c
      BY <3>2, <3>4, AccountLeafHashes, DigestFacts
    <3> QED BY <3>2, <3>4, <3>5
  <2> QED BY <2>1, <2>2, <2>3, <2>4 DEF TypedEntry
<1> QED BY <1>4, <1>5, TypedHashes

\* The digests of the parts of a map, as map_hash gets them.
LEMMA PairsFacts ==
  ASSUME NEW n \in Nat, NEW x, NEW y, NEW pairs, pairs = [i \in 1 .. n |-> <<x[i], y[i]>>],
         \A i \in 1 .. n : x[i] # Undefined /\ y[i] # Undefined
  PROVE  DefinedPairs(pairs) /\ Range(pairs) = {<<x[i], y[i]>> : i \in 1 .. n}
<1>1. Len(pairs) = n /\ DOMAIN pairs = 1 .. n
  OBVIOUS
<1>2. \A i \in 1 .. n : pairs[i] = <<x[i], y[i]>>
  OBVIOUS
<1>3. \A i \in 1 .. n : pairs[i][1] = x[i] /\ pairs[i][2] = y[i]
  BY <1>2
<1>4. pairs = [i \in 1 .. n |-> <<pairs[i][1], pairs[i][2]>>]
  <2>1. \A i \in 1 .. n : pairs[i] = <<pairs[i][1], pairs[i][2]>>
    BY <1>2, <1>3
  <2>2. pairs = [i \in 1 .. n |-> pairs[i]]
    OBVIOUS
  <2> QED BY <2>1, <2>2
<1>5. DefinedPairs(pairs)
  BY <1>1, <1>3, <1>4 DEF DefinedPairs, PairSeq
<1>6. Range(pairs) = {<<x[i], y[i]>> : i \in 1 .. n}
  BY <1>1, <1>2 DEF Range
<1> QED BY <1>5, <1>6

\* What is hashed of a set of entries of a transaction.
HashedEntries(T) == {<<hash_account(e[1]), hash_account(e[2])>> : e \in T}

\* A transaction has a digest, which sees the set of its entries.
LEMMA TransactionHash ==
  ASSUME NEW tx, IsTransaction(tx)
  PROVE  /\ tx_hash(tx) = sha256(Spread(HashedEntries(TxEntries(tx))))
         /\ PairSet(HashedEntries(TxEntries(tx)))
<1> DEFINE q == encode_transaction(tx).map
           n == Len(q)
           x == [i \in 1 .. n |-> hash_account(q[i][1])]
           y == [i \in 1 .. n |-> hash_account(q[i][2])]
           pairs == [i \in DOMAIN q |-> <<hash_account(q[i][1]), hash_account(q[i][2])>>]
<1>1. q \in Seq(Range(q)) /\ Range(q) = TxEntries(tx)
  BY TransactionWritten DEF IsTransaction
<1>2. encode_transaction(tx) = Map(q)
  BY DEF encode_transaction, Map
<1>3. tx_hash(tx) = Collected(FlattenSeq(pairs), map_hash(pairs))
  <2>1. tx_hash(tx) = hash_transaction(Map(q))
    BY <1>2 DEF tx_hash
  <2> HIDE DEF q
  <2> QED BY <2>1, TransactionMapHash
<1> HIDE DEF q
<1>4. n \in Nat /\ DOMAIN q = 1 .. n
  BY <1>1, LenProperties
<1>5. \A i \in 1 .. n : q[i] \in TxEntries(tx)
  BY <1>1, <1>4 DEF Range
<1>6. \A i \in 1 .. n : x[i] # Undefined /\ y[i] # Undefined
  BY <1>5, TxTyped, TypedHashes
<1>7. pairs = [i \in 1 .. n |-> <<x[i], y[i]>>]
  BY <1>4
<1>8. {<<x[i], y[i]>> : i \in 1 .. n} = HashedEntries(TxEntries(tx))
  <2>1. \A i \in 1 .. n : <<x[i], y[i]>> = <<hash_account(q[i][1]), hash_account(q[i][2])>>
    OBVIOUS
  <2>2. \A e : e \in TxEntries(tx) <=> \E i \in 1 .. n : e = q[i]
    BY <1>1, <1>4 DEF Range
  <2> HIDE DEF x, y
  <2> QED BY <2>1, <2>2 DEF HashedEntries
<1> HIDE DEF n, x, y, pairs
<1>9. DefinedPairs(pairs) /\ Range(pairs) = HashedEntries(TxEntries(tx))
  BY <1>4, <1>6, <1>7, <1>8, PairsFacts
<1> QED BY <1>3, <1>9, MapHashFacts

\* That set can be told from its digests.
LEMMA EntriesFromHashes ==
  ASSUME NEW T, NEW U, \A e \in T \cup U : TypedEntry(e), HashedEntries(T) = HashedEntries(U)
  PROVE  T = U
<1>1. ASSUME NEW A, NEW B, \A e \in A \cup B : TypedEntry(e),
             HashedEntries(A) = HashedEntries(B), NEW e \in A
      PROVE  e \in B
  <2>1. <<hash_account(e[1]), hash_account(e[2])>> \in HashedEntries(B)
    BY <1>1 DEF HashedEntries
  <2>2. PICK f \in B : <<hash_account(e[1]), hash_account(e[2])>> = <<hash_account(f[1]), hash_account(f[2])>>
    BY <2>1 DEF HashedEntries
  <2>3. hash_account(e[1]) = hash_account(f[1]) /\ hash_account(e[2]) = hash_account(f[2])
    BY <2>2
  <2>4. e = f
    BY <1>1, <2>3, TypedInjective
  <2> QED BY <2>4
<1> QED BY <1>1

\* Transactions with one digest are one transaction, if their memos fit.
LEMMA TransactionFromHash ==
  ASSUME NEW tx, IsTransaction(tx), tx.memo = None \/ MemoFits(tx.memo),
         NEW ux, IsTransaction(ux), ux.memo = None \/ MemoFits(ux.memo),
         tx_hash(tx) = tx_hash(ux)
  PROVE  tx = ux
<1>1. HashedEntries(TxEntries(tx)) = HashedEntries(TxEntries(ux))
  BY TransactionHash, DigestFacts, SpreadInjective
<1>2. TxEntries(tx) = TxEntries(ux)
  BY <1>1, TxTyped, EntriesFromHashes
<1> DEFINE v == encode_transaction(tx)
<1>3. Range(v.map) = TxEntries(tx)
  BY TransactionWritten DEF IsTransaction
<1> HIDE DEF v
<1>4. decode_transaction(v) = tx
  BY <1>3, TransactionDecodes
<1>5. decode_transaction(v) = ux
  BY <1>2, <1>3, TransactionDecodes
<1> QED BY <1>4, <1>5
-----------------------------------------------------------------------------
(* Blocks. *)

BlockEntries(b) ==
  Given(b.parent_hash # None, "phash", Bytes(<<b.parent_hash>>))
    \cup Given(TRUE, "tx", encode_transaction(b.transaction)) \cup Given(TRUE, "ts", Integer(b.timestamp))

\* A block with a transaction that a call can ask for.
IsSendable(b) == IsBlock(b) /\ (b.transaction.memo = None \/ MemoFits(b.transaction.memo))

LEMMA BlockWritten ==
  ASSUME NEW b
  PROVE  /\ encode(b).value.map \in Seq(Range(encode(b).value.map))
         /\ Range(encode(b).value.map) = BlockEntries(b)
<1> DEFINE S  == {<<Text("phash"), Bytes(<<b.parent_hash>>)>>,
                  <<Text("tx"), encode_transaction(b.transaction)>>,
                  <<Text("ts"), Integer(b.timestamp)>>}
           ph == EntryIfSome("phash", b.parent_hash, Bytes(<<b.parent_hash>>))
           tx == Entry("tx", encode_transaction(b.transaction))
           ts == Entry("ts", Integer(b.timestamp))
<1>1. ph \in Seq(S) /\ Range(ph) = Given(b.parent_hash # None, "phash", Bytes(<<b.parent_hash>>))
  BY EntryFacts
<1>2. tx \in Seq(S) /\ Range(tx) = Given(TRUE, "tx", encode_transaction(b.transaction))
  BY EntryFacts DEF Given
<1>3. ts \in Seq(S) /\ Range(ts) = Given(TRUE, "ts", Integer(b.timestamp))
  BY EntryFacts DEF Given
<1>4. encode(b).value.map = (ph \o tx) \o ts
  <2> DEFINE m == (ph \o tx) \o ts
  <2>1. encode(b) = Tag(55799, Map(m))
    BY DEF encode
  <2> HIDE DEF m
  <2>2. Tag(55799, Map(m)).value.map = m
    BY DEF Tag, Map
  <2>3. encode(b).value.map = m
    BY <2>1, <2>2
  <2> QED BY <2>3, Zenon DEF m
<1> HIDE DEF ph, tx, ts, S
<1>5. \A s, t \in Seq(S) : s \o t \in Seq(S) /\ Range(s \o t) = Range(s) \cup Range(t)
  BY ConcatRange
<1>6. ph \o tx \in Seq(S) /\ Range(ph \o tx) = Range(ph) \cup Range(tx)
  BY <1>1, <1>2, <1>5
<1>7. (ph \o tx) \o ts \in Seq(S) /\ Range((ph \o tx) \o ts) = Range(ph \o tx) \cup Range(ts)
  BY <1>3, <1>5, <1>6
<1> DEFINE q == (ph \o tx) \o ts
<1>8. q \in Seq(Range(q))
  <2> HIDE DEF q
  <2>1. q \in Seq(S)
    BY <1>7 DEF q
  <2>2. q \in [1 .. Len(q) -> Range(q)] /\ Len(q) \in Nat
    BY <2>1, LenProperties DEF Range
  <2> QED BY <2>2
<1>9. Range(q) = BlockEntries(b)
  BY <1>1, <1>2, <1>3, <1>6, <1>7 DEF BlockEntries
<1> QED BY <1>4, <1>8, <1>9

LEMMA BlockFields ==
  ASSUME NEW b
  PROVE  /\ At(BlockEntries(b), "phash") = Given(b.parent_hash # None, "phash", Bytes(<<b.parent_hash>>))
         /\ At(BlockEntries(b), "tx") = {<<Text("tx"), encode_transaction(b.transaction)>>}
         /\ At(BlockEntries(b), "ts") = {<<Text("ts"), Integer(b.timestamp)>>}
<1> DEFINE ph == Given(b.parent_hash # None, "phash", Bytes(<<b.parent_hash>>))
           tx == Given(TRUE, "tx", encode_transaction(b.transaction))
           ts == Given(TRUE, "ts", Integer(b.timestamp))
<1>1. BlockEntries(b) = ph \cup tx \cup ts
  BY DEF BlockEntries
<1>2. \A k : At(BlockEntries(b), k) = At(ph, k) \cup At(tx, k) \cup At(ts, k)
  <2> HIDE DEF ph, tx, ts
  <2> QED BY <1>1 DEF At
<1>3. /\ \A k : k # "phash" => At(ph, k) = {}
      /\ \A k : k # "tx" => At(tx, k) = {}
      /\ \A k : k # "ts" => At(ts, k) = {}
  BY AtFacts
<1>4. At(ph, "phash") = ph
  BY AtFacts
<1>5. At(tx, "tx") = tx
  BY AtFacts
<1>6. At(ts, "ts") = ts
  BY AtFacts
<1>7. /\ tx = {<<Text("tx"), encode_transaction(b.transaction)>>}
      /\ ts = {<<Text("ts"), Integer(b.timestamp)>>}
  BY DEF Given
<1> HIDE DEF ph, tx, ts
<1>8. At(BlockEntries(b), "phash") = ph
  BY <1>2, <1>3, <1>4
<1>9. At(BlockEntries(b), "tx") = tx
  BY <1>2, <1>3, <1>5
<1>10. At(BlockEntries(b), "ts") = ts
  BY <1>2, <1>3, <1>6
<1> QED BY <1>7, <1>8, <1>9, <1>10 DEF ph

\* The fields of a value with the entries of a block.
LEMMA BlockFieldsRead ==
  ASSUME NEW b, NEW value, Range(value.map) = BlockEntries(b)
  PROVE  /\ Field(value, "tx") = encode_transaction(b.transaction)
         /\ Field(value, "ts") = Integer(b.timestamp)
         /\ b.parent_hash = None => ~ Has(value, "phash")
         /\ b.parent_hash # None => /\ Has(value, "phash")
                                   /\ Field(value, "phash") = Bytes(<<b.parent_hash>>)
<1>1. Field(value, "tx") = encode_transaction(b.transaction)
  <2>1. At(Range(value.map), "tx") = {<<Text("tx"), encode_transaction(b.transaction)>>}
    BY BlockFields
  <2> QED BY <2>1, FieldFacts
<1>2. Field(value, "ts") = Integer(b.timestamp)
  <2>1. At(Range(value.map), "ts") = {<<Text("ts"), Integer(b.timestamp)>>}
    BY BlockFields
  <2> QED BY <2>1, FieldFacts
<1>3. ASSUME b.parent_hash = None PROVE ~ Has(value, "phash")
  <2>1. At(Range(value.map), "phash") = {}
    BY <1>3, BlockFields DEF Given
  <2> QED BY <2>1, NoField
<1>4. ASSUME b.parent_hash # None
      PROVE  Has(value, "phash") /\ Field(value, "phash") = Bytes(<<b.parent_hash>>)
  <2>1. At(Range(value.map), "phash") = {<<Text("phash"), Bytes(<<b.parent_hash>>)>>}
    BY <1>4, BlockFields DEF Given
  <2> DEFINE x == Bytes(<<b.parent_hash>>)
  <2> HIDE DEF x
  <2>2. At(Range(value.map), "phash") = {<<Text("phash"), x>>}
    BY <2>1 DEF x
  <2>3. Has(value, "phash") /\ Field(value, "phash") = x
    BY <2>2, FieldFacts
  <2> QED BY <2>3 DEF x
<1> QED BY <1>1, <1>2, <1>3, <1>4

\* A block is read back from any value with its entries.
LEMMA BlockDecodes ==
  ASSUME NEW b, IsSendable(b), NEW enc, enc.tag = 55799, Range(enc.value.map) = BlockEntries(b)
  PROVE  decode(enc) = b
<1> DEFINE v  == enc.value
           tx == b.transaction
<1>1. /\ b = [parent_hash |-> b.parent_hash, transaction |-> tx, timestamp |-> b.timestamp]
      /\ IsTransaction(tx) /\ (tx.memo = None \/ MemoFits(tx.memo))
  BY DEF IsSendable, IsBlock
<1>2. /\ Field(v, "tx") = encode_transaction(tx)
      /\ Field(v, "ts") = Integer(b.timestamp)
      /\ b.parent_hash = None => ~ Has(v, "phash")
      /\ b.parent_hash # None => Has(v, "phash") /\ Field(v, "phash") = Bytes(<<b.parent_hash>>)
  BY BlockFieldsRead
<1>3. Field(v, "ts").integer = b.timestamp
  BY <1>2 DEF Integer
<1>4. (IF Has(v, "phash") THEN Head(Field(v, "phash").bytes) ELSE None) = b.parent_hash
  <2> HIDE DEF v, tx
  <2>1. CASE b.parent_hash = None
    BY <1>2, <2>1
  <2>2. CASE b.parent_hash # None
    <3>1. Field(v, "phash").bytes = <<b.parent_hash>>
      BY <1>2, <2>2 DEF Bytes
    <3>2. Head(Field(v, "phash").bytes) = b.parent_hash
      BY <3>1
    <3> QED BY <1>2, <2>2, <3>2
  <2> QED BY <2>1, <2>2
<1>5. decode_transaction(Field(v, "tx")) = tx
  <2>1. Range(encode_transaction(tx).map) = TxEntries(tx)
    BY <1>1, TransactionWritten DEF IsTransaction
  <2>2. decode_transaction(encode_transaction(tx)) = tx
    <3> HIDE DEF tx
    <3> QED BY <1>1, <2>1, TransactionDecodes
  <2> QED BY <1>2, <2>2
<1>6. tx # Undecodable
  <2>1. DOMAIN tx = {"operation", "created_at_time", "memo"}
    <3>1. tx = [operation |-> tx.operation, created_at_time |-> tx.created_at_time, memo |-> tx.memo]
      BY <1>1 DEF IsTransaction
    <3> HIDE DEF tx
    <3> QED BY <3>1
  <2>2. DOMAIN Undecodable = {"error"}
    BY DEF Undecodable
  <2> QED BY <2>1, <2>2
<1>7. decode(enc) = [parent_hash |-> b.parent_hash, transaction |-> tx, timestamp |-> b.timestamp]
  <2> HIDE DEF tx
  <2> QED BY <1>3, <1>4, <1>5, <1>6 DEF decode
<1> QED BY <1>1, <1>7

\* The entries that a block may have.
TypedBlockEntry(e) ==
  \/ \E p : e = <<Text("phash"), Bytes(<<p>>)>>
  \/ \E tx : /\ IsTransaction(tx) /\ (tx.memo = None \/ MemoFits(tx.memo))
             /\ e = <<Text("tx"), encode_transaction(tx)>>
  \/ \E n \in Nat : e = <<Text("ts"), Integer(n)>>

LEMMA BlockTyped ==
  ASSUME NEW b, IsSendable(b), NEW e \in BlockEntries(b)
  PROVE  TypedBlockEntry(e)
<1>1. /\ IsTransaction(b.transaction) /\ b.timestamp \in Nat
      /\ b.transaction.memo = None \/ MemoFits(b.transaction.memo)
  BY DEF IsSendable, IsBlock
<1>2. \/ e = <<Text("phash"), Bytes(<<b.parent_hash>>)>>
      \/ e = <<Text("tx"), encode_transaction(b.transaction)>>
      \/ e = <<Text("ts"), Integer(b.timestamp)>>
  BY DEF BlockEntries, Given
<1> QED BY <1>1, <1>2 DEF TypedBlockEntry

LEMMA TypedBlockHashes ==
  ASSUME NEW e, TypedBlockEntry(e)
  PROVE  /\ e = <<e[1], e[2]>>
         /\ \E k \in Word : e[1] = Text(k) /\ hash_transaction(e[1]) = sha256(Utf8[k])
         /\ hash_transaction(e[1]) # Undefined /\ hash_transaction(e[2]) # Undefined
<1>1. CASE \E p : e = <<Text("phash"), Bytes(<<p>>)>>
  <2>1. PICK p : e = <<Text("phash"), Bytes(<<p>>)>>
    BY <1>1
  <2>2. e[1] = Text("phash") /\ e[2] = Bytes(<<p>>) /\ "phash" \in Word
    BY <2>1 DEF Word
  <2>3. hash_transaction(e[1]) = sha256(Utf8["phash"]) /\ hash_transaction(e[2]) = sha256(<<p>>)
    BY <2>2, TransactionLeafHashes
  <2> QED BY <2>1, <2>2, <2>3, DigestFacts
<1>2. CASE \E tx : IsTransaction(tx) /\ e = <<Text("tx"), encode_transaction(tx)>>
  <2>1. PICK tx : IsTransaction(tx) /\ e = <<Text("tx"), encode_transaction(tx)>>
    BY <1>2
  <2>2. e[1] = Text("tx") /\ e[2] = encode_transaction(tx) /\ "tx" \in Word
    BY <2>1 DEF Word
  <2>3. hash_transaction(e[1]) = sha256(Utf8["tx"]) /\ hash_transaction(e[2]) = tx_hash(tx)
    BY <2>2, TransactionLeafHashes DEF tx_hash
  <2>4. hash_transaction(e[2]) # Undefined
    BY <2>1, <2>3, TransactionHash, DigestFacts
  <2> QED BY <2>1, <2>2, <2>3, <2>4, DigestFacts
<1>3. CASE \E n \in Nat : e = <<Text("ts"), Integer(n)>>
  <2>1. PICK n \in Nat : e = <<Text("ts"), Integer(n)>>
    BY <1>3
  <2>2. e[1] = Text("ts") /\ e[2] = Integer(n) /\ "ts" \in Word
    BY <2>1 DEF Word
  <2>3. hash_transaction(e[1]) = sha256(Utf8["ts"]) /\ hash_transaction(e[2]) = sha256(leb128[n])
    BY <2>2, TransactionLeafHashes
  <2> QED BY <2>1, <2>2, <2>3, DigestFacts
<1> QED BY <1>1, <1>2, <1>3 DEF TypedBlockEntry

LEMMA TypedBlockInjective ==
  ASSUME NEW e, TypedBlockEntry(e), NEW f, TypedBlockEntry(f),
         hash_transaction(e[1]) = hash_transaction(f[1]), hash_transaction(e[2]) = hash_transaction(f[2])
  PROVE  e = f
<1>1. PICK j \in Word : e[1] = Text(j) /\ hash_transaction(e[1]) = sha256(Utf8[j])
  BY TypedBlockHashes
<1>2. PICK k \in Word : f[1] = Text(k) /\ hash_transaction(f[1]) = sha256(Utf8[k])
  BY TypedBlockHashes
<1>3. j = k
  BY <1>1, <1>2, DigestFacts, WireAssumption
<1>4. e[1] = f[1] /\ \A i : f[1] = Text(i) => i = k
  BY <1>1, <1>2, <1>3, TextInjective
<1>5. \A l, x : f = <<Text(l), x>> => l = k /\ f[2] = x
  BY <1>4
<1>6. e[2] = f[2]
  <2>1. CASE \E p : e = <<Text("phash"), Bytes(<<p>>)>>
    <3>1. PICK p : e = <<Text("phash"), Bytes(<<p>>)>>
      BY <2>1
    <3>2. e[1] = Text("phash") /\ e[2] = Bytes(<<p>>) /\ k = "phash"
      BY <1>4, <3>1
    <3>3. PICK r : f[2] = Bytes(<<r>>)
      <4>1. \A l, x : f = <<Text(l), x>> => l = "phash"
        BY <1>5, <3>2
      <4>2. \E r : f = <<Text("phash"), Bytes(<<r>>)>>
        BY <4>1 DEF TypedBlockEntry
      <4>3. PICK r : f = <<Text("phash"), Bytes(<<r>>)>>
        BY <4>2
      <4>4. f[2] = Bytes(<<r>>)
        BY <4>3
      <4> QED BY <4>4
    <3>4. <<p>> = <<r>>
      BY <3>2, <3>3, TransactionLeafHashes, DigestFacts
    <3> QED BY <3>2, <3>3, <3>4
  <2>2. CASE \E tx : /\ IsTransaction(tx) /\ (tx.memo = None \/ MemoFits(tx.memo))
                     /\ e = <<Text("tx"), encode_transaction(tx)>>
    <3>1. PICK tx : /\ IsTransaction(tx) /\ (tx.memo = None \/ MemoFits(tx.memo))
                    /\ e = <<Text("tx"), encode_transaction(tx)>>
      BY <2>2
    <3>2. e[1] = Text("tx") /\ e[2] = encode_transaction(tx) /\ k = "tx"
      BY <1>4, <3>1
    <3>3. PICK ux : /\ IsTransaction(ux) /\ (ux.memo = None \/ MemoFits(ux.memo))
                    /\ f[2] = encode_transaction(ux)
      <4>1. \A l, x : f = <<Text(l), x>> => l = "tx"
        BY <1>5, <3>2
      <4>2. \E ux : /\ IsTransaction(ux) /\ (ux.memo = None \/ MemoFits(ux.memo))
                    /\ f = <<Text("tx"), encode_transaction(ux)>>
        BY <4>1 DEF TypedBlockEntry
      <4> QED BY <1>5, <4>2
    <3>4. tx_hash(tx) = tx_hash(ux)
      BY <3>2, <3>3 DEF tx_hash
    <3>5. tx = ux
      BY <3>1, <3>3, <3>4, TransactionFromHash
    <3> QED BY <3>2, <3>3, <3>5
  <2>3. CASE \E n \in Nat : e = <<Text("ts"), Integer(n)>>
    <3>1. PICK n \in Nat : e = <<Text("ts"), Integer(n)>>
      BY <2>3
    <3>2. e[1] = Text("ts") /\ e[2] = Integer(n) /\ k = "ts"
      BY <1>4, <3>1
    <3>3. PICK m \in Nat : f[2] = Integer(m)
      <4>1. \A l, x : f = <<Text(l), x>> => l = "ts"
        BY <1>5, <3>2
      <4>2. \E m \in Nat : f = <<Text("ts"), Integer(m)>>
        BY <4>1 DEF TypedBlockEntry
      <4> QED BY <1>5, <4>2
    <3>4. leb128[n] = leb128[m]
      BY <3>2, <3>3, TransactionLeafHashes, DigestFacts
    <3>5. n = m
      BY <3>4, Leb128Injective
    <3> QED BY <3>2, <3>3, <3>5
  <2> QED BY <2>1, <2>2, <2>3 DEF TypedBlockEntry
<1> QED BY <1>4, <1>6, TypedBlockHashes

\* What is hashed of a set of entries of a block.
HashedBlockEntries(T) == {<<hash_transaction(e[1]), hash_transaction(e[2])>> : e \in T}

LEMMA BlockHash ==
  ASSUME NEW b, IsSendable(b)
  PROVE  /\ block_hash(encode(b)) = sha256(Spread(HashedBlockEntries(BlockEntries(b))))
         /\ PairSet(HashedBlockEntries(BlockEntries(b)))
<1> DEFINE q == encode(b).value.map
           n == Len(q)
           x == [i \in 1 .. n |-> hash_transaction(q[i][1])]
           y == [i \in 1 .. n |-> hash_transaction(q[i][2])]
           pairs == [i \in DOMAIN q |-> <<hash_transaction(q[i][1]), hash_transaction(q[i][2])>>]
<1>1. q \in Seq(Range(q)) /\ Range(q) = BlockEntries(b)
  BY BlockWritten
<1>2. encode(b) = Tag(55799, Map(q))
  <2> DEFINE m == EntryIfSome("phash", b.parent_hash, Bytes(<<b.parent_hash>>))
                    \o Entry("tx", encode_transaction(b.transaction)) \o Entry("ts", Integer(b.timestamp))
  <2>1. encode(b) = Tag(55799, Map(m))
    BY DEF encode
  <2> HIDE DEF m
  <2>2. Tag(55799, Map(m)).value.map = m
    BY DEF Tag, Map
  <2> QED BY <2>1, <2>2
<1>3. block_hash(encode(b)) = Collected(FlattenSeq(pairs), map_hash(pairs))
  <2>1. block_hash(encode(b)) = hash_tagged(Tag(55799, Map(q)))
    BY <1>2 DEF block_hash
  <2> HIDE DEF q
  <2>2. block_hash(encode(b)) = hash_block(Map(q))
    BY <2>1, TagHash
  <2> QED BY <2>2, BlockMapHash
<1> HIDE DEF q
<1>4. n \in Nat /\ DOMAIN q = 1 .. n
  BY <1>1, LenProperties
<1>5. \A i \in 1 .. n : q[i] \in BlockEntries(b)
  BY <1>1, <1>4 DEF Range
<1>6. \A i \in 1 .. n : x[i] # Undefined /\ y[i] # Undefined
  BY <1>5, BlockTyped, TypedBlockHashes
<1>7. pairs = [i \in 1 .. n |-> <<x[i], y[i]>>]
  BY <1>4
<1>8. {<<x[i], y[i]>> : i \in 1 .. n} = HashedBlockEntries(BlockEntries(b))
  <2>1. \A i \in 1 .. n : <<x[i], y[i]>> = <<hash_transaction(q[i][1]), hash_transaction(q[i][2])>>
    OBVIOUS
  <2>2. \A e : e \in BlockEntries(b) <=> \E i \in 1 .. n : e = q[i]
    BY <1>1, <1>4 DEF Range
  <2> HIDE DEF x, y
  <2> QED BY <2>1, <2>2 DEF HashedBlockEntries
<1> HIDE DEF n, x, y, pairs
<1>9. DefinedPairs(pairs) /\ Range(pairs) = HashedBlockEntries(BlockEntries(b))
  BY <1>4, <1>6, <1>7, <1>8, PairsFacts
<1> QED BY <1>3, <1>9, MapHashFacts

LEMMA BlockEntriesFromHashes ==
  ASSUME NEW T, NEW U, \A e \in T \cup U : TypedBlockEntry(e),
         HashedBlockEntries(T) = HashedBlockEntries(U)
  PROVE  T = U
<1>1. ASSUME NEW A, NEW B, \A e \in A \cup B : TypedBlockEntry(e),
             HashedBlockEntries(A) = HashedBlockEntries(B), NEW e \in A
      PROVE  e \in B
  <2>1. <<hash_transaction(e[1]), hash_transaction(e[2])>> \in HashedBlockEntries(B)
    BY <1>1 DEF HashedBlockEntries
  <2>2. PICK f \in B : <<hash_transaction(e[1]), hash_transaction(e[2])>>
                         = <<hash_transaction(f[1]), hash_transaction(f[2])>>
    BY <2>1 DEF HashedBlockEntries
  <2>3. hash_transaction(e[1]) = hash_transaction(f[1]) /\ hash_transaction(e[2]) = hash_transaction(f[2])
    BY <2>2
  <2>4. e = f
    BY <1>1, <2>3, TypedBlockInjective
  <2> QED BY <2>4
<1> QED BY <1>1

\* Blocks with one digest are one block.
LEMMA BlockFromHash ==
  ASSUME NEW b, IsSendable(b), NEW c, IsSendable(c), block_hash(encode(b)) = block_hash(encode(c))
  PROVE  b = c
<1>1. HashedBlockEntries(BlockEntries(b)) = HashedBlockEntries(BlockEntries(c))
  BY BlockHash, DigestFacts, SpreadInjective
<1>2. BlockEntries(b) = BlockEntries(c)
  BY <1>1, BlockTyped, BlockEntriesFromHashes
<1>3. decode(encode(b)) = b
  <2>1. encode(b).tag = 55799
    BY DEF encode, Tag
  <2> QED BY <2>1, BlockWritten, BlockDecodes
<1>4. decode(encode(b)) = c
  <2>1. encode(b).tag = 55799
    BY DEF encode, Tag
  <2> QED BY <1>2, <2>1, BlockWritten, BlockDecodes
<1> QED BY <1>3, <1>4
-----------------------------------------------------------------------------
(* Theorems. *)

\* Both blocks are sendable ones.
WireInv == one \in Sendable /\ other \in Sendable

LEMMA WireInvariant == WireSpec => []WireInv
<1>1. WireInit => WireInv
  BY DEF WireInit, WireInv
<1>2. WireInv /\ [WireNext]_<<one, other>> => WireInv'
  BY DEF WireInv, WireNext
<1> QED BY <1>1, <1>2, PTL DEF WireSpec

LEMMA SendableBlocks == ASSUME NEW b \in Sendable PROVE IsSendable(b)
BY BlockAssumption DEF Sendable, IsSendable

\* Every block is decoded to itself: block.rs states this as the law of encode and decode.
THEOREM BlocksDecodeBack == WireSpec => []DecodesBack
<1>1. WireInv => DecodesBack
  <2> SUFFICES ASSUME WireInv PROVE DecodesBack
    OBVIOUS
  <2>1. IsSendable(one)
    BY SendableBlocks DEF WireInv
  <2>2. encode(one).tag = 55799
    BY DEF encode, Tag
  <2>3. decode(encode(one)) = one
    BY <2>1, <2>2, BlockWritten, BlockDecodes
  <2> QED BY <2>3 DEF DecodesBack
<1> QED BY <1>1, WireInvariant, PTL

\* hash_value answers none of the errors that add_block and Transaction::hash hold to be impossible.
THEOREM EverythingHashes == WireSpec => []AlwaysHashable
<1>1. WireInv => AlwaysHashable
  <2> SUFFICES ASSUME WireInv PROVE AlwaysHashable
    OBVIOUS
  <2>1. IsSendable(one) /\ IsTransaction(one.transaction)
    BY SendableBlocks DEF WireInv, IsSendable, IsBlock
  <2>2. tx_hash(one.transaction) # Undefined
    BY <2>1, TransactionHash, DigestFacts
  <2>3. block_hash(encode(one)) # Undefined
    BY <2>1, BlockHash, DigestFacts
  <2> QED BY <2>2, <2>3 DEF AlwaysHashable
<1> QED BY <1>1, WireInvariant, PTL

\* Different transactions have different digests.
THEOREM DigestsIdentify == WireSpec => []DigestIdentifies
<1>1. WireInv => DigestIdentifies
  <2> SUFFICES ASSUME WireInv, tx_hash(one.transaction) = tx_hash(other.transaction)
               PROVE  one.transaction = other.transaction
    BY DEF DigestIdentifies
  <2> DEFINE tx == one.transaction
             ux == other.transaction
  <2>1. /\ IsTransaction(tx) /\ (tx.memo = None \/ MemoFits(tx.memo))
        /\ IsTransaction(ux) /\ (ux.memo = None \/ MemoFits(ux.memo))
    BY SendableBlocks DEF WireInv, IsSendable, IsBlock
  <2>2. tx_hash(tx) = tx_hash(ux)
    OBVIOUS
  <2> HIDE DEF tx, ux
  <2>3. tx = ux
    BY <2>1, <2>2, TransactionFromHash
  <2> QED BY <2>3 DEF tx, ux
<1> QED BY <1>1, WireInvariant, PTL

\* Different blocks have different digests, so that a block's parent hash names one block.
THEOREM BlockDigestsIdentify == WireSpec => []BlockDigestIdentifies
<1>1. WireInv => BlockDigestIdentifies
  <2> SUFFICES ASSUME WireInv, block_hash(encode(one)) = block_hash(encode(other))
               PROVE  one = other
    BY DEF BlockDigestIdentifies
  <2>1. IsSendable(one) /\ IsSendable(other)
    BY SendableBlocks DEF WireInv
  <2> QED BY <2>1, BlockFromHash
<1> QED BY <1>1, WireInvariant, PTL
=============================================================================
