------------------------- MODULE BalanceBookProofs -------------------------
(***************************************************************************)
(* Lemmas about the operators of BalanceBook, for every set of accounts,   *)
(* every KeyOf and every MaxTokens, and first about sums over functions    *)
(* with a finite domain (SumFunction of the community modules).  The two   *)
(* that the state machines need most are AppliedConserves and              *)
(* AppliedEntries.                                                         *)
(*                                                                         *)
(* SumFunction folds over the subsets of the domain.  The proofs follow    *)
(* the fold: the function from subsets to partial sums that it recurses    *)
(* through exists and is unique, both by induction over the subsets, and   *)
(* its last entry is the sum.                                              *)
(***************************************************************************)
EXTENDS BalanceBook, FiniteSetTheorems, TLAPS

\* WFMin of the library for a set: a nonempty set has a minimal member.
LEMMA MinimalMember ==
  ASSUME NEW R, NEW S, NEW T, IsWellFoundedOn(R, S), T \subseteq S, T # {}
  PROVE  \E x \in T : \A y \in T : ~ (<<y, x>> \in R)
BY WFMin, SMT

\* Induction over the subsets of a finite set, with a set of subsets in place of a
\* predicate: if every set all of whose proper subsets are good is good, all are.
LEMMA SubsetInduction ==
  ASSUME NEW S, IsFiniteSet(S), NEW Good \in SUBSET (SUBSET S),
         \A T \in SUBSET S : (\A U \in SUBSET T : U # T => U \in Good) => T \in Good
  PROVE  Good = SUBSET S
<1>1. ASSUME NEW Bad, Bad = (SUBSET S) \ Good, Bad # {} PROVE FALSE
  <2>1. IsWellFoundedOn(StrictSubsetOrdering(S), SUBSET S)
    <3>1. IsWellFoundedOn(StrictSubsetOrdering(S), FiniteSubsetsOf(S))
      BY FS_StrictSubsetOrderingWellFounded, Zenon
    <3>2. FiniteSubsetsOf(S) = SUBSET S
      BY FS_FiniteSubsetsOfFinite, Zenon
    <3> QED BY <3>1, <3>2, Zenon
  <2>2. Bad \subseteq SUBSET S
    BY <1>1
  <2>3. PICK T \in Bad : \A U \in Bad : ~ (<<U, T>> \in StrictSubsetOrdering(S))
    BY <1>1, <2>1, <2>2, MinimalMember
  <2>4. ASSUME NEW U \in SUBSET T, U # T, U \notin Good PROVE FALSE
    <3>1. U \in SUBSET S /\ T \in SUBSET S
      BY <2>2
    <3>2. <<U, T>> \in StrictSubsetOrdering(S)
      BY <3>1, <2>4 DEF StrictSubsetOrdering
    <3> QED BY <3>1, <3>2, <2>3, <2>4, <1>1
  <2> QED BY <2>4, <1>1
<1>2. (SUBSET S) \ Good = {}
  BY <1>1
<1> QED BY <1>2, Zenon

\* The member of s that a fold of the community modules takes first.
Pick(s) == CHOOSE x \in s : TRUE

\* Induction from 0 up to L, with a set in place of a predicate.
LEMMA UpToInduction ==
  ASSUME NEW L \in Nat, NEW Good \in SUBSET (0 .. L), 0 \in Good,
         \A m \in 0 .. L : m \in Good /\ m + 1 <= L => m + 1 \in Good
  PROVE  Good = 0 .. L
<1> DEFINE Sets == {T \in SUBSET (1 .. L) : \A m \in 0 .. L : T = 1 .. m => m \in Good}
<1>1. ASSUME NEW T \in SUBSET (1 .. L), \A U \in SUBSET T : U # T => U \in Sets
      PROVE  T \in Sets
  <2> SUFFICES ASSUME NEW m \in 0 .. L, T = 1 .. m PROVE m \in Good
    OBVIOUS
  <2>1. CASE m = 0
    BY <2>1
  <2>2. CASE m # 0
    <3>1. 1 .. (m - 1) \in SUBSET T /\ 1 .. (m - 1) # T /\ m - 1 \in 0 .. L
      <4>1. m \in T /\ m \notin 1 .. (m - 1)
        BY <2>2
      <4> QED BY <2>2, <4>1
    <3>2. m - 1 \in Good
      BY <1>1, <3>1
    <3> QED BY <2>2, <3>1, <3>2
  <2> QED BY <2>1, <2>2
<1>2. Sets = SUBSET (1 .. L)
  <2> HIDE DEF Sets
  <2>1. Sets \in SUBSET (SUBSET (1 .. L))
    BY DEF Sets
  <2>2. IsFiniteSet(1 .. L)
    BY FS_Interval
  <2> QED BY <1>1, <2>1, <2>2, SubsetInduction
<1>3. ASSUME NEW m \in 0 .. L PROVE m \in Good
  <2>1. 1 .. m \in SUBSET (1 .. L)
    OBVIOUS
  <2> QED BY <1>2, <2>1
<1> QED BY <1>3

\* What Pick takes from a nonempty set is a member of it.
LEMMA PickMember == ASSUME NEW s, s # {} PROVE Pick(s) \in s
BY DEF Pick

\* iter gives, for each subset of S, the sum of f over it.
PartialSums(f, S, iter) ==
  iter = [s \in SUBSET S |-> IF s = {} THEN 0 ELSE f[Pick(s)] + iter[s \ {Pick(s)}]]

\* SumFunction is the last entry of the partial sums that its definition chooses.
LEMMA SumIsPartialSum ==
  ASSUME NEW f
  PROVE  SumFunction(f) = (CHOOSE iter : PartialSums(f, DOMAIN f, iter))[DOMAIN f]
BY DEF SumFunction, SumFunctionOnSet, FoldFunctionOnSet, MapThenFoldSet, PartialSums, Pick

\* The partial sums over a finite set are unique, whatever the function.
LEMMA PartialSumsUnique ==
  ASSUME NEW S, IsFiniteSet(S), NEW f, NEW g, NEW h,
         PartialSums(f, S, g), PartialSums(f, S, h)
  PROVE  g = h
<1> DEFINE Good == {s \in SUBSET S : g[s] = h[s]}
<1>1. ASSUME NEW T \in SUBSET S, \A U \in SUBSET T : U # T => U \in Good
      PROVE  T \in Good
  <2>1. CASE T = {}
    BY <2>1 DEF PartialSums
  <2>2. CASE T # {}
    <3>1. Pick(T) \in T
      BY <2>2, PickMember
    <3>2. T \ {Pick(T)} \in Good
      BY <3>1, <1>1
    <3> QED BY <2>2, <3>2 DEF PartialSums
  <2> QED BY <2>1, <2>2
<1>2. Good = SUBSET S
  <2> HIDE DEF Good
  <2>1. Good \in SUBSET (SUBSET S)
    BY DEF Good
  <2> QED BY <1>1, <2>1, SubsetInduction
<1>3. \A s \in SUBSET S : g[s] = h[s]
  BY <1>2
<1>4. DOMAIN g = SUBSET S /\ DOMAIN h = SUBSET S
  BY DEF PartialSums
<1>5. g = [s \in SUBSET S |-> g[s]] /\ h = [s \in SUBSET S |-> h[s]]
  BY DEF PartialSums
<1> QED BY <1>3, <1>5

\* A partial sum is no less than any of the values it adds up.
LEMMA PartialSumsDominate ==
  ASSUME NEW S, IsFiniteSet(S), NEW f \in [S -> Nat],
         NEW iter \in [SUBSET S -> Nat], PartialSums(f, S, iter)
  PROVE  \A s \in SUBSET S : \A x \in s : iter[s] >= f[x]
<1> DEFINE Good == {s \in SUBSET S : \A x \in s : iter[s] >= f[x]}
<1>1. ASSUME NEW T \in SUBSET S, \A U \in SUBSET T : U # T => U \in Good
      PROVE  T \in Good
  <2> SUFFICES ASSUME NEW x \in T PROVE iter[T] >= f[x]
    OBVIOUS
  <2> DEFINE p == Pick(T)
             r == T \ {Pick(T)}
  <2>1. p \in T
    BY PickMember
  <2>2. r \in Good /\ r \in SUBSET S
    BY <2>1, <1>1
  <2>3. iter[T] = f[p] + iter[r]
    BY DEF PartialSums
  <2>4. f[p] \in Nat /\ iter[r] \in Nat /\ f[x] \in Nat
    BY <2>1, <2>2
  <2>5. x # p => iter[r] >= f[x]
    BY <2>2
  <2> HIDE DEF p, r
  <2> QED BY <2>3, <2>4, <2>5
<1>2. Good = SUBSET S
  <2> HIDE DEF Good
  <2>1. Good \in SUBSET (SUBSET S)
    BY DEF Good
  <2> QED BY <1>1, <2>1, SubsetInduction
<1> QED BY <1>2

\* The sum v is the sum w with the term old replaced by the term new.
Differ(v, w, old, new) == v = w - old + new

\* When a function changes at k alone, the partial sums over the sets with k change
\* by as much, and the others do not.
LEMMA PartialSumsMove ==
  ASSUME NEW S, IsFiniteSet(S), NEW f \in [S -> Nat], NEW g \in [S -> Nat], NEW k \in S,
         \A x \in S \ {k} : g[x] = f[x],
         NEW iter \in [SUBSET S -> Nat], PartialSums(f, S, iter)
  PROVE  \E next \in [SUBSET S -> Nat] :
            PartialSums(g, S, next) /\ Differ(next[S], iter[S], f[k], g[k])
<1>1. \A s \in SUBSET S : k \in s => iter[s] >= f[k]
  BY PartialSumsDominate
<1> DEFINE next == [s \in SUBSET S |-> IF k \in s THEN iter[s] - f[k] + g[k] ELSE iter[s]]
<1>2. next \in [SUBSET S -> Nat] /\ \A s \in SUBSET S :
         next[s] = IF k \in s THEN iter[s] - f[k] + g[k] ELSE iter[s]
  BY <1>1
<1> HIDE DEF next
<1>3. ASSUME NEW s \in SUBSET S
      PROVE  next[s] = IF s = {} THEN 0 ELSE g[Pick(s)] + next[s \ {Pick(s)}]
  <2>1. CASE s = {}
    BY <1>2, <2>1 DEF PartialSums
  <2>2. CASE s # {}
    <3>1. Pick(s) \in s
      BY <2>2, PickMember
    <3> DEFINE p == Pick(s)
               r == s \ {Pick(s)}
    <3>2. r \in SUBSET S /\ p \in S /\ p \in s /\ (k \in r <=> k \in s /\ k # p)
      BY <3>1
    <3>3. iter[s] = f[p] + iter[r]
      BY <2>2 DEF PartialSums
    <3>4. iter[s] \in Nat /\ iter[r] \in Nat /\ f[p] \in Nat /\ g[p] \in Nat /\ f[k] \in Nat /\ g[k] \in Nat
      BY <3>2
    <3>5. next[s] = IF k \in s THEN iter[s] - f[k] + g[k] ELSE iter[s]
      BY <1>2
    <3>6. next[r] = IF k \in r THEN iter[r] - f[k] + g[k] ELSE iter[r]
      BY <1>2, <3>2
    <3>7. p # k => g[p] = f[p]
      BY <3>2
    <3> HIDE DEF p, r
    <3>8. next[s] = g[p] + next[r]
      <4>1. CASE p = k
        BY <4>1, <3>2, <3>3, <3>4, <3>5, <3>6
      <4>2. CASE p # k /\ k \in s
        BY <4>2, <3>2, <3>3, <3>4, <3>5, <3>6, <3>7
      <4>3. CASE p # k /\ k \notin s
        BY <4>3, <3>2, <3>3, <3>4, <3>5, <3>6, <3>7
      <4> QED BY <4>1, <4>2, <4>3
    <3> QED BY <3>8, <2>2 DEF p, r
  <2> QED BY <2>1, <2>2
<1>4. next = [s \in SUBSET S |-> IF s = {} THEN 0 ELSE g[Pick(s)] + next[s \ {Pick(s)}]]
  BY <1>2, <1>3
<1>5. next[S] = iter[S] - f[k] + g[k]
  BY <1>2
<1> QED BY <1>2, <1>4, <1>5 DEF PartialSums, Differ

\* Hence every natural-valued function on a finite set has partial sums: it is
\* reached from the zero function by changing one value after another.
LEMMA PartialSumsExist ==
  ASSUME NEW S, IsFiniteSet(S), NEW f \in [S -> Nat]
  PROVE  \E iter \in [SUBSET S -> Nat] : PartialSums(f, S, iter)
<1> DEFINE Cut(T) == [x \in S |-> IF x \in T THEN f[x] ELSE 0]
           Good == {T \in SUBSET S : \E iter \in [SUBSET S -> Nat] : PartialSums(Cut(T), S, iter)}
<1>1. ASSUME NEW T \in SUBSET S, \A U \in SUBSET T : U # T => U \in Good
      PROVE  T \in Good
  <2>1. CASE T = {}
    <3> DEFINE zero == [s \in SUBSET S |-> 0]
    <3>1. zero \in [SUBSET S -> Nat]
      OBVIOUS
    <3>2. ASSUME NEW s \in SUBSET S, s # {}
          PROVE  Cut(T)[Pick(s)] + zero[s \ {Pick(s)}] = 0
      <4>1. Pick(s) \in S
        BY <3>2, PickMember
      <4>2. Cut(T)[Pick(s)] = 0 /\ zero[s \ {Pick(s)}] = 0
        BY <4>1, <2>1
      <4> QED BY <4>2
    <3>3. PartialSums(Cut(T), S, zero)
      BY <3>2 DEF PartialSums
    <3> QED BY <3>1, <3>3
  <2>2. CASE T # {}
    <3>1. PICK k \in T : TRUE
      BY <2>2
    <3> DEFINE U == T \ {k}
    <3>2. PICK iter \in [SUBSET S -> Nat] : PartialSums(Cut(U), S, iter)
      BY <1>1
    <3>3. Cut(U) \in [S -> Nat] /\ Cut(T) \in [S -> Nat] /\ k \in S
      OBVIOUS
    <3>4. \A x \in S \ {k} : Cut(T)[x] = Cut(U)[x]
      OBVIOUS
    <3>6. \E next \in [SUBSET S -> Nat] : PartialSums(Cut(T), S, next)
      <4>1. \A u, t \in [S -> Nat] : (PartialSums(u, S, iter) /\ \A x \in S \ {k} : t[x] = u[x])
                => \E next \in [SUBSET S -> Nat] : PartialSums(t, S, next)
        BY <3>3, PartialSumsMove
      <4> HIDE DEF U, Cut
      <4> QED BY <3>2, <3>3, <3>4, <4>1
    <3> QED BY <3>6
  <2> QED BY <2>1, <2>2
<1>2. S \in Good
  <2> HIDE DEF Good
  <2>1. Good \in SUBSET (SUBSET S)
    BY DEF Good
  <2> QED BY <1>1, <2>1, SubsetInduction
<1>3. Cut(S) = f
  OBVIOUS
<1> QED BY <1>2, <1>3

\* A sum over a finite set is the partial sum over all of it.
LEMMA SumExists ==
  ASSUME NEW S, IsFiniteSet(S), NEW f \in [S -> Nat]
  PROVE  \E iter \in [SUBSET S -> Nat] : PartialSums(f, S, iter) /\ SumFunction(f) = iter[S]
<1>1. PICK iter \in [SUBSET S -> Nat] : PartialSums(f, S, iter)
  BY PartialSumsExist
<1>2. iter = CHOOSE it : PartialSums(f, S, it)
  BY <1>1, PartialSumsUnique
<1>3. DOMAIN f = S
  OBVIOUS
<1> QED BY <1>1, <1>2, <1>3, SumIsPartialSum

\* A sum of zeros is zero.
THEOREM SumOfZeros ==
  ASSUME NEW S, IsFiniteSet(S), NEW f \in [S -> Nat], \A x \in S : f[x] = 0
  PROVE  SumFunction(f) = 0
<1> DEFINE zero == [s \in SUBSET S |-> 0]
<1>1. PICK iter \in [SUBSET S -> Nat] : PartialSums(f, S, iter) /\ SumFunction(f) = iter[S]
  BY SumExists
<1>2. ASSUME NEW s \in SUBSET S, s # {}
      PROVE  f[Pick(s)] + zero[s \ {Pick(s)}] = 0
  BY <1>2, PickMember
<1>3. PartialSums(f, S, zero)
  BY <1>2 DEF PartialSums
<1> QED BY <1>1, <1>3, PartialSumsUnique

\* A sum of natural numbers is natural, is no less than any of them, and changes by
\* as much as the one of them that changes.
THEOREM SumUpdate ==
  ASSUME NEW S, IsFiniteSet(S), NEW f \in [S -> Nat], NEW g \in [S -> Nat], NEW k \in S,
         \A x \in S \ {k} : g[x] = f[x]
  PROVE  /\ SumFunction(f) \in Nat
         /\ SumFunction(g) \in Nat
         /\ f[k] <= SumFunction(f)
         /\ SumFunction(g) = SumFunction(f) - f[k] + g[k]
<1>1. \A iter \in [SUBSET S -> Nat] : PartialSums(f, S, iter) =>
        \E next \in [SUBSET S -> Nat] :
          PartialSums(g, S, next) /\ Differ(next[S], iter[S], f[k], g[k])
  BY PartialSumsMove
<1>2. PICK iter \in [SUBSET S -> Nat] : PartialSums(f, S, iter) /\ SumFunction(f) = iter[S]
  BY SumExists
<1>3. PICK jter \in [SUBSET S -> Nat] : PartialSums(g, S, jter) /\ SumFunction(g) = jter[S]
  BY SumExists
<1>4. f[k] <= iter[S]
  BY <1>2, PartialSumsDominate
<1>5. PICK next \in [SUBSET S -> Nat] :
        PartialSums(g, S, next) /\ Differ(next[S], iter[S], f[k], g[k])
  BY <1>1, <1>2
<1>6. jter = next
  BY <1>3, <1>5, PartialSumsUnique
<1> QED BY <1>2, <1>3, <1>4, <1>5, <1>6 DEF Differ

\* Whatever member a partial sum takes first, it comes out the same.
LEMMA PartialSumsTake ==
  ASSUME NEW S, IsFiniteSet(S), NEW f \in [S -> Nat],
         NEW iter \in [SUBSET S -> Nat], PartialSums(f, S, iter)
  PROVE  \A s \in SUBSET S : \A k \in s : iter[s] = f[k] + iter[s \ {k}]
<1> DEFINE Good == {s \in SUBSET S : \A k \in s : iter[s] = f[k] + iter[s \ {k}]}
<1>1. ASSUME NEW T \in SUBSET S, \A U \in SUBSET T : U # T => U \in Good
      PROVE  T \in Good
  <2> SUFFICES ASSUME NEW k \in T PROVE iter[T] = f[k] + iter[T \ {k}]
    OBVIOUS
  <2> DEFINE p == Pick(T)
             both == (T \ {p}) \ {k}
  <2>1. p \in T /\ iter[T] = f[p] + iter[T \ {p}]
    BY PickMember DEF PartialSums
  <2>2. CASE p = k
    BY <2>1, <2>2
  <2>3. CASE p # k
    <3>1. T \ {p} \in Good /\ T \ {k} \in Good /\ k \in T \ {p} /\ p \in T \ {k}
      BY <1>1, <2>1, <2>3
    <3>2. iter[T \ {p}] = f[k] + iter[both]
      BY <3>1
    <3>3. iter[T \ {k}] = f[p] + iter[(T \ {k}) \ {p}] /\ (T \ {k}) \ {p} = both
      BY <3>1
    <3>4. f[p] \in Nat /\ f[k] \in Nat /\ iter[both] \in Nat
      BY <2>1
    <3>5. iter[T \ {k}] = f[p] + iter[both]
      BY <3>3
    <3> DEFINE x == iter[both]
               y == iter[T \ {p}]
               z == iter[T \ {k}]
               v == iter[T]
    <3> HIDE DEF p, x, y, z, v
    <3>6. v = f[p] + y /\ y = f[k] + x /\ z = f[p] + x /\ f[p] \in Nat /\ f[k] \in Nat /\ x \in Nat
      BY <2>1, <3>2, <3>4, <3>5 DEF v, x, y, z
    <3>7. v = f[k] + z
      BY <3>6
    <3> QED BY <3>7 DEF v, z
  <2> QED BY <2>2, <2>3
<1>2. Good = SUBSET S
  <2> HIDE DEF Good
  <2>1. Good \in SUBSET (SUBSET S)
    BY DEF Good
  <2> QED BY <1>1, <2>1, SubsetInduction
<1> QED BY <1>2

\* A sum over a part of the domain is a partial sum.
LEMMA SumOnSetIsPartialSum ==
  ASSUME NEW S, IsFiniteSet(S), NEW f \in [S -> Nat], NEW T \in SUBSET S,
         NEW iter \in [SUBSET S -> Nat], PartialSums(f, S, iter)
  PROVE  SumFunctionOnSet(f, T) = iter[T]
<1> DEFINE part == [s \in SUBSET T |-> iter[s]]
<1>1. IsFiniteSet(T)
  BY FS_Subset
<1>2. PartialSums(f, T, part)
  <2>1. ASSUME NEW s \in SUBSET T
        PROVE  part[s] = IF s = {} THEN 0 ELSE f[Pick(s)] + part[s \ {Pick(s)}]
    BY DEF PartialSums
  <2> QED BY <2>1 DEF PartialSums
<1>3. part = CHOOSE it : PartialSums(f, T, it)
  <2> HIDE DEF part
  <2> QED BY <1>1, <1>2, PartialSumsUnique
<1>4. SumFunctionOnSet(f, T) = (CHOOSE it : PartialSums(f, T, it))[T]
  BY DEF SumFunctionOnSet, FoldFunctionOnSet, MapThenFoldSet, PartialSums, Pick
<1> QED BY <1>3, <1>4

\* A sum over one more member is greater by the value at this member; a sum over
\* nothing is zero.
THEOREM SumOnSetGrows ==
  ASSUME NEW S, IsFiniteSet(S), NEW f \in [S -> Nat]
  PROVE  /\ SumFunctionOnSet(f, {}) = 0
         /\ \A T \in SUBSET S : SumFunctionOnSet(f, T) \in Nat
         /\ \A T \in SUBSET S : \A k \in S \ T :
              SumFunctionOnSet(f, T \cup {k}) = SumFunctionOnSet(f, T) + f[k]
<1>1. PICK iter \in [SUBSET S -> Nat] : PartialSums(f, S, iter)
  BY PartialSumsExist
<1>2. \A T \in SUBSET S : SumFunctionOnSet(f, T) = iter[T]
  BY <1>1, SumOnSetIsPartialSum
<1>3. iter[{}] = 0
  BY <1>1 DEF PartialSums
<1>4. ASSUME NEW T \in SUBSET S, NEW k \in S \ T PROVE iter[T \cup {k}] = iter[T] + f[k]
  <2> DEFINE U == T \cup {k}
  <2>1. U \in SUBSET S /\ k \in U /\ U \ {k} = T
    OBVIOUS
  <2>2. iter[T] \in Nat /\ f[k] \in Nat
    OBVIOUS
  <2> HIDE DEF U
  <2>3. iter[U] = f[k] + iter[U \ {k}]
    BY <1>1, <2>1, PartialSumsTake
  <2>4. iter[U] = f[k] + iter[T]
    BY <2>1, <2>3, Zenon
  <2>5. iter[U] = iter[T] + f[k]
    BY <2>2, <2>4
  <2> QED BY <2>5 DEF U
<1> QED BY <1>2, <1>3, <1>4
-----------------------------------------------------------------------------
(* The map of balances. *)

\* A map holds tokens under keys that are accounts...
LEMMA StoreFacts ==
  ASSUME NEW store \in Store
  PROVE  DOMAIN store \subseteq Account /\ store \in [DOMAIN store -> Token]
BY DEF Store

\* ...and everything of that form is a map.
LEMMA StoreIntro ==
  ASSUME NEW K \in SUBSET Account, NEW store \in [K -> Token]
  PROVE  store \in Store
BY DEF Store

\* The slot of an account is a way of writing that account; when it is vacant it is
\* the one that was asked for, and the account is in the map in no other way.
LEMMA SlotFacts ==
  ASSUME NEW store \in Store, NEW a \in Account
  PROVE  /\ Slot(store, a) \in Account
         /\ SameAccount(Slot(store, a), a)
         /\ Slot(store, a) \notin DOMAIN store => 
              /\ Slot(store, a) = a
              /\ \A k \in DOMAIN store : ~ SameAccount(k, a)
<1>1. CASE \E k \in DOMAIN store : SameAccount(k, a)
  BY <1>1, StoreFacts DEF Slot
<1>2. CASE ~ \E k \in DOMAIN store : SameAccount(k, a)
  BY <1>2 DEF Slot, SameAccount
<1> QED BY <1>1, <1>2

\* The balance of an account is an amount of tokens: what its slot holds.
LEMMA BalanceFacts ==
  ASSUME NEW store \in Store, NEW a \in Account
  PROVE  /\ account_balance(store, a) \in Token
         /\ account_balance(store, a) = Holdings(store)[Slot(store, a)]
<1>1. 0 \in Token
  BY MaxTokensAssumption DEF Token
<1> QED BY <1>1, SlotFacts, StoreFacts DEF account_balance, Holdings

\* Every account, in the map or not, holds a natural number of tokens.
LEMMA HoldingsType ==
  ASSUME NEW store \in Store
  PROVE  Holdings(store) \in [Account -> Token] /\ Holdings(store) \in [Account -> Nat]
<1>1. 0 \in Token /\ Token \subseteq Nat
  BY MaxTokensAssumption DEF Token
<1> QED BY <1>1, StoreFacts DEF Holdings

\* BalancesStore::update gives the slot its new value, leaves what the other slots
\* hold alone, and keeps the map a map.
LEMMA UpdateFacts ==
  ASSUME NEW store \in Store, NEW a \in Account, NEW v \in Token
  PROVE  /\ update(store, a, v) \in Store
         /\ Holdings(update(store, a, v))[Slot(store, a)] = v
         /\ \A x \in Account \ {Slot(store, a)} :
               Holdings(update(store, a, v))[x] = Holdings(store)[x]
<1> DEFINE k == Slot(store, a)
           K == IF v = 0 THEN DOMAIN store \ {k} ELSE DOMAIN store \cup {k}
<1>1. k \in Account
  BY SlotFacts
<1>2. K \in SUBSET Account
  BY <1>1, StoreFacts
<1>3. update(store, a, v) \in [K -> Token]
  BY StoreFacts DEF update
<1>4. update(store, a, v) \in Store
  BY <1>2, <1>3, StoreIntro
<1>5. Holdings(update(store, a, v))[k] = v
  BY <1>1, <1>3 DEF Holdings, update
<1>6. \A x \in Account \ {k} : Holdings(update(store, a, v))[x] = Holdings(store)[x]
  BY <1>1, <1>3 DEF Holdings, update
<1> QED BY <1>4, <1>5, <1>6

\* An update changes the circulating tokens by as much as the balance, and no balance
\* exceeds them.
LEMMA CirculatingUpdate ==
  ASSUME NEW store \in Store, NEW a \in Account, NEW v \in Token
  PROVE  /\ Circulating(store) \in Nat
         /\ account_balance(store, a) <= Circulating(store)
         /\ Circulating(update(store, a, v)) \in Nat
         /\ Circulating(update(store, a, v)) = Circulating(store) - account_balance(store, a) + v
<1> DEFINE f == Holdings(store)
           g == Holdings(update(store, a, v))
           k == Slot(store, a)
<1>1. update(store, a, v) \in Store /\ g[k] = v /\ \A x \in Account \ {k} : g[x] = f[x]
  BY UpdateFacts
<1>2. f \in [Account -> Nat] /\ g \in [Account -> Nat] /\ k \in Account
  BY <1>1, HoldingsType, SlotFacts
<1>3. account_balance(store, a) = f[k]
  BY BalanceFacts
<1>4. IsFiniteSet(Account)
  BY AccountAssumption
<1> HIDE DEF f, g, k
<1>5. /\ SumFunction(f) \in Nat
      /\ SumFunction(g) \in Nat
      /\ f[k] <= SumFunction(f)
      /\ SumFunction(g) = SumFunction(f) - f[k] + g[k]
  BY <1>1, <1>2, <1>4, SumUpdate
<1> QED BY <1>1, <1>3, <1>5 DEF Circulating, f, g

\* Balances::new: a book that conserves the tokens and has no entry at all.
LEMMA NewBookFacts == NewBook \in Book /\ Conserved(NewBook)
                      /\ HasNoZeroEntry(NewBook.store) /\ HasOneEntryEach(NewBook.store)
<1>1. << >> \in [{} -> Token] /\ DOMAIN << >> = {}
  OBVIOUS
<1>2. << >> \in Store
  BY <1>1, StoreIntro
<1>3. NewBook \in Book
  BY <1>2, MaxTokensAssumption DEF NewBook, Book, Token
<1>4. \A a \in Account : Holdings(<< >>)[a] = 0
  BY <1>1 DEF Holdings
<1>5. Circulating(<< >>) = 0
  BY <1>2, <1>4, HoldingsType, AccountAssumption, SumOfZeros DEF Circulating
<1>6. Conserved(NewBook)
  BY <1>5, MaxTokensAssumption DEF Conserved, NewBook
<1> QED BY <1>1, <1>3, <1>6 DEF NewBook, HasNoZeroEntry, HasOneEntryEach
-----------------------------------------------------------------------------
\* A debit that is not refused takes exactly the amount out of circulation.
LEMMA DebitFacts ==
  ASSUME NEW store \in Store, NEW a \in Account, NEW amount \in Token,
         CanDebit(store, a, amount)
  PROVE  /\ account_balance(store, a) - amount \in Token
         /\ debit(store, a, amount) \in Store
         /\ Circulating(debit(store, a, amount)) \in Nat
         /\ Circulating(debit(store, a, amount)) = Circulating(store) - amount
<1>1. account_balance(store, a) \in Token /\ amount <= account_balance(store, a)
  BY BalanceFacts, MaxTokensAssumption DEF CanDebit, SubUnderflows, Token
<1>2. account_balance(store, a) - amount \in Token
  BY <1>1, MaxTokensAssumption DEF Token
<1>3. /\ Circulating(store) \in Nat
      /\ debit(store, a, amount) \in Store
      /\ Circulating(debit(store, a, amount)) \in Nat
      /\ Circulating(debit(store, a, amount))
           = Circulating(store) - account_balance(store, a) + (account_balance(store, a) - amount)
  BY <1>2, UpdateFacts, CirculatingUpdate DEF debit
<1> QED BY <1>1, <1>2, <1>3, MaxTokensAssumption DEF Token

\* A credit that keeps the circulating tokens within MaxTokens does not overflow, and
\* brings exactly the amount into circulation.
LEMMA CreditFacts ==
  ASSUME NEW store \in Store, NEW a \in Account, NEW amount \in Token,
         Circulating(store) + amount <= MaxTokens
  PROVE  /\ ~ AddOverflows(account_balance(store, a), amount)
         /\ credit(store, a, amount) \in Store
         /\ Circulating(credit(store, a, amount)) = Circulating(store) + amount
<1> DEFINE b == account_balance(store, a)
           v == b + amount
<1>1. Circulating(store) \in Nat /\ b \in Token /\ b <= Circulating(store)
  BY CirculatingUpdate, BalanceFacts
<1>2. v \in Token
  BY <1>1, MaxTokensAssumption DEF Token
<1>3. /\ credit(store, a, amount) \in Store
      /\ Circulating(credit(store, a, amount)) = Circulating(store) - b + v
  BY <1>2, UpdateFacts, CirculatingUpdate DEF credit
<1> HIDE DEF b
<1>4. ~ AddOverflows(b, amount)
  BY <1>1, <1>2, MaxTokensAssumption DEF AddOverflows, Token
<1>5. Circulating(store) - b + v = Circulating(store) + amount
  BY <1>1, MaxTokensAssumption DEF Token
<1> QED BY <1>3, <1>4, <1>5 DEF b

\* The three kinds of operation and what they carry.
LEMMA OperationFacts ==
  ASSUME NEW o \in Operation
  PROVE  \/ o.op = "mint" /\ o.to \in Account /\ o.amount \in Token
         \/ o.op = "burn" /\ o.from \in Account /\ o.amount \in Token
         \/ /\ o.op = "xfer"
            /\ o.from \in Account /\ o.to \in Account /\ o.amount \in Token /\ o.fee \in Token
BY DEF Operation, Mint, Burn, Transfer

\* Of an amount and a fee that are not refused, the sum is that of the integers.
LEMMA DebitAmount ==
  ASSUME NEW x \in Token, NEW y \in Token, ~ AddOverflows(x, y)
  PROVE  debit_amount(x, y) = x + y /\ x + y \in Token
<1>1. MaxTokens \in Nat /\ Token = 0 .. MaxTokens
  BY MaxTokensAssumption DEF Token
<1>2. x + y \in 0 .. MaxTokens
  BY <1>1 DEF AddOverflows
<1>3. \A n \in Nat : \A m \in 0 .. n : m % (n + 1) = m
  OBVIOUS
<1> QED BY <1>1, <1>2, <1>3 DEF debit_amount

LEMMA TransferSum ==
  ASSUME NEW book, NEW o \in Operation, o.op = "xfer", ~ Refused(book, o)
  PROVE  /\ debit_amount(o.amount, o.fee) = o.amount + o.fee
         /\ o.amount + o.fee \in Token /\ CanDebit(book.store, o.from, o.amount + o.fee)
<1>1. o.amount \in Token /\ o.fee \in Token
  BY OperationFacts
<1>2. ~ AddOverflows(o.amount, o.fee) /\ CanDebit(book.store, o.from, debit_amount(o.amount, o.fee))
  BY DEF Refused
<1> QED BY <1>1, <1>2, DebitAmount

\* What makes the comments in the code true ("overflow is not possible here"): an
\* operation on a book that conserves the tokens does not overflow, and conserves them.
THEOREM AppliedConserves ==
  ASSUME NEW book \in Book, Conserved(book), NEW o \in Operation,
         ~ Refused(book, o), ~ SupplyExceeded(book, o)
  PROVE  /\ ~ Overflows(book, o)
         /\ Applied(book, o) \in Book
         /\ Conserved(Applied(book, o))
<1> DEFINE store == book.store
           pool  == book.token_pool
<1>1. store \in Store /\ pool \in Token /\ book = [store |-> store, token_pool |-> pool]
  BY DEF Book
<1>2. Circulating(store) + pool = MaxTokens
  BY DEF Conserved
<1>3. MaxTokens \in Nat /\ Token = 0 .. MaxTokens
  BY MaxTokensAssumption DEF Token
<1> HIDE DEF store, pool
<1>4. CASE o.op = "xfer"
  <2>1. o.from \in Account /\ o.to \in Account /\ o.amount \in Token /\ o.fee \in Token
    BY <1>4, OperationFacts
  <2>2. /\ debit_amount(o.amount, o.fee) = o.amount + o.fee
        /\ o.amount + o.fee \in Token /\ CanDebit(store, o.from, o.amount + o.fee)
    BY <1>4, TransferSum DEF store
  <2> DEFINE left == debit(store, o.from, o.amount + o.fee)
  <2>3. left \in Store /\ Circulating(left) \in Nat
        /\ Circulating(left) = Circulating(store) - (o.amount + o.fee)
    BY <1>1, <2>1, <2>2, DebitFacts
  <2>3a. Circulating(store) \in Nat
    BY <1>1, <2>1, CirculatingUpdate
  <2> HIDE DEF left
  <2>4. Circulating(left) + o.amount <= MaxTokens
    BY <1>1, <1>2, <1>3, <2>1, <2>3, <2>3a
  <2>5. /\ ~ AddOverflows(account_balance(left, o.to), o.amount)
        /\ credit(left, o.to, o.amount) \in Store
        /\ Circulating(credit(left, o.to, o.amount)) = Circulating(left) + o.amount
    BY <2>1, <2>3, <2>4, CreditFacts
  <2>6. pool + o.fee \in Token
    BY <1>1, <1>2, <1>3, <2>1, <2>3, <2>3a
  <2>7. ~ AddOverflows(pool, o.fee)
    BY <1>3, <2>6 DEF AddOverflows
  <2>8. Applied(book, o) = [store |-> credit(left, o.to, o.amount), token_pool |-> pool + o.fee]
    BY <1>4, <2>2 DEF Applied, transfer, left, store, pool
  <2>9. Circulating(credit(left, o.to, o.amount)) + (pool + o.fee) = MaxTokens
    BY <1>1, <1>2, <1>3, <2>1, <2>3, <2>3a, <2>5
  <2>10. ~ Overflows(book, o)
    BY <1>4, <2>2, <2>5, <2>7 DEF Overflows, left, store, pool
  <2> QED BY <2>5, <2>6, <2>8, <2>9, <2>10 DEF Book, Conserved
<1>5. CASE o.op = "burn"
  <2>1. o.from \in Account /\ o.amount \in Token
    BY <1>5, OperationFacts
  <2>2. CanDebit(store, o.from, o.amount)
    BY <1>5 DEF Refused, store
  <2> DEFINE left == debit(store, o.from, o.amount)
  <2>3. left \in Store /\ Circulating(left) \in Nat /\ Circulating(left) = Circulating(store) - o.amount
    BY <1>1, <2>1, <2>2, DebitFacts
  <2>4. Circulating(store) \in Nat
    BY <1>1, <2>1, CirculatingUpdate
  <2> HIDE DEF left
  <2>5. pool + o.amount \in Token
    BY <1>1, <1>2, <1>3, <2>1, <2>3, <2>4
  <2>6. ~ Overflows(book, o)
    BY <1>3, <1>5, <2>5 DEF Overflows, AddOverflows, pool
  <2>7. Applied(book, o) = [store |-> left, token_pool |-> pool + o.amount]
    BY <1>5 DEF Applied, burn, left, store, pool
  <2>8. Circulating(left) + (pool + o.amount) = MaxTokens
    BY <1>1, <1>2, <1>3, <2>1, <2>3, <2>4
  <2> QED BY <2>3, <2>5, <2>6, <2>7, <2>8 DEF Book, Conserved
<1>6. CASE o.op = "mint"
  <2>1. o.to \in Account /\ o.amount \in Token
    BY <1>6, OperationFacts
  <2>2. o.amount <= pool
    BY <1>1, <1>3, <1>6, <2>1 DEF SupplyExceeded, SubUnderflows, pool
  <2>3. Circulating(store) \in Nat
    BY <1>1, <2>1, CirculatingUpdate
  <2>4. Circulating(store) + o.amount <= MaxTokens /\ pool - o.amount \in Token
    BY <1>1, <1>2, <1>3, <2>1, <2>2, <2>3
  <2>5. /\ ~ AddOverflows(account_balance(store, o.to), o.amount)
        /\ credit(store, o.to, o.amount) \in Store
        /\ Circulating(credit(store, o.to, o.amount)) = Circulating(store) + o.amount
    BY <1>1, <2>1, <2>4, CreditFacts
  <2>6. Applied(book, o) = [store |-> credit(store, o.to, o.amount), token_pool |-> pool - o.amount]
    BY <1>6 DEF Applied, mint, store, pool
  <2>7. Circulating(credit(store, o.to, o.amount)) + (pool - o.amount) = MaxTokens
    BY <1>1, <1>2, <1>3, <2>1, <2>3, <2>5
  <2>8. ~ Overflows(book, o)
    BY <1>6, <2>5 DEF Overflows, store
  <2> QED BY <2>4, <2>5, <2>6, <2>7, <2>8 DEF Book, Conserved
<1> QED BY <1>4, <1>5, <1>6, OperationFacts

\* Entries of a map after an update: none is zero, and no account has two.
LEMMA UpdateEntries ==
  ASSUME NEW store \in Store, HasNoZeroEntry(store), HasOneEntryEach(store),
         NEW a \in Account, NEW v \in Token
  PROVE  /\ HasNoZeroEntry(update(store, a, v))
         /\ HasOneEntryEach(update(store, a, v))
<1> DEFINE k == Slot(store, a)
<1>1. DOMAIN update(store, a, v) = IF v = 0 THEN DOMAIN store \ {k} ELSE DOMAIN store \cup {k}
  BY DEF update
<1>2. \A x \in DOMAIN update(store, a, v) : update(store, a, v)[x] = IF x = k THEN v ELSE store[x]
  BY DEF update
<1>3. HasNoZeroEntry(update(store, a, v))
  BY <1>1, <1>2 DEF HasNoZeroEntry
<1>4. SameAccount(k, a) /\ (k \notin DOMAIN store => \A x \in DOMAIN store : ~ SameAccount(x, a))
  BY SlotFacts
<1>5. \A x \in DOMAIN store : SameAccount(x, k) \/ SameAccount(k, x) => x = k
  BY <1>4 DEF HasOneEntryEach, SameAccount
<1>6. HasOneEntryEach(update(store, a, v))
  BY <1>1, <1>5 DEF HasOneEntryEach
<1> QED BY <1>3, <1>6

\* Executing an operation leaves no zero entry and no account with two entries.
THEOREM AppliedEntries ==
  ASSUME NEW book \in Book, HasNoZeroEntry(book.store), HasOneEntryEach(book.store),
         Conserved(book), NEW o \in Operation, ~ Refused(book, o), ~ SupplyExceeded(book, o)
  PROVE  HasNoZeroEntry(Applied(book, o).store) /\ HasOneEntryEach(Applied(book, o).store)
<1> DEFINE store == book.store
<1>1. store \in Store /\ book.token_pool \in Token
  BY DEF Book
<1>2. MaxTokens \in Nat /\ Token = 0 .. MaxTokens
  BY MaxTokensAssumption DEF Token
<1>3. ~ Overflows(book, o)
  BY AppliedConserves
<1>4. CASE o.op = "xfer"
  <2>1. o.from \in Account /\ o.to \in Account /\ o.amount \in Token /\ o.fee \in Token
    BY <1>4, OperationFacts
  <2>2. /\ debit_amount(o.amount, o.fee) = o.amount + o.fee
        /\ o.amount + o.fee \in Token /\ CanDebit(store, o.from, o.amount + o.fee)
    BY <1>4, TransferSum
  <2> DEFINE left == debit(store, o.from, o.amount + o.fee)
  <2>3. left \in Store /\ account_balance(store, o.from) - (o.amount + o.fee) \in Token
    BY <1>1, <2>1, <2>2, DebitFacts
  <2>4. HasNoZeroEntry(left) /\ HasOneEntryEach(left)
    BY <1>1, <2>1, <2>3, UpdateEntries DEF debit
  <2>5. account_balance(left, o.to) + o.amount \in Token
    <3>1. account_balance(left, o.to) \in Token
      BY <2>1, <2>3, BalanceFacts
    <3> QED BY <1>2, <1>3, <1>4, <2>1, <2>2, <3>1 DEF Overflows, AddOverflows
  <2>6. Applied(book, o).store = credit(left, o.to, o.amount)
    BY <1>4, <2>2 DEF Applied, transfer
  <2> HIDE DEF left
  <2> QED BY <2>1, <2>3, <2>4, <2>5, <2>6, UpdateEntries DEF credit
<1>5. CASE o.op = "burn"
  <2>1. o.from \in Account /\ o.amount \in Token /\ CanDebit(store, o.from, o.amount)
    BY <1>5, OperationFacts DEF Refused
  <2>2. account_balance(store, o.from) - o.amount \in Token
    BY <1>1, <2>1, DebitFacts
  <2>3. Applied(book, o).store = debit(store, o.from, o.amount)
    BY <1>5 DEF Applied, burn
  <2> QED BY <1>1, <2>1, <2>2, <2>3, UpdateEntries DEF debit
<1>6. CASE o.op = "mint"
  <2>1. o.to \in Account /\ o.amount \in Token
    BY <1>6, OperationFacts
  <2>2. account_balance(store, o.to) + o.amount \in Token
    <3>1. account_balance(store, o.to) \in Token
      BY <1>1, <2>1, BalanceFacts
    <3> QED BY <1>2, <1>3, <1>6, <2>1, <3>1 DEF Overflows, AddOverflows
  <2>3. Applied(book, o).store = credit(store, o.to, o.amount)
    BY <1>6 DEF Applied, mint
  <2> QED BY <1>1, <2>1, <2>2, <2>3, UpdateEntries DEF credit
<1> QED BY <1>4, <1>5, <1>6, OperationFacts

\* Executing an operation adds at most one entry to the map.
LEMMA AppliedSize ==
  ASSUME NEW book \in Book, NEW o \in Operation, ~ Refused(book, o)
  PROVE  \E k : DOMAIN Applied(book, o).store \subseteq DOMAIN book.store \cup {k}
<1>1. \A s, a, v : DOMAIN update(s, a, v) \subseteq DOMAIN s \cup {Slot(s, a)}
  BY DEF update
<1>2. \A s, a, v : CanDebit(s, a, v) => DOMAIN debit(s, a, v) \subseteq DOMAIN s
  BY <1>1 DEF debit, CanDebit
<1>3. \A s, a, v : DOMAIN credit(s, a, v) \subseteq DOMAIN s \cup {Slot(s, a)}
  BY <1>1 DEF credit
<1>4. CASE o.op = "xfer"
  <2> DEFINE left == debit(book.store, o.from, debit_amount(o.amount, o.fee))
  <2>1. Applied(book, o).store = credit(left, o.to, o.amount)
    BY <1>4 DEF Applied, transfer
  <2>2. DOMAIN left \subseteq DOMAIN book.store
    BY <1>2, <1>4 DEF Refused
  <2> HIDE DEF left
  <2> QED BY <1>3, <2>1, <2>2
<1>5. CASE o.op = "burn"
  <2>1. Applied(book, o).store = debit(book.store, o.from, o.amount)
    BY <1>5 DEF Applied, burn
  <2> QED BY <1>2, <1>5, <2>1 DEF Refused
<1>6. CASE o.op = "mint"
  <2>1. Applied(book, o).store = credit(book.store, o.to, o.amount)
    BY <1>6 DEF Applied, mint
  <2> QED BY <1>3, <2>1
<1> QED BY <1>4, <1>5, <1>6, OperationFacts
-----------------------------------------------------------------------------
(* What accounts hold, in however many ways they are written. *)

\* What an account holds after an update of another way of writing it.
LEMMA UpdateBalance ==
  ASSUME NEW store \in Store, HasOneEntryEach(store), NEW a \in Account, NEW v \in Token,
         NEW b \in Account
  PROVE  account_balance(update(store, a, v), b)
           = IF SameAccount(a, b) THEN v ELSE account_balance(store, b)
<1> DEFINE k    == Slot(store, a)
           next == update(store, a, v)
<1>1. DOMAIN next = IF v = 0 THEN DOMAIN store \ {k} ELSE DOMAIN store \cup {k}
  BY DEF update
<1>2. \A x \in DOMAIN next : next[x] = IF x = k THEN v ELSE store[x]
  BY DEF update
<1>3. SameAccount(k, a) /\ (k \notin DOMAIN store => \A x \in DOMAIN store : ~ SameAccount(x, a))
  BY SlotFacts
<1>4. next \in Store
  BY UpdateFacts
<1>5. HasOneEntryEach(next)
  <2>1. \A x \in DOMAIN store : SameAccount(x, k) \/ SameAccount(k, x) => x = k
    BY <1>3 DEF HasOneEntryEach, SameAccount
  <2> QED BY <1>1, <2>1 DEF HasOneEntryEach
<1> HIDE DEF next, k
<1>6. \A s \in Store : HasOneEntryEach(s) =>
        \A x \in DOMAIN s : SameAccount(x, b) => account_balance(s, b) = s[x]
  BY DEF HasOneEntryEach, SameAccount, account_balance, Slot
<1>7. \A s \in Store : (\A x \in DOMAIN s : ~ SameAccount(x, b)) => account_balance(s, b) = 0
  BY DEF SameAccount, account_balance, Slot
<1>8. CASE SameAccount(a, b)
  <2>1. CASE v # 0
    <3>1. k \in DOMAIN next /\ SameAccount(k, b) /\ next[k] = v
      BY <1>1, <1>2, <1>3, <1>8, <2>1 DEF SameAccount
    <3> QED BY <1>4, <1>5, <1>6, <1>8, <3>1 DEF next
  <2>2. CASE v = 0
    <3>1. \A x \in DOMAIN store : SameAccount(x, b) => x = k
      BY <1>3, <1>8 DEF HasOneEntryEach, SameAccount
    <3>2. \A x \in DOMAIN next : ~ SameAccount(x, b)
      BY <1>1, <2>2, <3>1
    <3> QED BY <1>4, <1>7, <1>8, <2>2, <3>2 DEF next
  <2> QED BY <2>1, <2>2
<1>9. CASE ~ SameAccount(a, b)
  <2>1. ~ SameAccount(k, b)
    BY <1>3, <1>9 DEF SameAccount
  <2>2. CASE \E x \in DOMAIN store : SameAccount(x, b)
    <3>1. PICK x \in DOMAIN store : SameAccount(x, b)
      BY <2>2
    <3>2. x \in DOMAIN next /\ next[x] = store[x]
      BY <1>1, <1>2, <2>1, <3>1
    <3> QED BY <1>4, <1>5, <1>6, <1>9, <3>1, <3>2 DEF next
  <2>3. CASE ~ \E x \in DOMAIN store : SameAccount(x, b)
    <3>1. \A x \in DOMAIN next : ~ SameAccount(x, b)
      BY <1>1, <2>1, <2>3
    <3> QED BY <1>4, <1>7, <1>9, <2>3, <3>1 DEF next
  <2> QED BY <2>2, <2>3
<1> QED BY <1>8, <1>9

\* However an account is written, it holds the same.
LEMMA SameAccountSameBalance ==
  ASSUME NEW store \in Store, HasOneEntryEach(store), NEW a \in Account, NEW b \in Account,
         SameAccount(a, b)
  PROVE  account_balance(store, a) = account_balance(store, b)
<1>1. CASE \E x \in DOMAIN store : SameAccount(x, a)
  <2>1. PICK x \in DOMAIN store : SameAccount(x, a)
    BY <1>1
  <2>2. SameAccount(x, b)
    BY <2>1 DEF SameAccount
  <2>3. Slot(store, a) = x /\ Slot(store, b) = x
    BY <2>1, <2>2 DEF Slot, HasOneEntryEach, SameAccount
  <2> QED BY <2>3 DEF account_balance
<1>2. CASE ~ \E x \in DOMAIN store : SameAccount(x, a)
  <2>1. ~ \E x \in DOMAIN store : SameAccount(x, b)
    BY <1>2 DEF SameAccount
  <2>2. Slot(store, a) = a /\ Slot(store, b) = b /\ a \notin DOMAIN store /\ b \notin DOMAIN store
    BY <1>2, <2>1 DEF Slot, SameAccount
  <2> QED BY <2>2 DEF account_balance
<1> QED BY <1>1, <1>2

\* What of amount v counts for account b when it is account a that pays or gets it.
Share(a, b, v) == IF SameAccount(a, b) THEN v ELSE 0

\* What every account holds after an operation.
LEMMA AppliedBalances ==
  ASSUME NEW book \in Book, HasNoZeroEntry(book.store), HasOneEntryEach(book.store),
         Conserved(book), NEW o \in Operation, ~ Refused(book, o), ~ SupplyExceeded(book, o),
         NEW b \in Account
  PROVE  LET before == account_balance(book.store, b)
             after  == account_balance(Applied(book, o).store, b)
         IN  /\ before \in Nat /\ after \in Nat
             /\ o.op = "burn" => after = before - Share(o.from, b, o.amount)
             /\ o.op = "mint" => after = before + Share(o.to, b, o.amount)
             /\ o.op = "xfer" => after = before - Share(o.from, b, o.amount + o.fee)
                                              + Share(o.to, b, o.amount)
<1> DEFINE store  == book.store
           before == account_balance(store, b)
           after  == account_balance(Applied(book, o).store, b)
<1>1. store \in Store /\ MaxTokens \in Nat /\ Token = 0 .. MaxTokens
  BY MaxTokensAssumption DEF Book, Token
<1>2. ~ Overflows(book, o) /\ Applied(book, o).store \in Store
  BY AppliedConserves DEF Book
<1>3. before \in Token /\ after \in Token
  BY <1>1, <1>2, BalanceFacts
<1>4. CASE o.op = "xfer"
  <2>1. o.from \in Account /\ o.to \in Account /\ o.amount \in Token /\ o.fee \in Token
    BY <1>4, OperationFacts
  <2> DEFINE left == debit(store, o.from, o.amount + o.fee)
             rest == account_balance(store, o.from) - (o.amount + o.fee)
             sum  == account_balance(left, o.to) + o.amount
  <2>2. /\ debit_amount(o.amount, o.fee) = o.amount + o.fee
        /\ o.amount + o.fee \in Token /\ CanDebit(store, o.from, o.amount + o.fee)
    BY <1>4, TransferSum
  <2>3. left \in Store /\ rest \in Token
    BY <1>1, <2>1, <2>2, DebitFacts
  <2>4. HasOneEntryEach(left)
    BY <1>1, <2>1, <2>3, UpdateEntries DEF debit
  <2>5. sum \in Token
    <3>1. account_balance(left, o.to) \in Token
      BY <2>1, <2>3, BalanceFacts
    <3> QED BY <1>1, <1>2, <1>4, <2>1, <2>2, <3>1 DEF Overflows, AddOverflows
  <2>6. Applied(book, o).store = update(left, o.to, sum)
    BY <1>4, <2>2 DEF Applied, transfer, credit
  <2>7. /\ account_balance(left, b) = IF SameAccount(o.from, b) THEN rest ELSE before
        /\ SameAccount(o.from, b) => account_balance(store, o.from) = before
    BY <1>1, <2>1, <2>3, UpdateBalance, SameAccountSameBalance DEF debit
  <2> HIDE DEF left
  <2>8. /\ after = IF SameAccount(o.to, b) THEN sum ELSE account_balance(left, b)
        /\ SameAccount(o.to, b) => account_balance(left, o.to) = account_balance(left, b)
    BY <2>1, <2>3, <2>4, <2>5, <2>6, UpdateBalance, SameAccountSameBalance
  <2> DEFINE mid == account_balance(left, b)
             fin == account_balance(Applied(book, o).store, b)
  <2> HIDE DEF before, mid, fin, store
  <2>9. mid = before - Share(o.from, b, o.amount + o.fee) /\ mid \in Int
    BY <1>1, <1>3, <2>1, <2>3, <2>7 DEF Share, mid
  <2>10. fin = mid + Share(o.to, b, o.amount)
    BY <1>1, <2>1, <2>8, <2>9 DEF Share, mid, fin
  <2> QED BY <1>1, <1>3, <1>4, <2>9, <2>10 DEF fin, before, store
<1>5. CASE o.op = "burn"
  <2>1. o.from \in Account /\ o.amount \in Token /\ CanDebit(store, o.from, o.amount)
    BY <1>5, OperationFacts DEF Refused
  <2>2. account_balance(store, o.from) - o.amount \in Token
    BY <1>1, <2>1, DebitFacts
  <2>3. Applied(book, o).store = update(store, o.from, account_balance(store, o.from) - o.amount)
    BY <1>5 DEF Applied, burn, debit
  <2>4. /\ after = IF SameAccount(o.from, b) THEN account_balance(store, o.from) - o.amount
                                             ELSE before
        /\ SameAccount(o.from, b) => account_balance(store, o.from) = before
    BY <1>1, <2>1, <2>2, <2>3, UpdateBalance, SameAccountSameBalance
  <2>5. after = before - Share(o.from, b, o.amount)
    <3> HIDE DEF after, before, store
    <3> QED BY <1>1, <1>3, <2>1, <2>4 DEF Share
  <2> QED BY <1>1, <1>3, <1>5, <2>5
<1>6. CASE o.op = "mint"
  <2>1. o.to \in Account /\ o.amount \in Token
    BY <1>6, OperationFacts
  <2>2. account_balance(store, o.to) + o.amount \in Token
    <3>1. account_balance(store, o.to) \in Token
      BY <1>1, <2>1, BalanceFacts
    <3> QED BY <1>1, <1>2, <1>6, <2>1, <3>1 DEF Overflows, AddOverflows
  <2>3. Applied(book, o).store = update(store, o.to, account_balance(store, o.to) + o.amount)
    BY <1>6 DEF Applied, mint, credit
  <2>4. /\ after = IF SameAccount(o.to, b) THEN account_balance(store, o.to) + o.amount
                                           ELSE before
        /\ SameAccount(o.to, b) => account_balance(store, o.to) = before
    BY <1>1, <2>1, <2>2, <2>3, UpdateBalance, SameAccountSameBalance
  <2>5. after = before + Share(o.to, b, o.amount)
    <3> HIDE DEF after, before, store
    <3> QED BY <1>1, <1>3, <2>1, <2>4 DEF Share
  <2> QED BY <1>1, <1>3, <1>6, <2>5
<1> QED BY <1>4, <1>5, <1>6, OperationFacts

\* When entries are taken out of a map, an account holds what it held, or nothing, if
\* it is its entry that was taken out.
LEMMA RemovalBalances ==
  ASSUME NEW store \in Store, HasOneEntryEach(store), NEW gone,
         NEW left \in Store, DOMAIN left = DOMAIN store \ gone,
         \A x \in DOMAIN left : left[x] = store[x], NEW b \in Account
  PROVE  \/ account_balance(left, b) = account_balance(store, b)
         \/ account_balance(left, b) = 0 /\ \E x \in gone : SameAccount(b, x)
<1>1. \A s \in Store : (\A x \in DOMAIN s : ~ SameAccount(x, b)) => account_balance(s, b) = 0
  BY DEF SameAccount, account_balance, Slot
<1>2. HasOneEntryEach(left)
  BY DEF HasOneEntryEach
<1>3. \A s \in Store : HasOneEntryEach(s) =>
        \A x \in DOMAIN s : SameAccount(x, b) => account_balance(s, b) = s[x]
  BY DEF HasOneEntryEach, SameAccount, account_balance, Slot
<1>4. CASE \E x \in DOMAIN store : SameAccount(x, b)
  <2>1. PICK x \in DOMAIN store : SameAccount(x, b)
    BY <1>4
  <2>2. CASE x \in gone
    <3>1. \A y \in DOMAIN left : ~ SameAccount(y, b)
      BY <2>1, <2>2 DEF HasOneEntryEach, SameAccount
    <3>2. SameAccount(b, x)
      BY <2>1 DEF SameAccount
    <3> QED BY <1>1, <2>2, <3>1, <3>2
  <2>3. CASE x \notin gone
    <3>1. x \in DOMAIN left /\ left[x] = store[x]
      BY <2>1, <2>3
    <3> QED BY <1>2, <1>3, <2>1, <3>1
  <2> QED BY <2>2, <2>3
<1>5. CASE ~ \E x \in DOMAIN store : SameAccount(x, b)
  <2>1. \A y \in DOMAIN left : ~ SameAccount(y, b)
    BY <1>5
  <2> QED BY <1>1, <1>5, <2>1
<1> QED BY <1>4, <1>5
=============================================================================
