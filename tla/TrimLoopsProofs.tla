-------------------------- MODULE TrimLoopsProofs --------------------------
(***************************************************************************)
(* The selection of the accounts to trim is right for every map, every     *)
(* order in which the map is gone through, and every quantity.             *)
(***************************************************************************)
EXTENDS TrimLoops, BalanceBookProofs

\* The heap holds the poorest of the accounts that were visited: all of them in the
\* first loop, as many as are to be trimmed in the second.
LoopInv ==
  /\ store \in Store
  /\ rest \subseteq DOMAIN store
  /\ to_trim \subseteq Visited
  /\ Filling => to_trim = Visited
  /\ ~ Filling => Cardinality(to_trim) = AccountsOverflowTrimQuantity
  /\ \A a \in to_trim, b \in Visited \ to_trim : store[a] <= store[b]

\* A heap that is not empty has a top.
LEMMA TopExists ==
  ASSUME store \in Store, NEW heap \in SUBSET (DOMAIN store), heap # {}
  PROVE  TopOfHeap(heap) # {}
<1> DEFINE S == DOMAIN store
           Good == {T \in SUBSET S : T = {} \/ \E a \in T : \A b \in T : store[b] <= store[a]}
<1>1. IsFiniteSet(S) /\ \A a \in S : store[a] \in Nat
  BY StoreFacts, AccountAssumption, FS_Subset DEF Token
<1>2. ASSUME NEW T \in SUBSET S, \A U \in SUBSET T : U # T => U \in Good PROVE T \in Good
  <2>1. CASE T = {}
    BY <2>1
  <2>2. CASE T # {}
    <3>1. PICK x \in T : TRUE
      BY <2>2
    <3>2. T \ {x} \in Good
      BY <1>2, <3>1
    <3>3. CASE T \ {x} = {}
      BY <1>1, <3>1, <3>3
    <3>4. CASE T \ {x} # {}
      <4>1. PICK a \in T \ {x} : \A b \in T \ {x} : store[b] <= store[a]
        BY <3>2, <3>4
      <4>2. CASE store[x] <= store[a]
        BY <4>1, <4>2
      <4>3. CASE ~ (store[x] <= store[a])
        BY <1>1, <3>1, <4>1, <4>3
      <4> QED BY <4>2, <4>3
    <3> QED BY <3>3, <3>4
  <2> QED BY <2>1, <2>2
<1>3. Good = SUBSET S
  <2>1. Good \in SUBSET (SUBSET S)
    OBVIOUS
  <2> HIDE DEF Good, S
  <2> QED BY <1>1, <1>2, <2>1, SubsetInduction
<1>4. heap \in Good
  BY <1>3
<1> QED BY <1>4 DEF TopOfHeap

LEMMA LoopInit_Inv == LoopInit => LoopInv
<1> SUFFICES ASSUME LoopInit PROVE LoopInv
  OBVIOUS
<1>1. Visited = {}
  BY DEF LoopInit, Visited
<1>2. Filling
  BY <1>1, FS_EmptySet, TrimQuantityAssumption DEF Filling
<1> QED BY <1>1, <1>2, StoresAssumption DEF LoopInit, LoopInv

\* What visiting an account does to the number of those visited.
LEMMA VisitedFacts ==
  ASSUME LoopInv, NEW a \in rest, rest' = rest \ {a}, UNCHANGED store
  PROVE  /\ Visited' = Visited \cup {a} /\ a \notin Visited
         /\ IsFiniteSet(Visited) /\ Cardinality(Visited) \in Nat
         /\ Cardinality(Visited') = Cardinality(Visited) + 1
<1>1. Visited' = Visited \cup {a} /\ a \notin Visited
  BY DEF LoopInv, Visited
<1>2. IsFiniteSet(Visited)
  BY StoreFacts, AccountAssumption, FS_Subset DEF LoopInv, Visited
<1> QED BY <1>1, <1>2, FS_CardinalityType, FS_AddElement

LEMMA FillStep ==
  ASSUME LoopInv, NEW a \in rest, Fill(a), rest' = rest \ {a}, UNCHANGED store
  PROVE  LoopInv'
<1>1. to_trim = Visited /\ to_trim' = Visited'
  BY VisitedFacts DEF LoopInv, Fill
<1>2. ~ Filling' => Cardinality(to_trim') = AccountsOverflowTrimQuantity
  BY <1>1, VisitedFacts, TrimQuantityAssumption DEF Fill, Filling
<1>3. store' \in Store /\ rest' \subseteq DOMAIN store'
  BY DEF LoopInv
<1> QED BY <1>1, <1>2, <1>3 DEF LoopInv

LEMMA ExchangeStep ==
  ASSUME LoopInv, NEW a \in rest, Exchange(a), rest' = rest \ {a}, UNCHANGED store
  PROVE  LoopInv'
<1> DEFINE q == AccountsOverflowTrimQuantity
<1>1. store' \in Store /\ rest' \subseteq DOMAIN store'
  BY DEF LoopInv
<1>2. ~ Filling /\ ~ Filling'
  BY VisitedFacts, TrimQuantityAssumption DEF Exchange, Filling
<1>3. /\ Cardinality(to_trim) = q /\ IsFiniteSet(to_trim) /\ to_trim # {}
      /\ to_trim \subseteq DOMAIN store /\ a \in DOMAIN store /\ a \notin to_trim
      /\ \A b \in DOMAIN store : store[b] \in Nat
  <2>1. Cardinality(to_trim) = q /\ IsFiniteSet(to_trim)
    BY <1>2, VisitedFacts, FS_Subset DEF LoopInv
  <2>2. to_trim # {}
    BY <2>1, FS_EmptySet, TrimQuantityAssumption
  <2> QED BY <2>1, <2>2, StoreFacts, VisitedFacts DEF LoopInv, Visited, Token
<1>4. \A x \in to_trim, y \in Visited \ to_trim : store[x] <= store[y]
  BY DEF LoopInv
<1>5. CASE IsLower(a)
  <2>1. PICK b \in TopOfHeap(to_trim \cup {a}) : to_trim' = (to_trim \cup {a}) \ {b}
    BY <1>5 DEF Exchange
  <2>2. PICK t \in to_trim : store[a] < store[t]
    BY <1>5 DEF IsLower, TopOfHeap
  <2>3. Cardinality(to_trim') = q
    <3>1. /\ IsFiniteSet(to_trim \cup {a}) /\ Cardinality(to_trim \cup {a}) = q + 1
      BY <1>3, FS_AddElement
    <3>2. b \in to_trim \cup {a}
      BY <2>1 DEF TopOfHeap
    <3>3. Cardinality((to_trim \cup {a}) \ {b}) = (q + 1) - 1
      BY <3>1, <3>2, FS_RemoveElement
    <3> QED BY <2>1, <3>3, TrimQuantityAssumption
  <2>4. to_trim' \subseteq Visited'
    BY <2>1, VisitedFacts DEF LoopInv
  <2>5. ASSUME NEW x \in to_trim', NEW y \in Visited' \ to_trim' PROVE store'[x] <= store'[y]
    <3>1. x \in to_trim \cup {a} /\ (y = b \/ y \in Visited \ to_trim)
      BY <2>1, <2>5, VisitedFacts
    <3>2. CASE y = b
      BY <2>1, <3>1, <3>2 DEF TopOfHeap
    <3>3. CASE y \in Visited \ to_trim
      <4>1. y \in DOMAIN store
        BY <3>3 DEF Visited
      <4> QED BY <1>3, <1>4, <2>2, <3>1, <3>3, <4>1
    <3> QED BY <3>1, <3>2, <3>3
  <2> QED BY <1>1, <1>2, <2>3, <2>4, <2>5 DEF LoopInv
<1>6. CASE ~ IsLower(a)
  <2>1. to_trim' = to_trim
    BY <1>6 DEF Exchange
  <2>2. PICK t \in TopOfHeap(to_trim) : ~ (store[a] < store[t])
    BY <1>3, <1>6, TopExists DEF IsLower, LoopInv
  <2>3. \A x \in to_trim : store[x] <= store[a]
    BY <1>3, <2>2 DEF TopOfHeap
  <2>4. \A x \in to_trim', y \in Visited' \ to_trim' : store'[x] <= store'[y]
    BY <1>4, <2>1, <2>3, VisitedFacts
  <2> QED BY <1>1, <1>2, <1>3, <2>1, <2>4, VisitedFacts DEF LoopInv
<1> QED BY <1>5, <1>6

LEMMA LoopInvariance == LoopSpec => []LoopInv
<1>1. LoopInv /\ [LoopNext]_loop_vars => LoopInv'
  <2>1. LoopInv /\ UNCHANGED loop_vars => LoopInv'
    BY DEF LoopInv, Visited, Filling, loop_vars
  <2> QED BY <2>1, FillStep, ExchangeStep DEF LoopNext, Visit
<1> QED BY <1>1, LoopInit_Inv, PTL DEF LoopSpec

\* Whatever the map and the order in which it gives its entries, the loops select what
\* the model of the ledger assumes of them: as many accounts as are to be trimmed, and
\* none that is richer than an account that is spared.
THEOREM LoopsSelect == LoopSpec => []SelectsThePoorest
<1>1. LoopInv => SelectsThePoorest
  <2> SUFFICES ASSUME LoopInv, rest = {} PROVE Selected
    BY DEF SelectsThePoorest
  <2>1. Visited = DOMAIN store
    BY DEF Visited
  <2>2. Cardinality(DOMAIN store) \in Nat
    BY StoreFacts, AccountAssumption, FS_Subset, FS_CardinalityType DEF LoopInv
  <2>3. NumberToTrim(store) = IF Filling THEN Cardinality(DOMAIN store) ELSE AccountsOverflowTrimQuantity
    BY <2>1, <2>2, TrimQuantityAssumption DEF NumberToTrim, Min, Filling
  <2>4. Cardinality(to_trim) = NumberToTrim(store)
    BY <2>1, <2>3 DEF LoopInv
  <2> QED BY <2>1, <2>4 DEF LoopInv, Selected, Poorest
<1> QED BY <1>1, LoopInvariance, PTL
=============================================================================
