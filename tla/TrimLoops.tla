----------------------------- MODULE TrimLoops -----------------------------
(***************************************************************************)
(* The two loops of select_accounts_to_trim: the first fills the heap, the *)
(* second goes through the rest of the map and exchanges the greatest      *)
(* entry of the heap for a lower one.  The map is a HashMap and gives its  *)
(* entries in any order.  The heap is the set of the accounts in it; of    *)
(* entries with the greatest balance the one with the greatest account is  *)
(* on top, which is left open here.                                        *)
(***************************************************************************)
EXTENDS TrimSelection

CONSTANT Stores   \* the maps of balances with which the function may be called

ASSUME StoresAssumption == Stores \subseteq Store

VARIABLES store, rest, to_trim   \* the map, what the iterator has yet to give, and the heap

loop_vars == <<store, rest, to_trim>>

Visited == DOMAIN store \ rest

TopOfHeap(heap) == {a \in heap : \A b \in heap : store[b] <= store[a]}

LoopInit == store \in Stores /\ rest = DOMAIN store /\ to_trim = {}

\* The first loop: iter.by_ref().take(num_accounts).
Filling == Cardinality(Visited) < AccountsOverflowTrimQuantity

Fill(a) ==
  /\ Filling
  /\ to_trim' = to_trim \cup {a}

\* Fault: the heap is taken for one with the least entry on top.
IsLower_ThanLeast(a) == \A b \in to_trim : store[a] < store[b]

IsLower(a) == \E b \in TopOfHeap(to_trim) : store[a] < store[b]

\* The new entry is pushed, and then the greatest popped.
Exchange(a) ==
  /\ ~Filling
  /\ IF IsLower(a)
     THEN \E b \in TopOfHeap(to_trim \cup {a}) : to_trim' = (to_trim \cup {a}) \ {b}
     ELSE UNCHANGED to_trim

Visit(a) == (Fill(a) \/ Exchange(a)) /\ rest' = rest \ {a} /\ UNCHANGED store

LoopNext == \E a \in rest : Visit(a)

LoopSpec == LoopInit /\ [][LoopNext]_loop_vars
-----------------------------------------------------------------------------
(* Properties. *)

\* Whatever the order of the map, at the end the heap holds as many accounts as are to
\* be trimmed, none of them richer than one that is spared, so that its array is one of
\* those that the ledger's model selects from.
Selected ==
  /\ Cardinality(to_trim) = NumberToTrim(store)
  /\ to_trim \subseteq DOMAIN store
  /\ Poorest(store, to_trim)

SelectsThePoorest == rest = {} => Selected
=============================================================================
