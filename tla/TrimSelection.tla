--------------------------- MODULE TrimSelection ---------------------------
(***************************************************************************)
(* Which accounts are trimmed (select_accounts_to_trim in                  *)
(* mini_ledger/src/lib.rs): what the function promises.  Module TrimLoops  *)
(* has the loops that keep the promise.                                    *)
(***************************************************************************)
EXTENDS BalanceBook, Sequences, FiniteSetsExt

CONSTANT AccountsOverflowTrimQuantity \* ACCOUNTS_OVERFLOW_TRIM_QUANTITY

ASSUME TrimQuantityAssumption == AccountsOverflowTrimQuantity \in Nat \ {0}

\* Fault: the richest accounts are selected.
Poorest_Richest(store, chosen) ==
  \A a \in chosen, b \in DOMAIN store \ chosen : store[a] >= store[b]

Poorest(store, chosen) ==
  \A a \in chosen, b \in DOMAIN store \ chosen : store[a] <= store[b]

NumberToTrim(store) == Min({AccountsOverflowTrimQuantity, Cardinality(DOMAIN store)})

\* The lowest balances, any of those that tie for the last place (the HashMap's order
\* decides), as the array of a max-heap.
select_accounts_to_trim(store) ==
  LET n == NumberToTrim(store)
  IN  {s \in [1 .. n -> DOMAIN store] :
         /\ IsInjective(s)
         /\ Poorest(store, Range(s))
         /\ \A i \in 2 .. n : store[s[i]] <= store[s[i \div 2]]}
=============================================================================
