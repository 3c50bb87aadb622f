---------------------------- MODULE MCTrimLoops ----------------------------
(***************************************************************************)
(* Every map of up to five accounts with balances up to three, ties        *)
(* included, from which two are to be trimmed: fewer than that are there,  *)
(* as many, or more.                                                       *)
(***************************************************************************)
EXTENDS TrimLoops

MCKeyOf == [a \in Account |-> a]

MCStores == UNION {[K -> 1 .. MaxTokens] : K \in SUBSET Account}
=============================================================================
