----------------------------- MODULE MCBalances -----------------------------
(***************************************************************************)
(* The balance book on four ways of writing three accounts: alice and      *)
(* alice0 are one account, its subaccount absent or spelled out as zeros.  *)
(***************************************************************************)
EXTENDS Balances

CONSTANTS alice, alice0, bob, carol

MCKeyOf == [a \in {alice, alice0, bob, carol} |-> IF a = alice0 THEN alice ELSE a]
=============================================================================
