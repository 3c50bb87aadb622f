------------------------------ MODULE Accounts ------------------------------
(***************************************************************************)
(* Accounts (mini_ledger/src/account.rs): an owner and an optional         *)
(* subaccount.  An absent subaccount stands for the all-zero one wherever  *)
(* accounts are compared, hashed or ordered.                               *)
(***************************************************************************)
EXTENDS Integers

CONSTANTS Principal,         \* owners
          Subaccount,        \* arrays of 32 bytes
          DefaultSubaccount, \* DEFAULT_SUBACCOUNT
          NoSubaccount       \* the subaccount is None

ASSUME SubaccountAssumption == DefaultSubaccount \in Subaccount /\ NoSubaccount \notin Subaccount

WrittenAccount == [owner : Principal, subaccount : Subaccount \cup {NoSubaccount}]

effective_subaccount(a) ==
  IF a.subaccount = NoSubaccount THEN DefaultSubaccount ELSE a.subaccount

\* What Account::eq compares and Account::hash hashes.
AccountKey(a) == [owner |-> a.owner, subaccount |-> effective_subaccount(a)]
=============================================================================
