--------------------------- MODULE MCLedgerDedup ---------------------------
(***************************************************************************)
(* Deduplication on small instances: a window of two ticks, a drift of     *)
(* one, one transaction purged per call, and requests that differ in their *)
(* time of creation or only in how they write the account.  No throttling  *)
(* and no trimming.                                                        *)
(***************************************************************************)
EXTENDS Ledger

CONSTANTS alice, alice0, noMemo

MCKeyOf == [a \in {alice, alice0} |-> alice]

MintAt(a, amount, t) == [operation |-> MintOp(a, amount), created_at_time |-> t, memo |-> noMemo]

MCTransaction ==
  {MintAt(alice, 1, 2), MintAt(alice0, 1, 2), MintAt(alice, 1, 4),
   MintAt(alice, 2, None), MintAt(alice, 1, MaxTimeStamp),
   [operation |-> BurnOp(alice, 1), created_at_time |-> 3, memo |-> noMemo]}
=============================================================================
