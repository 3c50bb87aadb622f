-------------------------- MODULE MCLedgerThrottle --------------------------
(***************************************************************************)
(* Throttling on small instances: four transactions in a window of two     *)
(* seconds, so two of them freely and then one a second.  A second is two  *)
(* ticks.  The transactions move no tokens and differ only in their memos, *)
(* which are symmetric, and in whether they ask for deduplication.         *)
(***************************************************************************)
EXTENDS Ledger, TLC

CONSTANTS alice, CallerMemo, CreatedAt

MCKeyOf == [a \in {alice} |-> a]

MCTransaction == {[operation |-> MintOp(alice, 0), created_at_time |-> t, memo |-> m] :
                    t \in CreatedAt, m \in CallerMemo}

MCMemo == CallerMemo \cup {TrimmedMemo}

MCSymmetry == Permutations(CallerMemo)
=============================================================================
