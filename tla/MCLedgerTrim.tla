---------------------------- MODULE MCLedgerTrim ----------------------------
(***************************************************************************)
(* Trimming on small instances: with a maximum of one account and a trim   *)
(* quantity of two, the third account starts a trimming.  Mints of         *)
(* different and of equal amounts make ties and rankings, a transfer and   *)
(* a burn change them, one burn is too large, and one request is a burn    *)
(* that looks exactly like the ledger's own.                               *)
(***************************************************************************)
EXTENDS Ledger

CONSTANTS alice, bob, carol, dan, noMemo

MCKeyOf == [a \in {alice, bob, carol, dan} |-> a]

Plain(o) == [operation |-> o, created_at_time |-> None, memo |-> noMemo]

MCTransaction ==
  {Plain(MintOp(alice, 3)), Plain(MintOp(bob, 2)), Plain(MintOp(carol, 2)),
   Plain(TransferOp(alice, dan, 1, 1)),
   Plain(BurnOp(carol, MaxTokens)), TrimBurn(bob, 2, StartTime)}
=============================================================================
