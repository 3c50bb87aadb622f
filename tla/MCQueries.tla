----------------------------- MODULE MCQueries -----------------------------
(***************************************************************************)
(* An auditor who reads two blocks at a time from a chain of up to six, on *)
(* which mints, transfers, burns and trimmings are written.  A usize has   *)
(* three bits here and a u64 six.                                          *)
(***************************************************************************)
EXTENDS Queries

CONSTANTS alice, bob, carol, noMemo

MCKeyOf == [a \in {alice, bob, carol} |-> a]

Plain(o) == [operation |-> o, created_at_time |-> None, memo |-> noMemo]

MCTransaction ==
  {Plain(MintOp(alice, 3)), Plain(MintOp(bob, 1)), Plain(TransferOp(alice, carol, 1, 1)),
   Plain(BurnOp(alice, 2))}
=============================================================================
