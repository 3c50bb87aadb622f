----------------------------- MODULE TokenBank -----------------------------
(***************************************************************************)
(* What the balance book promises: each owner has a holding, the bank has  *)
(* a pool, and tokens move between them in three ways, never from an owner *)
(* who does not have them.  It is the specification that Balances          *)
(* implements; nothing in it says how holdings are stored.                 *)
(***************************************************************************)
EXTENDS Integers

CONSTANTS Owner, Supply

VARIABLES holding, pool

vars == <<holding, pool>>

Init == holding = [k \in Owner |-> 0] /\ pool = Supply

\* k pays n tokens to l, who may be k, and a fee to the bank.
Pay(k, l, n, fee) ==
  /\ n + fee <= holding[k]
  /\ LET paid == [holding EXCEPT ![k] = @ - n - fee]
     IN  holding' = [paid EXCEPT ![l] = @ + n]
  /\ pool' = pool + fee

\* k hands n tokens back to the bank.
Retire(k, n) ==
  /\ n <= holding[k]
  /\ holding' = [holding EXCEPT ![k] = @ - n]
  /\ pool' = pool + n

\* The bank hands n tokens of its pool to k.
Issue(k, n) ==
  /\ n <= pool
  /\ holding' = [holding EXCEPT ![k] = @ + n]
  /\ pool' = pool - n

Next ==
  \E k \in Owner, n \in 0 .. Supply :
    \/ \E l \in Owner, fee \in 0 .. Supply : Pay(k, l, n, fee)
    \/ Retire(k, n)
    \/ Issue(k, n)

Spec == Init /\ [][Next]_vars
=============================================================================
