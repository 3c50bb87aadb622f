------------------------------ MODULE MCClient ------------------------------
(***************************************************************************)
(* Two orders: one that its account could pay for twice, and one from the  *)
(* minter for more than there can be, which traps.  Clocks are behind, or  *)
(* so far ahead that the ledger refuses the order at first.  The throttle  *)
(* lets one transaction a second through.  A small mint of the minter      *)
(* competes with the orders for it: it can be executed while the last of   *)
(* them is acceptable, or in the second in which the clock stops, and then *)
(* the throttle stays closed.  Every accepted call may start a trimming.   *)
(***************************************************************************)
EXTENDS Client

CONSTANTS minter, alice, zero, sub, noMemo

Written(p, s) == [owner |-> p, subaccount |-> s]

MCKeyOf == [a \in WrittenAccount |-> AccountKey(a)]

MCInitArgs ==
  {[minting_account  |-> Written(minter, NoSubaccount),
    transfer_fee     |-> 1,
    initial_balances |-> <<[account |-> Written(alice, zero), balance |-> 5]>>]}

Call(caller, to, amount, time) ==
  [caller |-> caller,
   arg    |-> [from_subaccount |-> NoSubaccount, to |-> to, amount |-> amount, fee |-> None,
               created_at_time |-> time, memo |-> noMemo]]

Calls(time) ==
  {Call(alice, Written(alice, sub), 1, time), Call(minter, Written(alice, zero), MaxTokens, time)}

MCClockError == {-1, 2}

MCOrder == Calls(None)

MCOtherRequest == {Call(minter, Written(alice, sub), 1, MaxNow - 1)}

MCRequest == UNION {Calls(t) : t \in StartTime - 1 .. LastOrder + 2} \cup MCOtherRequest

MCTransaction ==
  {InitialMint(cfg, 1) : cfg \in MCInitArgs}
    \cup {TransactionFor(cfg, q.caller, q.arg) : cfg \in MCInitArgs, q \in MCRequest}

MCMemo == {noMemo, None, TrimmedMemo}
=============================================================================
