----------------------------- MODULE MCCanister -----------------------------
(***************************************************************************)
(* The canister on small instances: two principals, one of which holds the *)
(* minting account, and subaccounts that are absent, all-zero or other.    *)
(* Several installations, most of which fail: an entry that repeats        *)
(* another, two entries that write one account differently, entries that   *)
(* exceed the supply, one for the minting account itself, and one account  *)
(* more than is kept, so that the first is trimmed before the installation *)
(* is over.                                                                *)
(***************************************************************************)
EXTENDS Canister

CONSTANTS minter, alice, zero, sub, noMemo

Written(p, s) == [owner |-> p, subaccount |-> s]

MCKeyOf == [a \in WrittenAccount |-> AccountKey(a)]

Entry(a, n) == [account |-> a, balance |-> n]

Args(fee, entries) ==
  [minting_account |-> Written(minter, NoSubaccount), transfer_fee |-> fee, initial_balances |-> entries]

MCInitArgs ==
  LET plain == Written(alice, NoSubaccount)
  IN  {Args(2, <<Entry(plain, 3), Entry(Written(alice, zero), 3)>>),
       Args(2, <<Entry(Written(minter, zero), 1), Entry(plain, 3)>>),
       Args(0, <<Entry(plain, 2), Entry(plain, 2)>>),
       Args(2, <<Entry(plain, 5), Entry(Written(alice, sub), 4)>>),
       Args(2, <<Entry(Written(minter, sub), 1), Entry(plain, 2), Entry(Written(alice, sub), 3)>>)}

Call(caller, from, to, amount, fee, time) ==
  [caller |-> caller,
   arg    |-> [from_subaccount |-> from, to |-> to, amount |-> amount, fee |-> fee,
               created_at_time |-> time, memo |-> noMemo]]

\* To another account, naming no fee, the fee, and another; to the minting account,
\* written in two ways; too much; and, from the minter, a mint and a burn.
MCRequest ==
  {Call(alice, NoSubaccount, Written(alice, sub), 1, fee, 2) : fee \in {None, 2, 1}}
    \cup {Call(alice, from, Written(minter, zero), 1, None, 2) : from \in {zero, sub}}
    \cup {Call(minter, NoSubaccount, Written(minter, NoSubaccount), 1, 0, None),
          Call(alice, sub, Written(alice, NoSubaccount), MaxTokens + 1, None, 1),
          Call(minter, zero, Written(alice, NoSubaccount), 1, None, 2)}

MCTransaction ==
  UNION {{InitialMint(cfg, i) : i \in DOMAIN cfg.initial_balances} : cfg \in MCInitArgs}
    \cup {TransactionFor(cfg, q.caller, q.arg) :
            cfg \in MCInitArgs, q \in {r \in MCRequest : ~TooMuch(r.arg)}}

MCMemo == {noMemo, None, TrimmedMemo}
=============================================================================
