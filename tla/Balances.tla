------------------------------ MODULE Balances ------------------------------
(***************************************************************************)
(* The balance book on its own: any sequence of transfers, burns and mints *)
(* applied to the book that Balances::new returns, each with any amount    *)
(* and fee.  A call ends in one of three ways: it is done; it returns      *)
(* InsufficientFunds; or it panics, and then the canister traps and its    *)
(* state is what it was before the message.                                *)
(***************************************************************************)
EXTENDS BalanceBook

VARIABLES balances,     \* the book
          outcome       \* how the last call ended

vars == <<balances, outcome>>

Outcome == {"none", "done", "InsufficientFunds", "total token supply exceeded", "overflow"}

Init == balances = NewBook /\ outcome = "none"

Done(o) ==
  /\ ~Refused(balances, o) /\ ~SupplyExceeded(balances, o) /\ ~Overflows(balances, o)
  /\ balances' = Applied(balances, o)
  /\ outcome' = "done"

InsufficientFunds(o) ==
  /\ Refused(balances, o)
  /\ outcome' = "InsufficientFunds"
  /\ UNCHANGED balances

\* A mint looks at the pool before it looks at the account.
Panic(o) ==
  /\ ~Refused(balances, o)
  /\ SupplyExceeded(balances, o) \/ Overflows(balances, o)
  /\ outcome' = IF SupplyExceeded(balances, o) THEN "total token supply exceeded" ELSE "overflow"
  /\ UNCHANGED balances

Call(o) == Done(o) \/ InsufficientFunds(o) \/ Panic(o)

Next == \E o \in Operation : Call(o)

Spec == Init /\ [][Next]_vars
-----------------------------------------------------------------------------
(* Properties. *)

\* The map holds amounts under accounts, and the pool is an amount: no
\* subtraction went below zero and no addition above Tokens::MAX.
TypeOK ==
  /\ balances \in Book
  /\ outcome \in Outcome

\* No token is created or lost by any sequence of calls: what the accounts hold
\* and what is in the pool make up Tokens::MAX.
Conservation == Conserved(balances)

\* The map holds no empty entry, so its size (which decides when accounts are
\* trimmed) counts the accounts that own something.
NoZeroEntry == HasNoZeroEntry(balances.store)

\* However its subaccount is written, an account has one entry in the map.
OneEntryPerAccount == HasOneEntryEach(balances.store)

\* The overflows that the comments in transfer and credit rule out ("not possible
\* here unless there is a severe bug") happen after no sequence of calls.
NoOverflow == outcome # "overflow"

\* To those who use it the book is a plain bank: one holding for each owner and
\* effective subaccount, and a pool.  Ways of writing an account, vacant slots and
\* removed entries cannot be seen.
BankAccount == {KeyOf[a] : a \in Account}

HoldingOf(k) == account_balance(balances.store, CHOOSE a \in Account : KeyOf[a] = k)

Bank == INSTANCE TokenBank WITH Owner   <- BankAccount,
                                Supply  <- MaxTokens,
                                holding <- [k \in BankAccount |-> HoldingOf(k)],
                                pool    <- balances.token_pool

ImplementsBank == Bank!Spec
=============================================================================
