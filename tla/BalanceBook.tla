---------------------------- MODULE BalanceBook ----------------------------
(***************************************************************************)
(* The balance book (mini_ledger_core/src/balances.rs), as operators on a  *)
(* book value [store, token_pool].  `store` is the HashMap from accounts   *)
(* to amounts: a function whose domain is the set of keys present.         *)
(*                                                                         *)
(* Account is the set of accounts as callers write them.  Two of them are  *)
(* the same key of the map when KeyOf agrees on them: Account::eq and      *)
(* Account::hash compare the owner and the effective subaccount, so an     *)
(* absent subaccount and the all-zero one are one key written in two ways. *)
(* The map keeps the way of writing with which the key was first inserted. *)
(***************************************************************************)
EXTENDS Tokens, Functions, FiniteSets

CONSTANTS Account,      \* accounts, as written in requests
          KeyOf         \* [Account -> owner and effective subaccount]

ASSUME AccountAssumption == IsFiniteSet(Account)

Mint     == [op : {"mint"}, to : Account, amount : Token]
Transfer == [op : {"xfer"}, from : Account, to : Account, amount : Token, fee : Token]
Burn     == [op : {"burn"}, from : Account, amount : Token]

Operation == Mint \cup Transfer \cup Burn

MintOp(to, amount)              == [op |-> "mint", to |-> to, amount |-> amount]
BurnOp(from, amount)            == [op |-> "burn", from |-> from, amount |-> amount]
TransferOp(from, to, amount, f) == [op |-> "xfer", from |-> from, to |-> to, amount |-> amount, fee |-> f]
-----------------------------------------------------------------------------
(* The map. *)

SameAccount(a, b) == KeyOf[a] = KeyOf[b]

\* Fault: keys compared as they are written, subaccount None apart from zero.
Slot_Literal(store, a) == a

\* The key under which the map holds account a, or a itself in a vacant slot.
Slot(store, a) ==
  IF \E k \in DOMAIN store : SameAccount(k, a)
  THEN CHOOSE k \in DOMAIN store : SameAccount(k, a)
  ELSE a

account_balance(store, a) ==
  LET k == Slot(store, a) IN IF k \in DOMAIN store THEN store[k] ELSE 0

\* Fault: the entry of a drained account stays in the map.
update_KeepsZero(store, a, v) ==
  LET k == Slot(store, a)
  IN  [x \in DOMAIN store \cup {k} |-> IF x = k THEN v ELSE store[x]]

\* BalancesStore::update with the new value v: an entry that reaches zero is
\* removed, a vacant slot that stays at zero is not filled.
update(store, a, v) ==
  LET k == Slot(store, a)
  IN  [x \in (IF v = 0 THEN DOMAIN store \ {k} ELSE DOMAIN store \cup {k}) |->
         IF x = k THEN v ELSE store[x]]

\* debit answers InsufficientFunds when the account is not in the map, even
\* for a zero amount, and when its balance is too small.
CanDebit(store, from, amount) ==
  /\ Slot(store, from) \in DOMAIN store
  /\ ~SubUnderflows(account_balance(store, from), amount)

\* amount + fee as a u64: what is left of it when it does not fit.
debit_amount(amount, fee) == (amount + fee) % (MaxTokens + 1)

debit(store, from, amount) == update(store, from, account_balance(store, from) - amount)
credit(store, to, amount)  == update(store, to, account_balance(store, to) + amount)
-----------------------------------------------------------------------------
(* The book. *)

Store == UNION {[K -> Token] : K \in SUBSET Account}

Book == [store : Store, token_pool : Token]

\* Balances::new: no account, and every token still in the pool.
NewBook == [store |-> << >>, token_pool |-> MaxTokens]

\* Fault: the credit is computed from the balance read before the debit.
transfer_StaleCredit(book, from, to, amount, fee) ==
  [store      |-> update(debit(book.store, from, debit_amount(amount, fee)), to,
                         account_balance(book.store, to) + amount),
   token_pool |-> book.token_pool + fee]

\* Fault: the fee is taken from the sender and not returned to the pool.
transfer_LosesFee(book, from, to, amount, fee) ==
  [store      |-> credit(debit(book.store, from, debit_amount(amount, fee)), to, amount),
   token_pool |-> book.token_pool]

transfer(book, from, to, amount, fee) ==
  [store      |-> credit(debit(book.store, from, debit_amount(amount, fee)), to, amount),
   token_pool |-> book.token_pool + fee]

\* Fault: the tokens that are burnt do not go back to the pool.
burn_Destroys(book, from, amount) ==
  [store |-> debit(book.store, from, amount), token_pool |-> book.token_pool]

burn(book, from, amount) ==
  [store |-> debit(book.store, from, amount), token_pool |-> book.token_pool + amount]

\* Fault: minting does not take the tokens out of the pool.
mint_FromNothing(book, to, amount) ==
  [store |-> credit(book.store, to, amount), token_pool |-> book.token_pool]

mint(book, to, amount) ==
  [store |-> credit(book.store, to, amount), token_pool |-> book.token_pool - amount]

\* Fault: the sum of amount and fee is not checked.
Refused_Unchecked(book, o) ==
  \/ o.op = "xfer" /\ ~CanDebit(book.store, o.from, debit_amount(o.amount, o.fee))
  \/ o.op = "burn" /\ ~CanDebit(book.store, o.from, o.amount)

\* Transaction::apply returns BalanceError::InsufficientFunds.  A transfer whose
\* amount and fee overflow together is refused like one the account cannot pay.
Refused(book, o) ==
  \/ /\ o.op = "xfer"
     /\ \/ AddOverflows(o.amount, o.fee)
        \/ ~CanDebit(book.store, o.from, debit_amount(o.amount, o.fee))
  \/ /\ o.op = "burn"
     /\ ~CanDebit(book.store, o.from, o.amount)

\* Fault: the pool is debited without a check.
SupplyExceeded_Unchecked(book, o) == FALSE

\* mint: "total token supply exceeded", the one panic a caller can reach.
SupplyExceeded(book, o) == o.op = "mint" /\ SubUnderflows(book.token_pool, o.amount)

\* The panics the code calls bugs: "bug: overflow in credit" and "+= panicked".
Overflows(book, o) ==
  \/ /\ o.op = "xfer"
     /\ \/ AddOverflows(account_balance(debit(book.store, o.from, debit_amount(o.amount, o.fee)), o.to), o.amount)
        \/ AddOverflows(book.token_pool, o.fee)
  \/ /\ o.op = "burn"
     /\ AddOverflows(book.token_pool, o.amount)
  \/ /\ o.op = "mint"
     /\ AddOverflows(account_balance(book.store, o.to), o.amount)

\* Transaction::apply when it neither refuses nor panics.
Applied(book, o) ==
  CASE o.op = "xfer" -> transfer(book, o.from, o.to, o.amount, o.fee)
    [] o.op = "burn" -> burn(book, o.from, o.amount)
    [] o.op = "mint" -> mint(book, o.to, o.amount)
-----------------------------------------------------------------------------
(* What is said of a book. *)

Holdings(store) == [a \in Account |-> IF a \in DOMAIN store THEN store[a] ELSE 0]

Circulating(store) == SumFunction(Holdings(store))

\* The accounts and the pool hold Tokens::MAX between them.
Conserved(book) == Circulating(book.store) + book.token_pool = MaxTokens

\* An entry for each account that owns something, and for no other.
HasNoZeroEntry(store) == \A a \in DOMAIN store : store[a] # 0

HasOneEntryEach(store) == \A a, b \in DOMAIN store : SameAccount(a, b) => a = b
=============================================================================
