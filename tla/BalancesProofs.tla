--------------------------- MODULE BalancesProofs ---------------------------
(***************************************************************************)
(* Theorems on the balance book, for every set of accounts, every way of   *)
(* writing them and every Tokens::MAX.                                     *)
(***************************************************************************)
EXTENDS Balances, BalanceBookProofs

\* The inductive invariant.  Conservation is what keeps overflows out, and types
\* and entries are what keeps conservation provable.
Inv ==
  /\ balances \in Book /\ Conserved(balances)
  /\ HasNoZeroEntry(balances.store) /\ HasOneEntryEach(balances.store)
  /\ outcome \in Outcome \ {"overflow"}

LEMMA InvInit == Init => Inv
BY NewBookFacts DEF Init, Inv, Outcome

LEMMA InvNext == Inv /\ [Next]_vars => Inv'
<1> SUFFICES ASSUME Inv, [Next]_vars PROVE Inv'
  OBVIOUS
<1> USE DEF Inv
<1>1. ASSUME NEW o \in Operation, Done(o) PROVE Inv'
  <2>1. balances' = Applied(balances, o) /\ outcome' = "done"
    BY <1>1 DEF Done
  <2>2. Applied(balances, o) \in Book /\ Conserved(Applied(balances, o))
    BY <1>1, AppliedConserves DEF Done
  <2>3. HasNoZeroEntry(Applied(balances, o).store) /\ HasOneEntryEach(Applied(balances, o).store)
    BY <1>1, AppliedEntries DEF Done
  <2> QED BY <2>1, <2>2, <2>3 DEF Outcome
<1>2. ASSUME NEW o \in Operation, InsufficientFunds(o) PROVE Inv'
  BY <1>2 DEF InsufficientFunds, Outcome
<1>3. ASSUME NEW o \in Operation, Panic(o) PROVE Inv'
  <2>1. SupplyExceeded(balances, o)
    BY <1>3, AppliedConserves DEF Panic
  <2> QED BY <1>3, <2>1 DEF Panic, Outcome
<1>4. CASE UNCHANGED vars
  BY <1>4 DEF vars
<1> QED BY <1>1, <1>2, <1>3, <1>4 DEF Next, Call

LEMMA Invariance == Spec => []Inv
BY InvInit, InvNext, PTL DEF Spec

\* The book is well formed after any sequence of calls: every entry of the map and
\* the pool are amounts of tokens.
THEOREM TypeCorrect == Spec => []TypeOK
<1>1. Inv => TypeOK
  BY DEF Inv, TypeOK
<1> QED BY Invariance, <1>1, PTL

\* The tokens are conserved: transfer, burn and mint move them between accounts and
\* pool and neither create nor lose any.
THEOREM TokensConserved == Spec => []Conservation
<1>1. Inv => Conservation
  BY DEF Inv, Conservation
<1> QED BY Invariance, <1>1, PTL

\* The panics "bug: overflow in credit" and "+= panicked" are unreachable.
THEOREM OverflowUnreachable == Spec => []NoOverflow
<1>1. Inv => NoOverflow
  BY DEF Inv, NoOverflow
<1> QED BY Invariance, <1>1, PTL

\* The map has no empty entry: an account that gives away all it has leaves it.
THEOREM NoEmptyEntries == Spec => []NoZeroEntry
<1>1. Inv => NoZeroEntry
  BY DEF Inv, NoZeroEntry
<1> QED BY Invariance, <1>1, PTL

\* The map has one entry for an account, in however many ways callers write it.
THEOREM OneEntryEach == Spec => []OneEntryPerAccount
<1>1. Inv => OneEntryPerAccount
  BY DEF Inv, OneEntryPerAccount
<1> QED BY Invariance, <1>1, PTL
-----------------------------------------------------------------------------
(* The book implements the bank. *)

\* The bank's view of a map.
View(store) ==
  [k \in BankAccount |-> account_balance(store, CHOOSE a \in Account : KeyOf[a] = k)]

LEMMA ViewFacts ==
  ASSUME NEW store \in Store, HasOneEntryEach(store), NEW a \in Account
  PROVE  /\ KeyOf[a] \in BankAccount
         /\ View(store)[KeyOf[a]] = account_balance(store, a)
<1> DEFINE b == CHOOSE x \in Account : KeyOf[x] = KeyOf[a]
<1>1. b \in Account /\ KeyOf[b] = KeyOf[a]
  OBVIOUS
<1>2. KeyOf[a] \in BankAccount
  BY DEF BankAccount
<1>3. View(store)[KeyOf[a]] = account_balance(store, b)
  BY <1>2 DEF View
<1> HIDE DEF b
<1>4. account_balance(store, b) = account_balance(store, a)
  BY <1>1, SameAccountSameBalance DEF SameAccount
<1> QED BY <1>2, <1>3, <1>4

LEMMA ViewUpdate ==
  ASSUME NEW store \in Store, HasOneEntryEach(store), NEW a \in Account, NEW v \in Token
  PROVE  View(update(store, a, v)) = [View(store) EXCEPT ![KeyOf[a]] = v]
<1> DEFINE rep(k) == CHOOSE x \in Account : KeyOf[x] = k
<1>1. ASSUME NEW k \in BankAccount
      PROVE  View(update(store, a, v))[k] = IF k = KeyOf[a] THEN v ELSE View(store)[k]
  <2>1. rep(k) \in Account /\ KeyOf[rep(k)] = k
    BY DEF BankAccount
  <2>2. /\ View(update(store, a, v))[k] = account_balance(update(store, a, v), rep(k))
        /\ View(store)[k] = account_balance(store, rep(k))
    BY DEF View
  <2> HIDE DEF rep
  <2>3. account_balance(update(store, a, v), rep(k))
          = IF SameAccount(a, rep(k)) THEN v ELSE account_balance(store, rep(k))
    BY <2>1, UpdateBalance
  <2> QED BY <2>1, <2>2, <2>3 DEF SameAccount
<1>2. /\ DOMAIN View(update(store, a, v)) = BankAccount
      /\ DOMAIN View(store) = BankAccount
      /\ View(update(store, a, v)) = [k \in BankAccount |-> View(update(store, a, v))[k]]
  BY DEF View
<1> HIDE DEF rep
<1> QED BY <1>1, <1>2

LEMMA ViewType ==
  ASSUME NEW store \in Store
  PROVE  View(store) \in [BankAccount -> Token]
<1>1. \A k \in BankAccount : (CHOOSE a \in Account : KeyOf[a] = k) \in Account
  BY DEF BankAccount
<1> QED BY <1>1, BalanceFacts DEF View

LEMMA DoneIsBankStep ==
  ASSUME NEW o \in Operation, Done(o), Inv
  PROVE  Bank!Next
<1> DEFINE store == balances.store
           pool  == balances.token_pool
           bank  == View(store)
<1>1. balances \in Book /\ Conserved(balances) /\ HasNoZeroEntry(store) /\ HasOneEntryEach(store)
  BY DEF Inv
<1>2. store \in Store /\ pool \in Token
  BY <1>1 DEF Book
<1>3. MaxTokens \in Nat /\ Token = 0 .. MaxTokens
  BY MaxTokensAssumption DEF Token
<1>4. balances' = Applied(balances, o) /\ ~ Refused(balances, o) /\ ~ SupplyExceeded(balances, o)
      /\ ~ Overflows(balances, o)
  BY DEF Done
<1>5. bank \in [BankAccount -> Token]
  BY <1>2, ViewType
<1>6. CASE o.op = "xfer"
  <2>1. o.from \in Account /\ o.to \in Account /\ o.amount \in Token /\ o.fee \in Token
    BY <1>6, OperationFacts
  <2> DEFINE k == KeyOf[o.from]
             l == KeyOf[o.to]
             left == debit(store, o.from, o.amount + o.fee)
  <2>2. /\ debit_amount(o.amount, o.fee) = o.amount + o.fee
        /\ o.amount + o.fee \in Token /\ CanDebit(store, o.from, o.amount + o.fee)
    BY <1>4, <1>6, TransferSum
  <2>3. k \in BankAccount /\ l \in BankAccount /\ bank[k] = account_balance(store, o.from)
    BY <1>1, <1>2, <2>1, ViewFacts
  <2>4. left \in Store /\ bank[k] - (o.amount + o.fee) \in Token
    BY <1>2, <2>1, <2>2, <2>3, DebitFacts
  <2>5. HasOneEntryEach(left)
    BY <1>1, <1>2, <2>1, <2>3, <2>4, UpdateEntries DEF debit
  <2>6. View(left) = [bank EXCEPT ![k] = bank[k] - (o.amount + o.fee)]
    BY <1>1, <1>2, <2>1, <2>3, <2>4, ViewUpdate DEF debit
  <2>7. View(left)[l] = account_balance(left, o.to)
    BY <2>1, <2>4, <2>5, ViewFacts
  <2>8. View(left)[l] + o.amount \in Token
    <3>1. account_balance(left, o.to) \in Token
      BY <2>1, <2>4, BalanceFacts
    <3> QED BY <1>3, <1>4, <1>6, <2>1, <2>2, <2>7, <3>1 DEF Overflows, AddOverflows
  <2>9. balances'.store = credit(left, o.to, o.amount) /\ balances'.token_pool = pool + o.fee
    BY <1>4, <1>6, <2>2 DEF Applied, transfer
  <2> HIDE DEF left
  <2>10. View(balances'.store) = [View(left) EXCEPT ![l] = View(left)[l] + o.amount]
    BY <2>1, <2>4, <2>5, <2>7, <2>8, <2>9, ViewUpdate DEF credit
  <2> HIDE DEF bank, pool, store, k, l
  <2>11. o.amount + o.fee <= bank[k] /\ bank[k] - (o.amount + o.fee) = bank[k] - o.amount - o.fee
    BY <1>3, <1>5, <2>1, <2>3, <2>4
  <2>12. View(balances'.store)
          = [[bank EXCEPT ![k] = bank[k] - o.amount - o.fee] EXCEPT ![l] = @ + o.amount]
    BY <2>6, <2>10, <2>11
  <2>13. /\ [x \in BankAccount |-> HoldingOf(x)] = bank
         /\ [x \in BankAccount |-> HoldingOf(x)]' = View(balances'.store)
    BY DEF View, HoldingOf, bank, store
  <2>14. Bank!Pay(k, l, o.amount, o.fee)
    BY <2>9, <2>11, <2>12, <2>13 DEF Bank!Pay, pool
  <2> QED BY <1>3, <2>1, <2>3, <2>14 DEF Bank!Next
<1>7. CASE o.op = "burn"
  <2>1. o.from \in Account /\ o.amount \in Token /\ CanDebit(store, o.from, o.amount)
    BY <1>4, <1>7, OperationFacts DEF Refused
  <2> DEFINE k == KeyOf[o.from]
  <2>2. k \in BankAccount /\ bank[k] = account_balance(store, o.from)
    BY <1>1, <1>2, <2>1, ViewFacts
  <2>3. bank[k] - o.amount \in Token
    BY <1>2, <2>1, <2>2, DebitFacts
  <2>4. balances'.store = debit(store, o.from, o.amount) /\ balances'.token_pool = pool + o.amount
    BY <1>4, <1>7 DEF Applied, burn
  <2>5. View(balances'.store) = [bank EXCEPT ![k] = bank[k] - o.amount]
    BY <1>1, <1>2, <2>1, <2>2, <2>3, <2>4, ViewUpdate DEF debit
  <2> HIDE DEF bank, pool, store, k
  <2>6. o.amount <= bank[k]
    BY <1>3, <1>5, <2>1, <2>2, <2>3
  <2> QED BY <1>3, <2>1, <2>2, <2>4, <2>5, <2>6
          DEF Bank!Next, Bank!Retire, View, HoldingOf, bank, pool, store
<1>8. CASE o.op = "mint"
  <2>1. o.to \in Account /\ o.amount \in Token
    BY <1>8, OperationFacts
  <2> DEFINE k == KeyOf[o.to]
  <2>2. k \in BankAccount /\ bank[k] = account_balance(store, o.to)
    BY <1>1, <1>2, <2>1, ViewFacts
  <2>3. bank[k] + o.amount \in Token
    <3>1. account_balance(store, o.to) \in Token
      BY <1>2, <2>1, BalanceFacts
    <3> QED BY <1>3, <1>4, <1>8, <2>1, <2>2, <3>1 DEF Overflows, AddOverflows
  <2>4. balances'.store = credit(store, o.to, o.amount) /\ balances'.token_pool = pool - o.amount
    BY <1>4, <1>8 DEF Applied, mint
  <2>5. View(balances'.store) = [bank EXCEPT ![k] = bank[k] + o.amount]
    BY <1>1, <1>2, <2>1, <2>2, <2>3, <2>4, ViewUpdate DEF credit
  <2>6. o.amount <= pool
    BY <1>2, <1>3, <1>4, <1>8, <2>1 DEF SupplyExceeded, SubUnderflows
  <2> HIDE DEF bank, pool, store, k
  <2> QED BY <1>3, <2>1, <2>2, <2>4, <2>5, <2>6
          DEF Bank!Next, Bank!Issue, View, HoldingOf, bank, pool, store
<1> QED BY <1>6, <1>7, <1>8, OperationFacts

\* Whoever calls transfer, burn and mint deals with a plain bank: each call is one
\* of the bank's three steps, or changes nothing that the bank shows.
THEOREM BookImplementsBank == Spec => ImplementsBank
<1>1. Init => Bank!Init
  <2> SUFFICES ASSUME Init PROVE Bank!Init
    OBVIOUS
  <2>1. balances.store = << >> /\ balances.token_pool = MaxTokens /\ DOMAIN << >> = {}
    BY DEF Init, NewBook
  <2>2. \A a : account_balance(<< >>, a) = 0
    BY DEF account_balance
  <2> QED BY <2>1, <2>2 DEF Bank!Init, HoldingOf
<1>2. Inv /\ [Next]_vars => [Bank!Next]_Bank!vars
  <2> SUFFICES ASSUME Inv, [Next]_vars PROVE Bank!Next \/ UNCHANGED Bank!vars
    OBVIOUS
  <2>1. CASE UNCHANGED balances
    BY <2>1 DEF Bank!vars, HoldingOf
  <2>2. CASE \E o \in Operation : Done(o)
    BY <2>2, DoneIsBankStep
  <2>3. UNCHANGED balances \/ \E o \in Operation : Done(o)
    BY DEF Next, Call, InsufficientFunds, Panic, vars
  <2> QED BY <2>1, <2>2, <2>3
<1> QED BY Invariance, <1>1, <1>2, PTL DEF Spec, Bank!Spec, ImplementsBank
=============================================================================
