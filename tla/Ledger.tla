------------------------------- MODULE Ledger -------------------------------
(***************************************************************************)
(* The ledger (mini_ledger/src/lib.rs): what apply_transaction does to the *)
(* balance book, the chain of blocks and the two deduplication tables.     *)
(*                                                                         *)
(* The Internet Computer runs one message at a time and to its end, so a   *)
(* call of apply_transaction is one step.  It ends in one of three ways:   *)
(*   - with Ok, and every change it made is kept;                          *)
(*   - with Err, and what it purged from the tables stays purged;          *)
(*   - in a trap (a panic), which undoes all that the message did.         *)
(* Between messages only the time changes.  It never goes back, and many   *)
(* messages may see the same time.                                         *)
(***************************************************************************)
EXTENDS TrimSelection

CONSTANTS
  Transaction,                  \* the transactions that callers send
  Memo,                         \* memos of transactions
  TrimmedMemo,                  \* transaction::TRIMMED_MEMO
  None,                         \* Option::None
  TransactionWindow,            \* TRANSACTION_WINDOW
  PermittedDrift,               \* PERMITTED_DRIFT
  Second,                       \* Duration::from_secs(1)
  MaxTransactionsInWindow,      \* MAX_TRANSACTIONS_IN_WINDOW
  MaxTransactionsToPurge,       \* MAX_TRANSACTIONS_TO_PURGE
  MaxNumberOfAccounts,          \* MAX_ACCOUNTS
  MaxTimeStamp,                 \* u64::MAX nanoseconds
  StartTime,                    \* the time at which the canister is installed
  MaxNow,                       \* bound: the clock stops here
  MaxBlocks                     \* bound: no request is accepted beyond this height

TimeStamp == 0 .. MaxTimeStamp

TransactionOf(ops, memos) ==
  [operation : ops, created_at_time : TimeStamp \cup {None}, memo : memos]

ASSUME TransactionAssumption ==
  /\ Transaction \subseteq TransactionOf(Operation, Memo)
  /\ TrimmedMemo \in Memo
  /\ None \notin Int

\* The last line holds of the code for the next 500 years: the time of the
\* Internet Computer is far enough from u64::MAX to add a day to it.
ASSUME TimeAssumption ==
  /\ TransactionWindow \in Nat \ {0}
  /\ PermittedDrift \in Nat
  /\ Second \in Nat \ {0}
  /\ MaxTimeStamp \in Nat
  /\ MaxNow \in Nat /\ StartTime \in Second .. MaxNow
  /\ MaxNow + TransactionWindow + PermittedDrift + Second <= MaxTimeStamp

ASSUME LimitsAssumption ==
  /\ MaxTransactionsInWindow \in Nat \ {0}
  /\ MaxTransactionsToPurge \in Nat \ {0}
  /\ MaxNumberOfAccounts \in Nat
  /\ MaxBlocks \in Nat

VARIABLES
  balances,               \* the balance book
  blockchain,             \* [blocks, last_hash, last_timestamp]
  transactions_by_hash,   \* hash of a remembered transaction -> height of its block
  transactions_by_height, \* queue of [block_timestamp, transaction_hash]
  now,                    \* the time of the message that runs
  reply,                  \* how the last message ended
  requested               \* history: heights of the blocks written for callers

tables == <<transactions_by_hash, transactions_by_height>>
ledger == <<balances, blockchain, tables, requested>>
vars   == <<ledger, now, reply>>
-----------------------------------------------------------------------------
(* Transactions, blocks and the chain.  A digest is the value it is the     *)
(* digest of, under a constructor: SHA-256 is taken to be collision-free.   *)
(* It covers the transaction as it was written: two ways of writing one     *)
(* account give two digests.                                                *)

tx_hash(tx) == [sha256 |-> tx]

Deduplicates(tx) == tx.created_at_time # None

TrimBurn(a, amount, t) ==
  [operation |-> BurnOp(a, amount), created_at_time |-> t, memo |-> TrimmedMemo]

from_transaction(parent, tx, t) == [parent_hash |-> parent, transaction |-> tx, timestamp |-> t]

\* Tagged CBOR; the hash of a block is that of its content without the tag.
encode(b)     == [tag |-> 55799, value |-> b]
decode(enc)   == enc.value
block_hash(e) == [sha256 |-> decode(e)]

NewChain == [blocks |-> << >>, last_hash |-> None, last_timestamp |-> 0]

AddBlockFails(chain, b) ==
  \/ b.parent_hash # chain.last_hash
  \/ b.timestamp < chain.last_timestamp

\* Fault: the tip is not moved to the block that was added.
add_block_ForgetsTip(chain, b) ==
  [chain EXCEPT !.blocks = Append(@, encode(b)), !.last_timestamp = b.timestamp]

add_block(chain, b) ==
  [blocks         |-> Append(chain.blocks, encode(b)),
   last_hash      |-> block_hash(encode(b)),
   last_timestamp |-> b.timestamp]

Extended(chain, tx, t) == add_block(chain, from_transaction(chain.last_hash, tx, t))

chain_length == Len(blockchain.blocks)
-----------------------------------------------------------------------------
(* The deduplication tables. *)

\* Fault: a transaction is forgotten when its window ends, while a caller whose
\* clock is ahead could still repeat it.
Expired_NoDrift(info, t) == info.block_timestamp + TransactionWindow < t

Expired(info, t) == info.block_timestamp + TransactionWindow + PermittedDrift < t

\* Fault: the loop stops one transaction short.
num_tx_purged_OffByOne ==
  Max({n \in 0 .. Len(transactions_by_height) :
         /\ n < MaxTransactionsToPurge
         /\ \A i \in 1 .. n : Expired(transactions_by_height[i], now)})

\* The number of transactions that purge_old_transactions removes.
num_tx_purged ==
  Max({n \in 0 .. Len(transactions_by_height) :
         /\ n <= MaxTransactionsToPurge
         /\ \A i \in 1 .. n : Expired(transactions_by_height[i], now)})

PurgedHash(i) == transactions_by_height[i].transaction_hash

\* purge_old_transactions meets its unreachable!() arm.
PurgeFails ==
  \E i \in 1 .. num_tx_purged :
    \/ PurgedHash(i) \notin DOMAIN transactions_by_hash
    \/ \E j \in 1 .. i - 1 : PurgedHash(j) = PurgedHash(i)

KeptByHeight == SubSeq(transactions_by_height, num_tx_purged + 1, Len(transactions_by_height))

\* Fault: the purge forgets to remove from the map what it removes from the queue.
KeptByHash_Leaks == transactions_by_hash

KeptByHash ==
  Restrict(transactions_by_hash,
           DOMAIN transactions_by_hash \ {PurgedHash(i) : i \in 1 .. num_tx_purged})

purge_old_transactions ==
  /\ transactions_by_height' = KeptByHeight
  /\ transactions_by_hash' = KeptByHash

\* Transactions per second once half the window is used up: half of
\* max_transactions_in_window over the window in seconds, rounded up.
max_rate == (MaxTransactionsInWindow * Second + 2 * TransactionWindow - 1) \div (2 * TransactionWindow)

\* Fault: max_rate transactions are let through at every moment.
throttle_NoSecond ==
  LET n     == Len(transactions_by_height)
      i     == IF n >= max_rate THEN n - max_rate ELSE 0
      since == IF i < n THEN transactions_by_height[i + 1].block_timestamp ELSE 0
  IN  /\ n >= MaxTransactionsInWindow \div 2
      /\ since >= now

\* Fault: the rate is counted over the whole window, not over a second.
throttle_WholeWindow ==
  LET n     == Len(transactions_by_height)
      i     == IF n >= max_rate THEN n - max_rate ELSE 0
      since == IF i < n THEN transactions_by_height[i + 1].block_timestamp ELSE 0
  IN  /\ n >= MaxTransactionsInWindow \div 2
      /\ since + TransactionWindow > now

throttle ==
  LET n     == Len(transactions_by_height)
      i     == IF n >= max_rate THEN n - max_rate ELSE 0
      since == IF i < n THEN transactions_by_height[i + 1].block_timestamp ELSE 0
  IN  /\ n >= MaxTransactionsInWindow \div 2
      /\ since + Second > now

Throttled == num_tx_purged = 0 /\ throttle

TimeOverflows(tx) ==
  Deduplicates(tx) /\ tx.created_at_time + TransactionWindow > MaxTimeStamp

\* Fault: a transaction is taken for as long as it is remembered.
TooOld_Drift(tx) ==
  Deduplicates(tx) /\ tx.created_at_time + TransactionWindow + PermittedDrift < now

\* Fault: no limit on how long ago a transaction may be dated.
TooOld_Never(tx) == FALSE

TooOld(tx) == Deduplicates(tx) /\ tx.created_at_time + TransactionWindow < now

\* Fault: no limit on how far ahead a transaction may be dated.
InFuture_Never(tx) == FALSE

InFuture(tx) == Deduplicates(tx) /\ tx.created_at_time > now + PermittedDrift

\* Fault: the map is not consulted.
IsDuplicate_Never(tx) == FALSE

IsDuplicate(tx) == Deduplicates(tx) /\ tx_hash(tx) \in DOMAIN KeptByHash

\* The call gets as far as the look at tx.created_at_time...
GetsIn(tx) == ~PurgeFails /\ ~Throttled /\ ~TimeOverflows(tx)

\* Fault: the funds are looked at before the duplicates.
Vetted_FundsFirst(tx) ==
  GetsIn(tx) /\ ~TooOld(tx) /\ ~InFuture(tx) /\ (IsDuplicate(tx) => Refused(balances, tx.operation))

\* ...and as far as the balance book.
Vetted(tx) == GetsIn(tx) /\ ~TooOld(tx) /\ ~InFuture(tx) /\ ~IsDuplicate(tx)
-----------------------------------------------------------------------------
(* Trimming: when there are too many accounts, the poorest are burnt. *)

\* Fault: the accounts are trimmed one account later.
MustTrim_TooLate(store) ==
  Cardinality(DOMAIN store) > MaxNumberOfAccounts + AccountsOverflowTrimQuantity

MustTrim(store) ==
  Cardinality(DOMAIN store) >= MaxNumberOfAccounts + AccountsOverflowTrimQuantity

\* Fault: an account is listed twice.
ToTrim_Twice(store) ==
  {IF MustTrim(store) THEN s \o s ELSE << >> : s \in select_accounts_to_trim(store)}

ToTrim(store) == IF MustTrim(store) THEN select_accounts_to_trim(store) ELSE {<< >>}

\* Fault: the burn is not written to the chain.
TrimOne_Silent(st, a, amount, t) ==
  [st EXCEPT !.balances = burn(@, a, amount)]

\* One turn of the trimming loop on [balances, blockchain, failed], where failed
\* says that one of its two unwraps met an error.
TrimOne(st, a, amount, t) ==
  [balances   |-> burn(st.balances, a, amount),
   blockchain |-> Extended(st.blockchain, TrimBurn(a, amount, t), t),
   failed     |-> \/ st.failed
                  \/ Refused(st.balances, BurnOp(a, amount))
                  \/ Overflows(st.balances, BurnOp(a, amount))
                  \/ t < st.blockchain.last_timestamp]

Trimmed(book, chain, victims, t) ==
  LET run[n \in 0 .. Len(victims)] ==
        IF n = 0 THEN [balances |-> book, blockchain |-> chain, failed |-> FALSE]
                 ELSE TrimOne(run[n - 1], victims[n], book.store[victims[n]], t)
  IN  run[Len(victims)]
-----------------------------------------------------------------------------
(* apply_transaction. *)

Init ==
  /\ balances = NewBook
  /\ blockchain = NewChain
  /\ transactions_by_hash = << >>
  /\ transactions_by_height = << >>
  /\ now = StartTime
  /\ reply = [kind |-> "none"]
  /\ requested = {}

\* A call that ends with an Err: only the purge remains of it.
Rejected(answer) ==
  /\ purge_old_transactions
  /\ reply' = answer
  /\ UNCHANGED <<balances, blockchain, now, requested>>

Refusal(kind, tx) == [kind |-> kind, tx |-> tx]

\* An answer that names a block.
BlockReply(kind, height, tx) == [kind |-> kind, height |-> height, tx |-> tx]

TxThrottled(tx) ==
  /\ ~PurgeFails /\ Throttled
  /\ Rejected(Refusal("TxThrottled", tx))

TxTooOld(tx) ==
  /\ GetsIn(tx) /\ TooOld(tx)
  /\ Rejected(Refusal("TxTooOld", tx))

TxCreatedInFuture(tx) ==
  /\ GetsIn(tx) /\ ~TooOld(tx) /\ InFuture(tx)
  /\ Rejected(Refusal("TxCreatedInFuture", tx))

TxDuplicate(tx) ==
  /\ GetsIn(tx) /\ ~TooOld(tx) /\ ~InFuture(tx) /\ IsDuplicate(tx)
  /\ Rejected(BlockReply("TxDuplicate", KeptByHash[tx_hash(tx)], tx))

InsufficientFunds(tx) ==
  /\ Vetted(tx) /\ Refused(balances, tx.operation)
  /\ Rejected(Refusal("InsufficientFunds", tx))

Pays(tx) ==
  /\ Vetted(tx)
  /\ ~Refused(balances, tx.operation) /\ ~SupplyExceeded(balances, tx.operation)

\* The book and the chain when the request has been executed and before trimming.
PaidBook(tx)  == Applied(balances, tx.operation)
PaidChain(tx) == Extended(blockchain, tx, now)

TrimmedStates(tx) ==
  {Trimmed(PaidBook(tx), PaidChain(tx), victims, now) : victims \in ToTrim(PaidBook(tx).store)}

\* A panic that the code calls a bug: an overflow in the book, a block that does
\* not fit the chain, a failure to trim.
Breaks(tx) ==
  \/ Overflows(balances, tx.operation)
  \/ AddBlockFails(blockchain, from_transaction(blockchain.last_hash, tx, now))
  \/ \E st \in TrimmedStates(tx) : st.failed

\* Fault: the map numbers the blocks from one.
Remember_FromOne(tx) ==
  IF Deduplicates(tx)
  THEN /\ transactions_by_hash' =
            [h \in DOMAIN KeptByHash \cup {tx_hash(tx)} |->
               IF h = tx_hash(tx) THEN chain_length + 1 ELSE KeptByHash[h]]
       /\ transactions_by_height' =
            Append(KeptByHeight, [block_timestamp |-> now, transaction_hash |-> tx_hash(tx)])
  ELSE purge_old_transactions

Remember(tx) ==
  IF Deduplicates(tx)
  THEN /\ transactions_by_hash' =
            [h \in DOMAIN KeptByHash \cup {tx_hash(tx)} |->
               IF h = tx_hash(tx) THEN chain_length ELSE KeptByHash[h]]
       /\ transactions_by_height' =
            Append(KeptByHeight, [block_timestamp |-> now, transaction_hash |-> tx_hash(tx)])
  ELSE purge_old_transactions

Accepted(tx) ==
  /\ chain_length < MaxBlocks
  /\ Pays(tx) /\ ~Breaks(tx)
  /\ \E st \in TrimmedStates(tx) :
       balances' = st.balances /\ blockchain' = st.blockchain
  /\ Remember(tx)
  /\ reply' = BlockReply("Ok", chain_length, tx)
  /\ requested' = requested \cup {chain_length}
  /\ UNCHANGED now

\* Why a call may trap.  The first two are the caller's doing: a time of creation
\* close to u64::MAX, and a mint of more than the pool holds.
TrapCause(tx, cause) ==
  \/ cause = "timestamp overflow" /\ ~PurgeFails /\ ~Throttled /\ TimeOverflows(tx)
  \/ cause = "total token supply exceeded" /\ Vetted(tx) /\ SupplyExceeded(balances, tx.operation)
  \/ cause = "bug" /\ (PurgeFails \/ (Pays(tx) /\ Breaks(tx)))

Trapped(tx) ==
  \E cause \in {"timestamp overflow", "total token supply exceeded", "bug"} :
    /\ TrapCause(tx, cause)
    /\ reply' = [kind |-> "trap", cause |-> cause]
    /\ UNCHANGED <<ledger, now>>

apply_transaction(tx) ==
  \/ TxThrottled(tx) \/ TxTooOld(tx) \/ TxCreatedInFuture(tx) \/ TxDuplicate(tx)
  \/ InsufficientFunds(tx) \/ Accepted(tx) \/ Trapped(tx)

Tick ==
  /\ now < MaxNow
  /\ now' = now + 1
  /\ UNCHANGED <<ledger, reply>>

Next == (\E tx \in Transaction : apply_transaction(tx)) \/ Tick

Spec == Init /\ [][Next]_vars
-----------------------------------------------------------------------------
(* Properties. *)

BlockAt(h)  == decode(blockchain.blocks[h + 1])
TxAt(h)     == BlockAt(h).transaction
Heights     == 0 .. chain_length - 1

\* Heights of the blocks whose callers asked for deduplication.
Tracked == {h \in requested : Deduplicates(TxAt(h))}

Hash == {tx_hash(tx) : tx \in Transaction}

TrimBurns == TransactionOf(Burn, {TrimmedMemo})

\* Every part of the state has its type; in particular no amount has left
\* 0..Tokens::MAX and a block holds a caller's transaction or a trimming burn.
TypeOK ==
  /\ balances \in Book
  /\ blockchain.blocks \in Seq(Range(blockchain.blocks))
  /\ \A h \in Heights : /\ TxAt(h) \in Transaction \cup TrimBurns
                        /\ BlockAt(h).timestamp \in TimeStamp
  /\ blockchain.last_timestamp \in TimeStamp
  /\ DOMAIN transactions_by_hash \subseteq Hash
  /\ transactions_by_hash \in [DOMAIN transactions_by_hash -> Nat]
  /\ transactions_by_height \in Seq([block_timestamp : TimeStamp, transaction_hash : Hash])
  /\ now \in StartTime .. MaxNow
  /\ requested \subseteq Heights

\* A transaction whose caller gave the time of its creation is executed at most
\* once, however often it is sent, whenever, and however slowly the tables are
\* purged.
NoDoubleExecution ==
  \A g, h \in Tracked : tx_hash(TxAt(g)) = tx_hash(TxAt(h)) => g = h

\* The reason: an executed transaction is remembered, with the height of its
\* block, for as long as the ledger would not refuse it as too old.
RememberedWhileAcceptable ==
  \A h \in Tracked :
    LET tx == TxAt(h)
    IN  \/ TooOld(tx)
        \/ /\ tx_hash(tx) \in DOMAIN transactions_by_hash
           /\ transactions_by_hash[tx_hash(tx)] = h

\* To its callers the ledger is one that remembers every payment for ever: the
\* tables, the purge and its lag, and the trimming cannot be told from its answers.
Ideal == INSTANCE IdealLedger WITH executed <- [h \in requested |-> TxAt(h)],
                                   Window   <- TransactionWindow,
                                   Drift    <- PermittedDrift

NeverForgets == Ideal!Spec

\* The queue and the map remember the same transactions, in the order of their
\* blocks and none twice: the condition of the unreachable!() in the purge.
TablesAgree ==
  LET hash(i) == transactions_by_height[i].transaction_hash
      Entries == 1 .. Len(transactions_by_height)
  IN  /\ DOMAIN transactions_by_hash = {hash(i) : i \in Entries}
      /\ \A i, j \in Entries : i < j => transactions_by_hash[hash(i)] < transactions_by_hash[hash(j)]
      /\ \A i \in Entries :
           LET h == transactions_by_hash[hash(i)]
           IN  /\ h \in Tracked
               /\ tx_hash(TxAt(h)) = hash(i)
               /\ BlockAt(h).timestamp = transactions_by_height[i].block_timestamp

\* While something in the tables is due for removal they do not grow: each call
\* removes at least as much as it adds.
NoGrowthWhileStale ==
  [][(\E i \in DOMAIN transactions_by_height : Expired(transactions_by_height[i], now))
       => Len(transactions_by_height') <= Len(transactions_by_height)]_vars

\* An answer that names a block names the block of the transaction that was sent,
\* even if accounts were trimmed after it or it was executed long ago.
AnswersNameTheirBlock ==
  reply.kind \in {"Ok", "TxDuplicate"} =>
    /\ reply.height \in requested
    /\ TxAt(reply.height) = reply.tx

\* None of the panics that the code holds to be impossible ever happens.
OnlyCallersTrap == reply.kind = "trap" => reply.cause # "bug"

\* Until the first purge, the throttle lets half of max_transactions_in_window
\* through and after that no more than max_rate of them a second.
ThrottledShare ==
  Len(transactions_by_height) = Cardinality(Tracked) =>
    \A g \in Tracked :
      LET from    == BlockAt(g).timestamp
          Span(t) == {h \in Tracked : BlockAt(h).timestamp \in from .. t}
      IN  \A t \in from .. now :
            Cardinality(Span(t)) <= MaxTransactionsInWindow \div 2
                                      + max_rate * ((t - from) \div Second + 1)

\* Nor does it turn away a call for less: whoever is told to come back later is told so
\* because others, max_rate of them (or half of max_transactions_in_window, if that is
\* less), were let in within the last second.  A quiet second opens the throttle.
ThrottledOnlyWhenBusy ==
  Throttled => Cardinality({h \in Tracked : BlockAt(h).timestamp + Second > now})
                 >= Min({max_rate, MaxTransactionsInWindow \div 2})

\* lib.rs, on throttle: "This way we guarantee that at most
\* max_transactions_in_window will get through within the transaction window."
ThrottleGuarantee ==
  \A t \in 0 .. now :
    Cardinality({h \in requested : BlockAt(h).timestamp \in t .. t + TransactionWindow})
      <= MaxTransactionsInWindow

\* The chain is an account of everything that happened to the book: replaying its
\* blocks, trimming burns included, on a new book gives the balances and the pool.
Replayed ==
  LET book[n \in 0 .. chain_length] ==
        IF n = 0 THEN NewBook ELSE Applied(book[n - 1], TxAt(n - 1).operation)
  IN  book[chain_length]

BalancesMatchChain == Replayed = balances

\* What the accounts hold and what is in the pool make up Tokens::MAX.
Conservation == Conserved(balances)

\* Every block names its predecessor and none is older than its predecessor.
ChainLinked ==
  /\ \A h \in Heights :
       BlockAt(h).parent_hash = IF h = 0 THEN None ELSE block_hash(blockchain.blocks[h])
  /\ \A h \in Heights \ {0} : BlockAt(h - 1).timestamp <= BlockAt(h).timestamp
  /\ chain_length > 0 =>
       /\ blockchain.last_hash = block_hash(blockchain.blocks[chain_length])
       /\ blockchain.last_timestamp = BlockAt(chain_length - 1).timestamp

\* Between messages there are fewer accounts than start a trimming.
StoreBounded ==
  Cardinality(DOMAIN balances.store) < MaxNumberOfAccounts + AccountsOverflowTrimQuantity

\* lib.rs, on max_number_of_accounts: "The maximum size of the balances map."
MaximumSize == Cardinality(DOMAIN balances.store) <= MaxNumberOfAccounts

\* Heights of the trimming burns that a step writes.
NewTrims == (0 .. chain_length' - 1) \ (Heights \cup requested')

\* Nobody richer than a trimmed account is trimmed instead of it: what a trimming
\* takes is no more than what any account still holds, it takes all of it, and it
\* leaves exactly max_number_of_accounts accounts.
TrimsThePoorest ==
  [][\A h \in NewTrims :
       LET o == TxAt(h)'.operation
       IN  /\ o.from \notin DOMAIN balances'.store
           /\ \A a \in DOMAIN balances'.store : o.amount <= balances'.store[a]
           /\ Cardinality(DOMAIN balances'.store) = MaxNumberOfAccounts]_vars
=============================================================================
