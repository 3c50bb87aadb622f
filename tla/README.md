# A verification project for the mini-ledger

The repository holds a small token ledger in the style of ICRC-1, written in Rust to run
as a canister on the Internet Computer. This directory holds TLA+ models of it, the TLC
runs that check them on small instances, and theorems about them that TLAPS proves for
every instance.

Paths below are relative to the repository; `lib.rs` is `src/mini_ledger/src/lib.rs`,
`main.rs`, `endpoints.rs`, `transaction.rs`, `account.rs` and `hash.rs` are in
`src/mini_ledger/src/`, and `balances.rs`, `tokens.rs`, `block.rs` and
`timestamp.rs` are in `src/mini_ledger_core/src/`.

## 1. Inventory

| Part | State it keeps | Operations | What makes it correct |
|---|---|---|---|
| Token amounts (`tokens.rs`) | none: a `u64` of e8s | checked `+`, `-`, their assigning forms that panic, `new`, `unpack` | an amount never wraps round |
| Balance book (`balances.rs`) | `store`, a map from accounts to amounts; `token_pool`, what nobody holds | `transfer`, `burn`, `mint`, `debit`, `credit`, `update`, `account_balance` | no token is created or lost; an entry for each account that holds something and no other; the panics called bugs are unreachable |
| Accounts (`account.rs`) | none | `effective_subaccount`, `eq`, `hash`, order, compact encoding | an absent subaccount and the all-zero one are the same account everywhere |
| Transactions and memos (`transaction.rs`) | none | constructors, encoding, `hash`, memo length check | the digest identifies the transaction |
| Blocks (`block.rs`, `lib.rs`) | none | `encode`, `decode`, `block_hash`, `from_transaction` | the hash covers the parent |
| Chain (`lib.rs`, `Blockchain`) | encoded blocks, hash and time of the tip | `add_block`, `chain_length`, `block_slice` | every block names its predecessor; times never go back |
| Deduplication (`lib.rs`) | `transactions_by_hash`, digest to block index; `transactions_by_height`, a queue of digests with times | `purge_old_transactions`, look-up and insertion in `apply_transaction` | nothing runs twice while it would be accepted; the two tables agree; they do not grow without bound |
| Throttle (`lib.rs`) | none of its own: reads the queue | `throttle` | bounds the rate of requests |
| Trimming (`lib.rs`) | none of its own: the book and the chain | `select_accounts_to_trim` and the loop at the end of `apply_transaction` | the map stays bounded; the poorest go; every burn is in the chain |
| `apply_transaction` (`lib.rs`) | all of the above | purge, throttle, time checks, duplicate check, execution, block, tables, trimming | one message is one atomic change, and its answer is true |
| Installation (`lib.rs`, `from_init_args`) | the first ledger | mints the initial balances | the first state is one that messages could have made |
| Canister (`main.rs`, `endpoints.rs`) | the ledger in a `RefCell`; its image in stable memory during an upgrade | `icrc1_transfer`, `init`, `pre_upgrade`, `post_upgrade`, queries | right choice of transfer, mint or burn; nothing is lost by an upgrade |
| Queries (`lib.rs`, `endpoints.rs`) | none | `get_transactions`, `icrc1_*` | an answer is a slice of the chain, whatever was asked |
| Clients and their network (not in the repository) | orders, their stamped copies, answers on their way | send again until an answer settles the order | an order that is held to be paid is paid once, in the block named; every order is settled |
| Representation-independent hash (`hash.rs`) | none | `hash_value`, `hash_cbor` | different values have different pre-images |

### How the parts interact

`icrc1_transfer` turns a request into a `Transaction` and hands it, with the time, to
`apply_transaction`, which calls everything else by plain function calls. There are no
threads, no callbacks that do anything (`on_purged_transaction` is empty) and no `await`
between a read and a write. The Internet Computer delivers one message at a time and runs
it to its end; a trap undoes everything the message did, while an `Err` is an ordinary
answer and keeps every change made before it.

### What is hard

* *Retries against a moving window.* A caller who got no answer sends the request again,
  at any later time. The age check compares the time of **creation** with the window; the
  purge compares the time of the **block** with the window plus the drift, in batches that
  may lag far behind. Between them nothing may run twice.
* *Two tables kept in step by hand*, with an `unreachable!()` that, if it were ever
  reached, would make every later message trap as well.
* *Half-done calls that are not undone.* A purge happens before the checks and survives
  a refusal; a trap in the trimming loop would undo a payment that is unrelated to it.
* *Sums without an error path.* The pool and the credited account are increased with an
  operator that panics; only conservation of tokens over the whole history excludes it.
* *One account written in two ways*, in a map that keeps the first way of writing.
* *Upgrades* between a request and its repetition: all that deduplication needs has to
  survive them.
* *Checks before the look at the tables.* The endpoint compares a burn with the present
  balance, and fee and amount with what is allowed, before it is known that the call is a
  repetition.
* *64-bit ranges on a 32-bit platform* in `get_transactions`, and a chain that grows between
  the pages of a reader, by several blocks in one message.
* *Limits*: the queue at the throttle's threshold, the map at the trimming threshold,
  times near `u64::MAX`, comparisons at exactly the window.

`PROJECT.json` lists each hazard at its line with the properties aimed at it.

## 2. The modules

| Module | Models | State and actions |
|---|---|---|
| `Tokens` | `tokens.rs`: range and overflow of amounts | constant operators |
| `BalanceBook` | `balances.rs`, `Operation` and `Transaction::apply` as operators on a book `[store, token_pool]` | constant operators |
| `Balances` | a book and any sequence of operations on it | `balances`, `outcome`; `Done`, `InsufficientFunds`, `Panic` |
| `TokenBank` | abstract: what a book promises, one holding for each owner and effective subaccount | `holdings`, `pool`; `Pay`, `Retire`, `Issue` |
| `Ledger` | `apply_transaction` with the chain, the tables, the throttle and the trimming | see below |
| `IdealLedger` | abstract: a ledger that remembers every transaction it ever executed | `executed`, `now`, `reply`; `Execute`, `Refuse`, `Recall`, `Misdated`, `Unavailable` |
| `TrimSelection` | what `select_accounts_to_trim` promises | constant operators |
| `TrimLoops` | the two loops and the bounded heap that keep the promise | `store`, `rest`, `to_trim`; `Fill`, `Exchange` |
| `Accounts` | `account.rs`: the two ways of writing an account and what they have in common | constant operators |
| `Canister` | `main.rs`, `endpoints.rs`, `from_init_args`: installation, `icrc1_transfer`, upgrades, around `Ledger` | see below |
| `Client` | external: clients that repeat themselves over a bad network, around `Canister` | see below |
| `Queries` | `get_transactions` and `block_slice`, and (external) an auditor, around `Ledger` | see below |
| `Wire` | CBOR values of transactions and blocks, compact accounts, memos, and `hash.rs` | `one`, `other`: a pair of blocks to compare |
| `BalanceBookProofs`, `BalancesProofs` | lemmas and theorems on the book | |
| `TrimmingProofs`, `LedgerProofs` | lemmas and theorems on the ledger | |
| `TrimLoopsProofs`, `CanisterProofs` | theorems on the trimming loops, and on the canister and its clients | |
| `QueriesProofs` | theorems on the queries and the auditor | |
| `WireProofs` | theorems on encoding, decoding and digests | |
| `MC...` | instances for TLC | |

`Balances` and `Ledger` both build on the operators of `BalanceBook`, and `Canister`, `Client` and
`Queries` on `Ledger`, each extending the one before and adding its own variables. Three
refinements relate them: `Balances` implements `TokenBank` by a mapping that adds up what each
account holds; `Ledger` implements `IdealLedger` by the list of the blocks that callers asked
for; and `Canister` implements `Ledger` as it stands.

### Correspondence of `Ledger`

Variables: `balances`, `blockchain` (`blocks`, `last_hash`, `last_timestamp`),
`transactions_by_hash` and `transactions_by_height` are the fields of `Ledger` in `lib.rs`;
`now` is `ic_cdk::api::time()`; `reply` is how the last message ended; `requested` is a
history variable, the heights of the blocks that were written for callers and not by
trimming.

One message is one step. The disjuncts of `apply_transaction(tx)` are its ways to end:

| Action | The code |
|---|---|
| `TxThrottled` | nothing was purged and `throttle` is true |
| `TxTooOld`, `TxCreatedInFuture`, `TxDuplicate` | the three checks of a transaction with `created_at_time`, in this order; `TxDuplicate` reads the map **after** the purge |
| `InsufficientFunds` | `transaction.apply` refuses |
| `Accepted` | executes, adds the block, remembers the transaction, trims; `Ok` |
| `Trapped` | any panic; the state is left as it was. The cause is named: the two that a caller can provoke (`created_at_time` near `u64::MAX`, minting more than the pool holds) and `"bug"` for all that the code holds to be impossible |

All the `Err` answers go through `Rejected`, which keeps the purge. `Tick` lets the time
advance; it need not, so that many messages may see the same time, as they do.

What is abstracted: a digest is the value it is the digest of, under a constructor, so
SHA-256 is assumed to be free of collisions, and CBOR to be decodable. The digest of a
transaction covers accounts as they were written, so two ways of writing one account give
two transactions, as in the code. `Wire` shows that the constructor is justified. The heap of
`select_accounts_to_trim` is modelled by its result (`TrimSelection`): any set of lowest
balances (the `HashMap` decides ties), in any order that is a max-heap, since `into_vec`
returns the heap's array. `TrimLoops` shows that the loops arrive at such a set.

### Correspondence of `Canister`

`config` is the `InitArgs`; `phase` and `minted` say how far the installation has got;
`request`, `answer` and `accepted` are history: the last call, its `TransferResult` and, for
each height, the call that was answered `Ok` with it.

| Action | The code |
|---|---|
| `mint_initial_balance` | one turn of the loop in `from_init_args`: `apply_transaction` of a mint; an error is a panic and there is no canister (`"failed"`) |
| `AmountTooLarge`, `WrongFee`, `SmallBurn` | the errors of `icrc1_transfer` itself, in this order; each leaves the ledger alone, not even purging it |
| `Submit` | the choice between burn, mint and transfer, `apply_transaction`, and the conversion of its error into a `TransferError` |
| `upgrade` | `pre_upgrade` and `post_upgrade`: maps are written as their entries and read back |
| `Pass` | time |

The module adds nothing to the ledger's steps, which is a property: `IsALedger`.

### Correspondence of `Client`, `Queries` and `Wire`

`Client` has no code of its own to follow. A client stamps an order with a clock that is
ahead or behind (`Place`), sends it again as long as no copy is under way (`Resend`), and
takes the first answer that settles it (`Receive`); `Deliver` is `icrc1_transfer` with a copy
that may be late; `Lose` loses calls and answers. Answers are delivered in any order and a
copy may arrive long after its order was settled. `Others` are calls of anybody else, at any
time and in any number. It is the use that `created_at_time` and
`TransferError::Duplicate` have.

`Queries` computes `get_transactions` with the widths its numbers have on wasm32: `start` and
`length` are checked against 64 bits, added in 64 bits, and truncated to a `usize`. `ReadPage`
is an auditor who asks for the next page, up to the `log_length` he was last told, and
applies what he is shown to a book of his own.

`Wire` writes a transaction and a block as the CBOR values the encoder makes, decodes them by
the decoder's own checks, and hashes values as `hash_value` does, with a digest as a free
constructor on byte strings. `hash_value` calls itself on the parts of a value; the model has one
turn of it, `hash_with`, that is given what is done with the parts, and applies it as often as
values are nested: an account, a transaction, a block, a block under its tag. It is a state machine
only in so far as it walks through all pairs of blocks.

Operators whose comment starts with "Fault:" are variants of the operator after them, with
a plausible mistake in them. No specification uses them. Each property has one that breaks
it, which shows that the property says something about the code.

## 3. The runs

| Run | Question | Bounds and why they are enough | Distinct states |
|---|---|---|---|
| `balances` | Does any sequence of operations break the book, and is it a bank? | three accounts, one of them written in two ways; every amount and fee in `0..MaxTokens`, so that overflow, refusal and exact draining all occur | 165 |
| `dedup` | Can a repeated request run twice? | window 2, drift 1, nine moments, one purge per call, so that the tables lag; requests for the past, present and future, one that differs from another only in how the account is written, one without a time of creation, one dated `MaxTimeStamp` | 65,775 |
| `trim` | What does trimming do to book, chain and answers? | maximum 1, quantity 2, four accounts with ties and different ranks, seven blocks: room for two trimmings with payments around them; one caller's burn is indistinguishable from the ledger's own | 98,507 |
| `throttle` | What does the throttle promise? | four in a window of two seconds, so two freely and one a second; a second is two ticks; memos are symmetric | 1,809 |
| `canister` | Is a call answered, charged and recognised as it should be, across installations and upgrades? | two principals, one of them the minter; accounts without, with the zero and with another subaccount; five installations, of which some fail and one is trimmed on the way; calls that name no fee, the right one and a wrong one; window 2, drift 1; calls are accepted up to a chain of four blocks, two of them of the installation, with trimming at three accounts | 18,653 |
| `client` | Does repeating a call work? | two orders, one that its account could pay twice and one that traps; clocks behind and too far ahead; a window of one tick, so that copies arrive before, in and after it; one accepted call a second, for which a call of somebody else competes, once while the last order is acceptable and once in the second in which the clock stops, after which the throttle stays closed | 34,837 |
| `queries` | Can a chain be audited while it grows? | pages of two blocks of a chain of up to six, with trimming burns in it; a `usize` of 3 bits, a `u64` of 6, all ranges of `usize` | 17,586 |
| `trim_loops` | Do the loops select the poorest? | every map of up to five accounts with balances up to 3, ties included, every order of it; a quantity of two, so fewer, as many and more are there | 21,024 |
| `wire` | Could two blocks or transactions have one digest, and are they decoded to themselves? | owners and subaccounts that are prefixes of one another, absent and all-zero subaccounts, owners and memos up to the greatest length, every kind of operation; bytes of two bits and LEB128 digits of one, so that small numbers need several bytes | 2,601 |
| `throttle_guarantee` | a violation, see below | as `throttle`, with requests without `created_at_time` | |
| `maximum_size` | a violation, see below | as `trim` | |
| `queries_panic` | a violation, see below | as `queries` | |

`MaxNow` stops the clock, `MaxBlocks` stops acceptance and `LastOrder` the placing of orders.
For the safety properties they bound the state space and nothing else. For `EveryOrderSettles`
the clock has to go on until the windows of all orders are over, and `MaxBlocks` is more than
can be accepted; calls of others are not bounded by `LastOrder` (see section 4). At `MaxBlocks` requests are still refused, answered
as duplicates and throttled, so no instance of the ledger deadlocks. The canister may stop
where its installation has failed, the client's world when the clock has stopped and
nothing is under way, and the loops at their end: there, and nowhere else, deadlock is not
checked.

What is checked:

* `balances`: `TypeOK`, `Conservation`, `NoZeroEntry`, `OneEntryPerAccount`, `NoOverflow`,
  and `ImplementsBank`, the refinement.
* `dedup`: `NoDoubleExecution`; `RememberedWhileAcceptable`, the reason for it;
  `TablesAgree`, the condition of the `unreachable!()`; `OnlyCallersTrap`;
  `NoGrowthWhileStale`, an action property: while something is due for removal, each call
  removes at least as much as it adds; `NeverForgets`, the refinement of `IdealLedger`: what
  is executed and what is answered never depends on what was purged.
* `trim`: `BalancesMatchChain`, replaying the chain on a new book gives the book;
  `Conservation`; `ChainLinked`; `StoreBounded`; `AnswersNameTheirBlock`, the index in an
  `Ok` or a `TxDuplicate` is that of the caller's own block, not of a trimming burn after
  it; `TrimsThePoorest`, an action property; `OnlyCallersTrap`, here for the `expect` and the
  `unwrap` in the loop of the trimming; `TypeOK`.
* `throttle`: `ThrottledShare`, what is true of the throttle: until the first purge, any
  interval sees at most half the quota and `max_rate` for each second begun; and
  `ThrottledOnlyWhenBusy`, that it turns nobody away when less than that was let in during the
  last second.
* `canister`: `OncePerRequest`, also for copies that differ in whether they name the fee;
  `RepeatsAreRecognised`, a repetition of an accepted call is answered with its block or told
  to try again; `PaysWhatWasAgreed`; `MintingBalanceNeverGrows`; `SmallBurnsDrain`;
  `InstalledInFull`; `IsALedger`, the refinement of `Ledger`.
* `client`: `PaidMeansItsBlock`; `SettledForGood`, an order that was answered with a block or
  called too old is not executed afterwards; `EveryOrderSettles`, liveness.
* `queries`: `AuditorAgrees`, `AuditorNeverRefused`, `AnswersTheRange`.
* `trim_loops`: `SelectsThePoorest`. `wire`: `DigestIdentifies`, `BlockDigestIdentifies`,
  `AlwaysHashable`, `DecodesBack`.

Some limits of these statements are worth knowing:

* `RepeatsAreRecognised` does not hold for burns of less than a fee, which are left out of
  it: the endpoint compares the amount with the *present* balance before it looks at the
  tables, so the repetition of a burn that drained its account may be answered `BadBurn`.
* An order that was settled by a refusal is not for ever unpaid: an older copy of it may
  still arrive within its window and be executed. Answers with a block and `TooOld` are final
  (`SettledForGood`).
* `EveryOrderSettles` leaves out an order that is answered `TemporarilyUnavailable` for ever.
  `apply_transaction` looks at the throttle (`lib.rs:326`) before it looks at the age of a
  transaction (`lib.rs:336`), so as long as others keep the throttle closed, the client may not
  even be told that the window of its order is over. `ThrottledOnlyWhenBusy` says that this
  takes a lasting load.
* `InstalledInFull` leaves out accounts that were trimmed while the initial balances were
  minted: what `max_number_of_accounts` and the trim quantity have no room for is burnt.

### Comments the code does not keep

* `throttle` says that "at most max_transactions_in_window will get through within the
  transaction window". It counts `transactions_by_height`, which holds only transactions
  with a `created_at_time`; requests without one are never counted. Run
  `throttle_guarantee` shows more of them accepted.
* `max_number_of_accounts` is documented as "The maximum size of the balances map".
  Trimming starts at the sum of this number and the trim quantity, so the map is larger
  than its maximum most of the time. Run `maximum_size` shows it; `StoreBounded` is the
  bound that does hold.
* `block_slice` "panics if the specified range is not a subset of locally available blocks"
  (`lib.rs:169`). Its ends are converted with `as usize`, which on the canister's platform
  drops the upper 32 bits: the block at 2^32 is answered with block 0, under `first_index`
  2^32. Run `queries_panic` shows it; `AnswersTheRange` is what holds of ranges within 32 bits.

## 4. Fairness and liveness

The ledger never acts of its own accord: every change is made by a message, and nothing
obliges a caller to send one. So no fairness is assumed in `Ledger`, `Canister` or `Queries`, and
what could be called progress there, that the tables are emptied, is stated as safety:
no call makes them grow while anything in them is stale.

`Client` has a liveness property, `EveryOrderSettles`, under

* weak fairness of `Pass`: time goes on while the canister runs;
* weak fairness of `Resend` for each order: a client that has no answer sends again;
* of copies of an order that are under way again and again, some are delivered, and of answers
  to it, some are received: the network may lose any message but not all of them. The first
  is written out, `[]<>(o \in copies) => []<><<Deliver(o)>>`, and is strong fairness of `Deliver`,
  since a copy that is under way can always be delivered.

Nothing is assumed of `Lose`, of `Place`, of `Others` (the calls of everybody else), of upgrades or
of the canister's answers. An order that traps, or is refused for its date, is settled at the
end of its window, by the check of its age. While it is throttled it is not settled, not even
after its window, because the throttle comes first; so the property is that an order is
settled or is throttled again and again for ever. `ClientAssumption` says that the clock does
not stop before the windows of the orders are over; it says nothing of the load. In the run, a
call of somebody else may be accepted in the last second of the clock, and then the throttle
stays closed: without the exception the property is violated there.

## 5. The proofs

TLAPS checks every theorem to the last leaf. They hold for all values of the constants
under the named assumptions: `MaxTokens` is a natural number; `Account` is finite, `KeyOf`
arbitrary; transactions are records of operations, times and memos; the window, the second,
the purge limit, the trim quantity and `max_transactions_in_window` are positive (it is 3,000,000,
`lib.rs:514`; with 0 the throttle would compute a rate of 0 and never fire); and time stays far enough below
`u64::MAX` to add a window, a drift and a second (`TimeAssumption`), which holds for the
next five centuries. For the canister, `KeyOf` is what `account.rs` compares, and the calls are
those whose transactions the ledger knows.

**The book** (`BalanceBookProofs`, `BalancesProofs`). The inductive invariant `Inv` says: the book
has its type, its tokens add up to `MaxTokens`, there is no zero entry, no account has two
entries, and no operation has overflowed. Types alone are not inductive: that a credit does
not overflow follows only from conservation (`CreditFacts`), and conservation needs sums over
the accounts. The lemmas at the top of `BalanceBookProofs` say what is needed of such sums: that a sum
changes by as much as the one term that changes, is no less than any term, and grows by the
term that is added. The library has no induction that the provers can use for this, so
induction over the subsets of a finite set comes first. Results: `TypeCorrect`, `TokensConserved`, `OverflowUnreachable`,
`NoEmptyEntries`, `OneEntryEach`, and `BookImplementsBank`, which needs `OneEntryPerAccount` to read
a holding off the map. `AppliedBalances` and `RemovalBalances` say, for any account, what it holds
after an operation and after a trimming; the canister's theorems rest on them.

The sum of amount and fee is modelled with the width it has, `debit_amount` wraps round at
`MaxTokens`; that a payment is refused whenever it would is what `TransferSum` rests on, and the
refinement with it.

**The ledger** (`TrimmingProofs`, `LedgerProofs`). The parts of `Inv` are operators on
values, so the lemmas about them are free of primes:

* `ChainOK`: callers' transactions and trimming burns, times in order and not after `now`;
* `RequestsOK`: nothing was accepted that is dated further ahead of its block than the drift;
* `Linked`: map and queue remember the same heights, in order, under the digests and with
  the times of their blocks;
* `Remembered`: what the map has not is too old;
* `Once`: no digest twice; and `GoodBook`, `OnlyCallersTrap`.

`NoDoubleExecution` alone is not inductive. The argument is: the purge takes only entries
that are `Expired`; an entry's time is that of its block (`Linked`); its transaction was
dated at most the drift after that (`RequestsOK`); so what is purged is too old to be
accepted again (`PurgeFacts`), and a transaction that is accepted is not in the tables only
if it was never executed (`OneMore`). That the purge does not meet its `unreachable!()` is
`Linked` again: the heights of the queue are strictly increasing, so its digests differ.

For trimming, `TrimmedFacts` shows by induction over the turns of the loop that every burn
succeeds, because the victims are different entries and a burn changes no other entry; that
the map loses exactly the victims; and that what is appended is one trimming burn for each
victim, of all it had. So no panic of the loop can undo a payment.

Theorems: `AtMostOnce`, `RememberedLongEnough`, `TablesInStep`, `BugsUnreachable`,
`StaleTablesShrink`, `LedgerConserves`, `TypeCorrect`. With a second invariant, `ChainInv`, which
says that the hashes of the chain are right (`HashesOK`) and that there is a replay of it that
ends in the book (`Replays`): `HashesLink` and `ChainTellsAll`. A replay is a function on the
heights, and so is the recursive function that the property replays with; that there is only
one such function (`ReplayUnique`) brings them together. By the number of entries that a turn
of the loop leaves: `MapBounded`, since an operation adds at most one entry (`AppliedSize`), and
`PoorestAreTrimmed`.

**The throttle** (`LedgerProofs`). `HalfThenPaced` is `ThrottledShare` for every window, second and quota. The
invariant is `ThrottleInv`: as long as nothing was purged, which is to say that the queue is as
long as there are tracked transactions, the queue is `Paced`: beyond the first half of the
quota, an entry comes a whole second after the one `max_rate` places before it, because
`throttle` looked at that very place when it let the entry in. That such distances add up
over any number of seconds (`PaceAddsUp`), and so bound how many entries an interval holds
(`PlacesBounded`), is arithmetic with divisions, done once on queues; `QueueFacts` carries it over
to the chain, since the entries of the queue are the tracked blocks, one each (`Linked`).
`QuietSecondOpens` (`ThrottledOnlyWhenBusy`) is the other direction, and needs no more than the
order of the queue: if the entry that `throttle` looks at is less than a second old, so are all
after it, and each is a block of its own.

**The ledger that never forgets** (`LedgerProofs`). `LedgerNeverForgets` is the refinement of
`IdealLedger`. Its heart is `KnownIffExecuted`: a transaction that is not too old is in the map if
and only if it was ever executed, and then with its height. This is the reason why, for a
caller, the tables and their purge do not exist. `AnswersAreTrue` follows from it.

**The canister** (`CanisterProofs`). `CanisterImplementsLedger`: every step of the canister is one
of the ledger or none, so that all the theorems above hold of it, across upgrades
(`CanisterLedgerFacts`); the point is `PairsRoundTrip`, a map written as its entries is read back
as itself. The invariant `CanisterInv` adds to that of the ledger that each call answered `Ok` is
in the chain, at its height, as the transaction of that call. From it and `Once` follows
`AcceptedOnce`, and from it and `KnownIffExecuted` `RepetitionsRecognised`. What an accepted call
does to the balance of each account (`CallBalances`, `AcceptedBalances`) gives `OwnersPay`,
`MinterIsNeverCredited` and `SmallBurnsLeaveNothing`.

**The installation** (`CanisterProofs`). `InstallationIsComplete`: the invariant `InstallInv` says that
after `minted` turns of the loop each account holds what the first `minted` entries of the
arguments promise it (`Promised`), entries for one account written in different ways added up,
unless the chain has a burn of it that nobody asked for (`WasTrimmed`). A turn adds one entry to
this sum (`PromisedGrows`, by `SumOnSetGrows`) and as much to that account and to no other
(`MintedAsPromised`); it takes from no account but by a trimming burn (`AcceptedBalances`), which
stays in the chain. How much trimming takes and from whom is `TrimsThePoorest`.

**The clients** (`CanisterProofs`). `ClientInv` adds that every copy under way is one of a request,
and that what clients know, and what is on its way to them, is true: an answer that names a
block names that of its order's transaction, and an order is called too old only when it is
(`Truthful`, `NetworkOK`). It stays true because the ledger only appends (`HistoryKept`), time
does not go back (`WindowsStayOver`), and because the answers are true when they are given
(`AnswerOfCall`, `TooOldReply`, `AnswerToCall`). It gives `PaidOrdersArePaid`, and
`AnswersAreFinal` (`SettledForGood`): if an order in the chain were executed again, its digest
would be there twice, against `Once`; and if one that was too old were, it would have passed a
check of its age that it cannot pass any more (`NewRequest`). The assumptions on the constants
are that a stamped order is a request (`OrdersAreRequests`) and so are the calls of others; no
bound on the load is used.

**The loops of the trimming** (`TrimLoopsProofs`). `LoopsSelect`: for every map and every order of
it. The invariant says that of what was visited the heap holds the poorest, as many as
visited or as fit.

**The queries** (`QueriesProofs`). `RangesAreAnswered` (`AnswersTheRange`) is arithmetic with two moduli:
a range whose end fits a `usize` goes through both conversions unchanged (`RangeFacts`), so it is
answered if and only if all of it is in the chain, with exactly its blocks, and traps otherwise.
The code sets no limit to the length of an answer, and none is claimed.
`PagesAreAnswered` and `AuditsAgree` rest on `QueryInv`: the auditor's `seen` and `told` never pass the end
of the chain, and his book is the one that a replay of the chain has after the blocks he has
seen. Reading a page goes on with that replay (`PageReplayed`), a message of the ledger extends it
and leaves what it said of earlier heights (`ChainContinues`), and when he has seen all, `Replays`
says that its book is the ledger's. He is never refused because the chain he is told of is
shorter than 2^32 blocks (`WidthAssumption`); beyond that the code answers with other blocks, see
`queries_panic`.

**Encoding and digests** (`WireProofs`). `Wire` has four theorems: `BlocksDecodeBack`, `EverythingHashes`,
`DigestsIdentify` and `BlockDigestsIdentify`. They take the same road. Decoder and digest both see
of a struct nothing but the set of its entries (`TransactionWritten`, `BlockWritten`): the decoder
because it looks fields up by name (`FieldFacts`), the digest because it sorts. From that set a
transaction or a block is read back, an absent option by the absence of its entry
(`TransactionDecodes`, `BlockDecodes`). And the digest gives that set away:

* the string that is hashed for a map determines the set of pairs of digests (`SpreadInjective`),
  since digests are pieces of one length, so that keys and values cannot run into one another;
* a pair of digests determines the entry (`TypedInjective`, `TypedBlockInjective`). The key's digest
  tells the field, hence the type of the value, and within one type no two values have the same
  bytes. Without the key this is false: the bytes of a number may be those of a memo;
* a number is determined by its LEB128 bytes (`Leb128Injective`), for any radix: only the last byte
  is below the radix, so no encoding is a proper prefix of another, and the digits give the number;
* an account is determined by its owner and whether and how its subaccount is written.

So blocks with one digest have the same entries, and are one block because both are what these
entries are decoded to. The assumptions are `WireAssumption`, that accounts are made of byte strings, owners not too long,
with subaccounts of one length, and that the names of fields differ in UTF-8; `BlockAssumption`, that
blocks have the types of `Block` and `Transaction`; and, built into `sha256`, that SHA-256 has no
collisions.

`leb128` is a recursive function, and what it computes is proved without the library's induction:
`LebAgree` and `LebExists` show, by the induction over numbers of `BalanceBookProofs`, that exactly one
function satisfies its equation.

**Only model-checked**: `EveryOrderSettles`, since liveness under fairness and `ENABLED` are out of
the prover's reach. All the other properties of the passing runs are theorems.

## 6. Not modelled

* `Tokens::new`, `from_tokens`, `unpack` and the getters of whole tokens, `TimeStamp::new` and the
  conversions of times to and from `SystemTime`: nothing in the canister calls them.
* `num_archived_blocks`: always 0. `on_purged_transaction`: empty. The queries for name,
  symbol, decimals, fee and metadata return constants or fields of the arguments.
* SHA-256, which is taken to be free of collisions, and the bytes of CBOR, which are taken to
  decode to the value they encode: they are libraries. Booleans, floats and negative numbers
  occur in no block.
* `Principal::try_from`, by which the decoder checks the owner of an account
  (`transaction.rs:72-73`), is a library too. `PrincipalFits` has the one thing it checks, the
  length of the bytes (at most 29); that the principals of calls pass it is an assumption
  (`WireAssumption`), since a `Principal` cannot be made of more.
* The heap as an array: `TrimLoops` has the set of its elements and its top, `TrimSelection` the
  order that its array may be in.
* The Candid interface, its test and the build files: declarations without behaviour.

## 7. What could be added

Nothing of the code is known to be missing.
