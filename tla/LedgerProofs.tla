---------------------------- MODULE LedgerProofs ----------------------------
(***************************************************************************)
(* Theorems on the ledger, for every set of transactions, accounts and     *)
(* memos and all values of the limits.                                     *)
(*                                                                         *)
(* The parts of the inductive invariant are operators on values (a chain,  *)
(* a set of heights, a map, a queue, a time), so that the lemmas about     *)
(* them need no primes; Inv applies them to the variables.                 *)
(***************************************************************************)
EXTENDS TrimmingProofs

BlockIn(c, h)  == decode(c.blocks[h + 1])
HeightsOf(c)   == 0 .. Len(c.blocks) - 1
Requests(c, R) == {h \in R : Deduplicates(BlockIn(c, h).transaction)}

\* The chain: transactions of callers and trimming burns, in the order of time.
ChainOK(c, t) ==
  /\ IsSequence(c.blocks)
  /\ c.last_timestamp \in TimeStamp /\ c.last_timestamp <= t
  /\ \A h \in HeightsOf(c) :
       /\ BlockIn(c, h).transaction \in Transaction \cup TrimBurns
       /\ BlockIn(c, h).timestamp \in 0 .. c.last_timestamp
  /\ \A g, h \in HeightsOf(c) : g <= h => BlockIn(c, g).timestamp <= BlockIn(c, h).timestamp

\* What callers asked for is in the chain, and not dated further ahead than the drift.
RequestsOK(c, R) ==
  /\ R \subseteq HeightsOf(c)
  /\ \A h \in R : BlockIn(c, h).transaction \in Transaction
  /\ \A h \in Requests(c, R) :
       BlockIn(c, h).transaction.created_at_time <= BlockIn(c, h).timestamp + PermittedDrift

Entry == [block_timestamp : TimeStamp, transaction_hash : Hash]

\* The map and the queue remember the same heights of T, in order, under the hashes
\* and with the times of their blocks.
Linked(c, T, map, queue) ==
  /\ queue \in Seq(Entry)
  /\ map = [x \in DOMAIN map |-> map[x]]
  /\ DOMAIN map = {queue[i].transaction_hash : i \in 1 .. Len(queue)}
  /\ \A i, j \in 1 .. Len(queue) :
       i < j => map[queue[i].transaction_hash] < map[queue[j].transaction_hash]
  /\ \A i \in 1 .. Len(queue) :
       /\ map[queue[i].transaction_hash] \in T
       /\ tx_hash(BlockIn(c, map[queue[i].transaction_hash]).transaction) = queue[i].transaction_hash
       /\ BlockIn(c, map[queue[i].transaction_hash]).timestamp = queue[i].block_timestamp

\* What is not in the map is too old at time t to be accepted again.
Remembered(c, T, map, t) ==
  \A h \in T :
    \/ BlockIn(c, h).transaction.created_at_time + TransactionWindow < t
    \/ /\ tx_hash(BlockIn(c, h).transaction) \in DOMAIN map
       /\ map[tx_hash(BlockIn(c, h).transaction)] = h

Once(c, T) ==
  \A g, h \in T : tx_hash(BlockIn(c, g).transaction) = tx_hash(BlockIn(c, h).transaction) => g = h

DedupOK(c, R, map, queue, t) ==
  /\ RequestsOK(c, R)
  /\ Linked(c, Requests(c, R), map, queue)
  /\ Remembered(c, Requests(c, R), map, t)
  /\ Once(c, Requests(c, R))

\* The inductive invariant.  NoDoubleExecution follows from Remembered, which holds
\* because the purge takes only what is Expired, which is TooOld by RequestsOK, which
\* says it of the block whose time the queue has, by Linked.
Inv ==
  /\ now \in StartTime .. MaxNow
  /\ GoodBook(balances)
  /\ ChainOK(blockchain, now)
  /\ DedupOK(blockchain, requested, transactions_by_hash, transactions_by_height, now)
  /\ OnlyCallersTrap
-----------------------------------------------------------------------------
(* Facts about the constants. *)

\* Times are natural numbers, and so is the time of creation of a transaction that has one.
LEMMA TimeFacts ==
  /\ TimeStamp \subseteq Nat
  /\ StartTime .. MaxNow \subseteq TimeStamp
  /\ TransactionWindow \in Nat /\ PermittedDrift \in Nat
  /\ MaxTransactionsToPurge \in Nat /\ MaxTransactionsToPurge >= 1
  /\ \A tx \in Transaction : Deduplicates(tx) => tx.created_at_time \in TimeStamp
<1>1. TimeStamp = 0 .. MaxTimeStamp /\ StartTime .. MaxNow \subseteq 0 .. MaxTimeStamp
  BY TimeAssumption DEF TimeStamp
<1>2. \A tx \in Transaction : tx.created_at_time \in TimeStamp \cup {None}
  BY TransactionAssumption DEF TransactionOf
<1> QED BY <1>1, <1>2, TimeAssumption, LimitsAssumption DEF Deduplicates

\* The digest determines the transaction.
LEMMA HashFacts ==
  /\ \A a, b : tx_hash(a) = tx_hash(b) => a = b
  /\ \A tx \in Transaction : tx_hash(tx) \in Hash /\ tx.operation \in Operation
<1>1. ASSUME NEW a, NEW b, tx_hash(a) = tx_hash(b) PROVE a = b
  <2>1. tx_hash(a).sha256 = a /\ tx_hash(b).sha256 = b
    BY DEF tx_hash
  <2> QED BY <1>1, <2>1
<1>2. \A tx \in Transaction : tx_hash(tx) \in Hash /\ tx.operation \in Operation
  BY TransactionAssumption DEF Hash, TransactionOf
<1> QED BY <1>1, <1>2
-----------------------------------------------------------------------------
(* The purge. *)

\* The purge takes only transactions that are expired, and does not meet its
\* unreachable!() arm; what it leaves is linked as before, and what it takes is too old.
LEMMA PurgeFacts ==
  ASSUME Inv
  PROVE  /\ ~ PurgeFails
         /\ num_tx_purged \in 0 .. Len(transactions_by_height)
         /\ KeptByHeight \in Seq(Entry)
         /\ Len(KeptByHeight) = Len(transactions_by_height) - num_tx_purged
         /\ \A i \in 1 .. Len(KeptByHeight) :
              KeptByHeight[i] = transactions_by_height[i + num_tx_purged]
         /\ Linked(blockchain, Requests(blockchain, requested), KeptByHash, KeptByHeight)
         /\ Remembered(blockchain, Requests(blockchain, requested), KeptByHash, now)
<1> DEFINE map   == transactions_by_hash
           queue == transactions_by_height
           T     == Requests(blockchain, requested)
           n     == num_tx_purged
           hash(i) == queue[i].transaction_hash
<1>1. Linked(blockchain, T, map, queue) /\ Remembered(blockchain, T, map, now) /\ RequestsOK(blockchain, requested)
  BY DEF Inv, DedupOK
<1>2. /\ queue \in Seq(Entry) /\ Len(queue) \in Nat
      /\ \A i \in 1 .. Len(queue) : queue[i] \in Entry
  BY <1>1, LenProperties, ElementOfSeq DEF Linked
<1>3. n \in 0 .. Len(queue) /\ \A i \in 1 .. n : Expired(queue[i], now)
  <2> DEFINE S == {m \in 0 .. Len(queue) :
                     m <= MaxTransactionsToPurge /\ \A i \in 1 .. m : Expired(queue[i], now)}
  <2>1. S \in SUBSET (0 .. Len(queue))
    OBVIOUS
  <2>2. 0 \in S
    BY <1>2, TimeFacts
  <2>3. n = Max(S)
    BY DEF num_tx_purged
  <2> HIDE DEF n, S, queue
  <2>4. Max(S) \in S
    BY <1>2, <2>1, <2>2, MaxFacts
  <2> QED BY <2>3, <2>4 DEF S
<1>4. \A x \in T : /\ x \in Nat /\ BlockIn(blockchain, x).transaction \in Transaction
                   /\ BlockIn(blockchain, x).transaction.created_at_time \in TimeStamp
                   /\ BlockIn(blockchain, x).transaction.created_at_time
                        <= BlockIn(blockchain, x).timestamp + PermittedDrift
  BY <1>1, TimeFacts DEF RequestsOK, Requests, HeightsOf
<1>5. \A i, j \in 1 .. Len(queue) : i # j => hash(i) # hash(j)
  <2>1. ASSUME NEW i \in 1 .. Len(queue), NEW j \in 1 .. Len(queue), i < j, hash(i) = hash(j)
        PROVE  FALSE
    <3>1. map[hash(i)] < map[hash(j)] /\ map[hash(i)] \in Nat
      BY <1>1, <1>4, <2>1 DEF Linked
    <3> QED BY <3>1, <2>1
  <2> QED BY <1>2, <2>1
<1>6. ~ PurgeFails
  <2>1. \A i \in 1 .. n : hash(i) \in DOMAIN map
    BY <1>1, <1>2, <1>3 DEF Linked
  <2>2. \A i \in 1 .. n, j \in 1 .. n : i # j => hash(i) # hash(j)
    BY <1>2, <1>3, <1>5
  <2> QED BY <1>2, <1>3, <2>1, <2>2 DEF PurgeFails, PurgedHash
<1>7. /\ KeptByHeight \in Seq(Entry)
      /\ Len(KeptByHeight) = Len(queue) - n
      /\ \A i \in 1 .. Len(queue) - n : KeptByHeight[i] = queue[i + n]
  <2>1. n \in Nat /\ n + 1 \in Int /\ \A i \in n + 1 .. Len(queue) : queue[i] \in Entry
    BY <1>2, <1>3
  <2> HIDE DEF n, queue
  <2>2. /\ SubSeq(queue, n + 1, Len(queue)) \in Seq(Entry)
        /\ Len(SubSeq(queue, n + 1, Len(queue)))
             = IF n + 1 <= Len(queue) THEN Len(queue) - (n + 1) + 1 ELSE 0
        /\ \A i \in 1 .. Len(queue) - (n + 1) + 1 :
             SubSeq(queue, n + 1, Len(queue))[i] = queue[n + 1 + i - 1]
    BY <1>2, <2>1, SubSeqProperties
  <2>3. KeptByHeight = SubSeq(queue, n + 1, Len(queue))
    BY DEF KeptByHeight, n, queue
  <2>4. \A i \in 1 .. Len(queue) - n : n + 1 + i - 1 = i + n
    BY <1>2, <2>1
  <2> QED BY <1>2, <1>3, <2>1, <2>2, <2>3, <2>4
<1>8. /\ DOMAIN KeptByHash = DOMAIN map \ {hash(i) : i \in 1 .. n}
      /\ KeptByHash = [x \in DOMAIN KeptByHash |-> KeptByHash[x]]
      /\ \A x \in DOMAIN KeptByHash : KeptByHash[x] = map[x]
  BY DEF KeptByHash, Restrict, PurgedHash
<1> HIDE DEF map, queue, T, n
<1>9. DOMAIN KeptByHash = {hash(i) : i \in n + 1 .. Len(queue)}
  <2>1. DOMAIN map = {hash(i) : i \in 1 .. Len(queue)}
    BY <1>1 DEF Linked
  <2>2. \A i \in n + 1 .. Len(queue), j \in 1 .. n : hash(i) # hash(j)
    BY <1>2, <1>3, <1>5
  <2>3. 1 .. Len(queue) = (1 .. n) \cup (n + 1 .. Len(queue))
    BY <1>2, <1>3
  <2> QED BY <1>8, <2>1, <2>2, <2>3
<1>10. Linked(blockchain, T, KeptByHash, KeptByHeight)
  <2> DEFINE m == Len(queue) - n
             kept(i) == KeptByHeight[i].transaction_hash
  <2>1. \A i \in 1 .. m : i + n \in n + 1 .. Len(queue) /\ i + n \in 1 .. Len(queue)
    BY <1>2, <1>3
  <2>2. \A i \in 1 .. m : /\ KeptByHeight[i] = queue[i + n] /\ kept(i) = hash(i + n)
                         /\ kept(i) \in DOMAIN KeptByHash
                         /\ KeptByHash[kept(i)] = map[hash(i + n)]
    BY <1>7, <1>8, <1>9, <2>1
  <2>3. \A i \in n + 1 .. Len(queue) : i - n \in 1 .. m /\ hash(i) = kept(i - n)
    BY <1>2, <1>3, <1>7
  <2>4. DOMAIN KeptByHash = {kept(i) : i \in 1 .. Len(KeptByHeight)}
    <3>1. Len(KeptByHeight) = m
      BY <1>7
    <3> HIDE DEF hash, kept, m
    <3>2. \A x \in {hash(i) : i \in n + 1 .. Len(queue)} : x \in {kept(i) : i \in 1 .. m}
      BY <2>3
    <3>3. \A x \in {kept(i) : i \in 1 .. m} : x \in {hash(i) : i \in n + 1 .. Len(queue)}
      BY <2>1, <2>2
    <3> QED BY <1>9, <3>1, <3>2, <3>3
  <2>5. \A i, j \in 1 .. m : i < j => KeptByHash[kept(i)] < KeptByHash[kept(j)]
    <3>1. \A i, j \in 1 .. m : i < j => map[hash(i + n)] < map[hash(j + n)]
      BY <1>1, <1>2, <1>3, <2>1 DEF Linked
    <3> QED BY <2>2, <3>1
  <2>6. \A i \in 1 .. m :
          /\ KeptByHash[kept(i)] \in T
          /\ tx_hash(BlockIn(blockchain, KeptByHash[kept(i)]).transaction) = kept(i)
          /\ BlockIn(blockchain, KeptByHash[kept(i)]).timestamp = KeptByHeight[i].block_timestamp
    BY <1>1, <2>1, <2>2 DEF Linked
  <2> HIDE DEF m
  <2> QED BY <1>7, <1>8, <2>4, <2>5, <2>6 DEF Linked, m
<1>11. Remembered(blockchain, T, KeptByHash, now)
  <2> SUFFICES ASSUME NEW h \in T,
                      tx_hash(BlockIn(blockchain, h).transaction) \notin DOMAIN KeptByHash
                        \/ KeptByHash[tx_hash(BlockIn(blockchain, h).transaction)] # h
               PROVE  BlockIn(blockchain, h).transaction.created_at_time + TransactionWindow < now
    BY DEF Remembered
  <2> DEFINE tx == BlockIn(blockchain, h).transaction
  <2>1. CASE ~ (tx_hash(tx) \in DOMAIN map /\ map[tx_hash(tx)] = h)
    BY <1>1, <2>1 DEF Remembered
  <2>2. CASE tx_hash(tx) \in DOMAIN map /\ map[tx_hash(tx)] = h
    <3>1. PICK i \in 1 .. n : tx_hash(tx) = hash(i)
      BY <1>8, <2>2
    <3>2. /\ i \in 1 .. Len(queue)
          /\ BlockIn(blockchain, h).timestamp = queue[i].block_timestamp
      BY <1>1, <1>2, <1>3, <2>2, <3>1 DEF Linked
    <3>3. /\ queue[i].block_timestamp \in Nat
          /\ queue[i].block_timestamp + TransactionWindow + PermittedDrift < now
      BY <1>2, <1>3, <3>1, <3>2, TimeFacts DEF Entry, Expired
    <3>4. now \in Nat /\ tx.created_at_time \in Nat
          /\ tx.created_at_time <= queue[i].block_timestamp + PermittedDrift
      BY <1>4, <3>2, TimeFacts DEF Inv
    <3> QED BY <3>3, <3>4, TimeFacts
  <2> QED BY <2>1, <2>2
<1> QED BY <1>3, <1>6, <1>7, <1>10, <1>11 DEF n, queue, T
-----------------------------------------------------------------------------
(* The payment and the blocks that a message writes. *)

\* d is chain c with the block of tx at time t on top, and then trimming burns.
Grown(c, d, tx, t) ==
  /\ IsSequence(d.blocks)
  /\ Len(c.blocks) + 1 <= Len(d.blocks)
  /\ \A h \in HeightsOf(c) : BlockIn(d, h) = BlockIn(c, h)
  /\ BlockIn(d, Len(c.blocks)).transaction = tx
  /\ \A h \in Len(c.blocks) + 1 .. Len(d.blocks) - 1 : BlockIn(d, h).transaction \in TrimBurns
  /\ \A h \in Len(c.blocks) .. Len(d.blocks) - 1 : BlockIn(d, h).timestamp = t
  /\ d.last_timestamp = t

\* Every outcome of the trimming that may follow a payment is a good one...
LEMMA TrimmedStateFacts ==
  ASSUME Inv, NEW tx \in Transaction, Pays(tx), NEW st \in TrimmedStates(tx)
  PROVE  /\ st.failed = FALSE
         /\ GoodBook(st.balances)
         /\ Grown(blockchain, st.blockchain, tx, now)
<1> DEFINE book  == PaidBook(tx)
           chain == PaidChain(tx)
           n     == Len(blockchain.blocks)
<1>1. GoodBook(book)
  BY AppliedGood, HashFacts DEF Inv, Pays, PaidBook
<1>2. /\ IsSequence(chain.blocks) /\ n \in Nat /\ Len(chain.blocks) = n + 1
      /\ \A i \in 1 .. n : chain.blocks[i] = blockchain.blocks[i]
      /\ decode(chain.blocks[n + 1]).transaction = tx
      /\ decode(chain.blocks[n + 1]).timestamp = now
      /\ chain.last_timestamp = now
  BY AddBlockFacts DEF PaidChain, Inv, ChainOK
<1>3. PICK victims \in ToTrim(book.store) : st = Trimmed(book, chain, victims, now)
  BY DEF TrimmedStates
<1>4. now \in TimeStamp
  BY TimeFacts DEF Inv
<1> HIDE DEF book, chain
<1>5. TrimmedSoFar(st, Len(victims), book, chain, victims, now)
  BY <1>1, <1>2, <1>3, <1>4, TrimmedFacts
<1>6. Grown(blockchain, st.blockchain, tx, now)
  <2> DEFINE d == st.blockchain
  <2>1. /\ IsSequence(d.blocks) /\ d.last_timestamp = now
        /\ n + 1 <= Len(d.blocks)
        /\ \A i \in 1 .. n + 1 : d.blocks[i] = chain.blocks[i]
        /\ \A i \in n + 2 .. Len(d.blocks) :
             decode(d.blocks[i]).transaction \in TrimBurns /\ decode(d.blocks[i]).timestamp = now
    BY <1>2, <1>5 DEF TrimmedSoFar, TrimmedChain, Continues
  <2>2. Len(d.blocks) \in Nat
    BY <2>1, AppendFacts
  <2> HIDE DEF d
  <2>3. \A h \in 0 .. n - 1 : decode(d.blocks[h + 1]) = decode(blockchain.blocks[h + 1])
    BY <1>2, <2>1
  <2>4. decode(d.blocks[n + 1]).transaction = tx /\ decode(d.blocks[n + 1]).timestamp = now
    BY <1>2, <2>1
  <2>5. \A h \in n + 1 .. Len(d.blocks) - 1 :
          decode(d.blocks[h + 1]).transaction \in TrimBurns /\ decode(d.blocks[h + 1]).timestamp = now
    BY <1>2, <2>1, <2>2
  <2>6. \A h \in n .. Len(d.blocks) - 1 : decode(d.blocks[h + 1]).timestamp = now
    BY <1>2, <2>2, <2>4, <2>5
  <2> QED BY <2>1, <2>3, <2>4, <2>5, <2>6 DEF Grown, BlockIn, HeightsOf, d
<1> QED BY <1>5, <1>6 DEF TrimmedSoFar, TrimmedBook

\* ...so that no payment ends in a panic the code calls a bug.
LEMMA NeverBreaks ==
  ASSUME Inv, NEW tx \in Transaction, Pays(tx)
  PROVE  ~ Breaks(tx)
<1>1. ~ Overflows(balances, tx.operation)
  BY AppliedGood, HashFacts DEF Inv, Pays
<1>2. ~ AddBlockFails(blockchain, from_transaction(blockchain.last_hash, tx, now))
  <2>1. now \in Nat /\ blockchain.last_timestamp \in Nat /\ blockchain.last_timestamp <= now
    BY TimeFacts DEF Inv, ChainOK
  <2> QED BY <2>1 DEF AddBlockFails, from_transaction
<1>3. \A st \in TrimmedStates(tx) : ~ st.failed
  BY TrimmedStateFacts
<1> QED BY <1>1, <1>2, <1>3 DEF Breaks

\* The new chain is in the order of time again, and has one more block at least.
LEMMA GrownChain ==
  ASSUME NEW c, NEW d, NEW tx \in Transaction, NEW t \in TimeStamp, ChainOK(c, t), Grown(c, d, tx, t)
  PROVE  /\ ChainOK(d, t)
         /\ HeightsOf(c) \subseteq HeightsOf(d) /\ HeightsOf(d) \subseteq Nat
         /\ Len(c.blocks) \in HeightsOf(d) /\ Len(c.blocks) \notin HeightsOf(c)
<1> DEFINE n == Len(c.blocks)
           l == Len(d.blocks)
<1>1. n \in Nat /\ l \in Nat /\ n + 1 <= l /\ t \in Nat
  BY AppendFacts, TimeFacts DEF ChainOK, Grown
<1>2. HeightsOf(c) = 0 .. n - 1 /\ HeightsOf(d) = 0 .. l - 1
  BY DEF HeightsOf
<1>3. \A h \in 0 .. n - 1 : BlockIn(d, h) = BlockIn(c, h)
  BY <1>2 DEF Grown
<1>4. \A h \in n .. l - 1 : BlockIn(d, h).timestamp = t
  BY DEF Grown
<1>5. \A h \in n .. l - 1 : BlockIn(d, h).transaction \in Transaction \cup TrimBurns
  BY <1>1 DEF Grown
<1>6. /\ c.last_timestamp \in Nat /\ c.last_timestamp <= t
      /\ \A h \in 0 .. n - 1 : /\ BlockIn(c, h).timestamp \in 0 .. c.last_timestamp
                              /\ BlockIn(c, h).transaction \in Transaction \cup TrimBurns
      /\ \A g, h \in 0 .. n - 1 : g <= h => BlockIn(c, g).timestamp <= BlockIn(c, h).timestamp
  BY <1>2, TimeFacts DEF ChainOK
<1>7. IsSequence(d.blocks) /\ d.last_timestamp = t
  BY DEF Grown
<1> HIDE DEF n, l
<1>8. \A h \in 0 .. l - 1 : h \in 0 .. n - 1 \/ h \in n .. l - 1
  BY <1>1
<1>9. \A h \in 0 .. l - 1 : /\ BlockIn(d, h).transaction \in Transaction \cup TrimBurns
                           /\ BlockIn(d, h).timestamp \in 0 .. t
  BY <1>1, <1>3, <1>4, <1>5, <1>6, <1>8
<1>10. ASSUME NEW g \in 0 .. l - 1, NEW h \in 0 .. l - 1, g <= h
       PROVE  BlockIn(d, g).timestamp <= BlockIn(d, h).timestamp
  <2>1. CASE h \in 0 .. n - 1
    BY <1>1, <1>3, <1>6, <1>10, <2>1
  <2>2. CASE h \in n .. l - 1
    BY <1>1, <1>4, <1>9, <2>2
  <2> QED BY <1>8, <2>1, <2>2
<1>11. ChainOK(d, t)
  BY <1>1, <1>2, <1>7, <1>9, <1>10 DEF ChainOK
<1> QED BY <1>1, <1>2, <1>11 DEF n

\* The transaction is not dated further ahead of time t than the drift.
NotAhead(tx, t) == Deduplicates(tx) => tx.created_at_time <= t + PermittedDrift

\* d has one request more than c, and the requests of c at their heights.
OneRequestMore(c, d, R, tx) ==
  LET n == Len(c.blocks)
  IN  /\ RequestsOK(d, R \cup {n})
      /\ Deduplicates(tx) => Requests(d, R \cup {n}) = Requests(c, R) \cup {n}
      /\ ~ Deduplicates(tx) => Requests(d, R \cup {n}) = Requests(c, R)
      /\ \A h \in Requests(c, R) : h \in HeightsOf(c) /\ BlockIn(d, h) = BlockIn(c, h)

\* The heights that count for deduplication when a request has been executed.
LEMMA GrownRequests ==
  ASSUME NEW c, NEW d, NEW tx \in Transaction, NEW t \in TimeStamp, ChainOK(c, t), Grown(c, d, tx, t),
         NEW R, RequestsOK(c, R), NotAhead(tx, t)
  PROVE  OneRequestMore(c, d, R, tx)
<1> DEFINE n == Len(c.blocks)
<1>1. /\ HeightsOf(c) \subseteq HeightsOf(d)
      /\ n \in HeightsOf(d) /\ n \notin HeightsOf(c) /\ n \in n .. Len(d.blocks) - 1
  BY GrownChain DEF HeightsOf
<1>2. BlockIn(d, n).transaction = tx /\ BlockIn(d, n).timestamp = t
  BY <1>1 DEF Grown
<1>3. \A h \in R : h \in HeightsOf(c) /\ BlockIn(d, h) = BlockIn(c, h)
  BY DEF RequestsOK, Grown
<1>4. /\ Deduplicates(tx) => Requests(d, R \cup {n}) = Requests(c, R) \cup {n}
      /\ ~ Deduplicates(tx) => Requests(d, R \cup {n}) = Requests(c, R)
  BY <1>2, <1>3 DEF Requests
<1> HIDE DEF n
<1>5. R \cup {n} \subseteq HeightsOf(d)
  BY <1>1, <1>3
<1>6. \A h \in R \cup {n} : BlockIn(d, h).transaction \in Transaction
  BY <1>2, <1>3 DEF RequestsOK
<1>7. \A h \in Requests(d, R \cup {n}) :
        BlockIn(d, h).transaction.created_at_time <= BlockIn(d, h).timestamp + PermittedDrift
  <2>1. \A h \in Requests(c, R) :
          BlockIn(d, h).transaction.created_at_time <= BlockIn(d, h).timestamp + PermittedDrift
    BY <1>3 DEF RequestsOK, Requests
  <2> QED BY <1>2, <1>4, <2>1 DEF NotAhead
<1>8. RequestsOK(d, R \cup {n})
  BY <1>5, <1>6, <1>7 DEF RequestsOK
<1> QED BY <1>3, <1>4, <1>8 DEF n, Requests, OneRequestMore
-----------------------------------------------------------------------------
(* The tables. *)

\* What is remembered of heights that the new chain has as well stays right...
LEMMA CarriedOver ==
  ASSUME NEW c, NEW d, NEW T, \A h \in T : BlockIn(d, h) = BlockIn(c, h),
         NEW map, NEW queue, Linked(c, T, map, queue),
         NEW t, Remembered(c, T, map, t), Once(c, T)
  PROVE  Linked(d, T, map, queue) /\ Remembered(d, T, map, t) /\ Once(d, T)
<1>1. Linked(d, T, map, queue)
  BY DEF Linked
<1>2. Remembered(d, T, map, t)
  BY DEF Remembered
<1>3. Once(d, T)
  BY DEF Once
<1> QED BY <1>1, <1>2, <1>3

\* The tables with one more transaction, as Remember leaves them.
MapWith(map, x0, n)  == [x \in DOMAIN map \cup {x0} |-> IF x = x0 THEN n ELSE map[x]]
QueueWith(queue, x0, t) == Append(queue, [block_timestamp |-> t, transaction_hash |-> x0])

\* ...and one more height, whose transaction is not remembered, is entered in step.
LEMMA OneMore ==
  ASSUME NEW c, NEW T \in SUBSET Nat, NEW n \in Nat, \A h \in T : h < n,
         NEW map, NEW queue, Linked(c, T, map, queue),
         NEW t \in TimeStamp, Remembered(c, T, map, t), Once(c, T),
         NEW tx \in Transaction, BlockIn(c, n).transaction = tx, BlockIn(c, n).timestamp = t,
         tx_hash(tx) \notin DOMAIN map, tx.created_at_time \in TimeStamp,
         ~ (tx.created_at_time + TransactionWindow < t)
  PROVE  /\ Linked(c, T \cup {n}, MapWith(map, tx_hash(tx), n), QueueWith(queue, tx_hash(tx), t))
         /\ Remembered(c, T \cup {n}, MapWith(map, tx_hash(tx), n), t)
         /\ Once(c, T \cup {n})
<1> DEFINE x0 == tx_hash(tx)
           e  == [block_timestamp |-> t, transaction_hash |-> x0]
           l  == Len(queue)
           map2   == MapWith(map, x0, n)
           queue2 == QueueWith(queue, x0, t)
<1>1. e \in Entry /\ e.block_timestamp = t /\ e.transaction_hash = x0
  BY HashFacts DEF Entry
<1>2. /\ queue \in Seq(Entry)
      /\ DOMAIN map = {queue[i].transaction_hash : i \in 1 .. l}
      /\ \A i, j \in 1 .. l : i < j => map[queue[i].transaction_hash] < map[queue[j].transaction_hash]
      /\ \A i \in 1 .. l :
           /\ map[queue[i].transaction_hash] \in T
           /\ tx_hash(BlockIn(c, map[queue[i].transaction_hash]).transaction) = queue[i].transaction_hash
           /\ BlockIn(c, map[queue[i].transaction_hash]).timestamp = queue[i].block_timestamp
  BY DEF Linked
<1>3. l \in Nat
  BY <1>2, LenProperties
<1> HIDE DEF e, l
<1>4. /\ queue2 \in Seq(Entry) /\ Len(queue2) = l + 1
      /\ \A i \in 1 .. l : queue2[i] = queue[i]
      /\ queue2[l + 1] = e
  BY <1>1, <1>2, AppendProperties DEF l, e, QueueWith
<1> HIDE DEF x0, queue2
<1>5. /\ DOMAIN map2 = DOMAIN map \cup {x0} /\ map2[x0] = n
      /\ map2 = [x \in DOMAIN map2 |-> map2[x]]
      /\ x0 \notin DOMAIN map
      /\ \A x \in DOMAIN map : map2[x] = map[x]
  BY DEF x0, MapWith
<1> HIDE DEF map2
<1>6. \A i \in 1 .. l : /\ queue2[i].transaction_hash = queue[i].transaction_hash
                       /\ queue[i].transaction_hash \in DOMAIN map
                       /\ map2[queue[i].transaction_hash] = map[queue[i].transaction_hash]
  BY <1>2, <1>4, <1>5
<1> DEFINE k     == Len(queue2)
           at(i) == map2[queue2[i].transaction_hash]
<1>7. /\ \A i \in 1 .. k : i \in 1 .. l \/ i = k
      /\ \A i \in 1 .. l : i \in 1 .. k
      /\ k \in 1 .. k
      /\ \A i \in 1 .. k : i < k => i \in 1 .. l
      /\ queue2[k] = e
  BY <1>3, <1>4
<1> HIDE DEF k
<1>8. /\ \A i \in 1 .. l : at(i) = map[queue[i].transaction_hash] /\ at(i) \in T
      /\ queue2[k].transaction_hash = x0 /\ queue2[k].block_timestamp = t
      /\ at(k) = n
  <2>1. queue2[k].transaction_hash = x0 /\ queue2[k].block_timestamp = t
    BY <1>1, <1>7
  <2>2. ASSUME NEW i \in 1 .. l
        PROVE  at(i) = map[queue[i].transaction_hash] /\ at(i) \in T
    BY <1>2, <1>6
  <2>3. at(k) = n
    BY <1>5, <2>1
  <2> QED BY <2>1, <2>2, <2>3
<1>9. DOMAIN map2 = {queue2[i].transaction_hash : i \in 1 .. k}
  <2> DEFINE entered == {queue2[i].transaction_hash : i \in 1 .. k}
  <2>1. \A i \in 1 .. k : queue2[i].transaction_hash \in entered
    OBVIOUS
  <2>2. x0 \in entered
    BY <1>7, <1>8, <2>1
  <2>3. \A x \in DOMAIN map : x \in entered
    <3>1. \A i \in 1 .. l : queue[i].transaction_hash \in entered
      BY <1>6, <1>7, <2>1
    <3> QED BY <1>2, <3>1
  <2>4. \A x \in entered : x \in DOMAIN map2
    <3>1. \A i \in 1 .. k : i \in 1 .. l \/ i = k
      BY <1>7
    <3>2. \A i \in 1 .. k : queue2[i].transaction_hash \in DOMAIN map2
      BY <1>5, <1>6, <1>8, <3>1
    <3> QED BY <3>2
  <2> HIDE DEF entered
  <2>5. DOMAIN map2 = entered
    BY <1>5, <2>2, <2>3, <2>4
  <2> QED BY <2>5 DEF entered
<1>10. ASSUME NEW i \in 1 .. k, NEW j \in 1 .. k, i < j PROVE at(i) < at(j)
  <2>1. i \in 1 .. l
    <3>1. i < k /\ k = l + 1
      BY <1>3, <1>4, <1>10 DEF k
    <3> QED BY <1>7, <3>1
  <2> HIDE DEF at
  <2>2. CASE j \in 1 .. l
    <3>1. map[queue[i].transaction_hash] < map[queue[j].transaction_hash]
      BY <1>2, <1>10, <2>1, <2>2
    <3> QED BY <1>8, <2>1, <2>2, <3>1
  <2>3. CASE j = k
    <3>1. at(i) \in T /\ at(j) = n
      BY <1>8, <2>1, <2>3
    <3> QED BY <3>1
  <2> QED BY <1>7, <2>2, <2>3
<1>11. ASSUME NEW i \in 1 .. k
       PROVE  /\ at(i) \in T \cup {n}
              /\ tx_hash(BlockIn(c, at(i)).transaction) = queue2[i].transaction_hash
              /\ BlockIn(c, at(i)).timestamp = queue2[i].block_timestamp
  <2> HIDE DEF at
  <2>1. CASE i \in 1 .. l
    BY <1>2, <1>4, <1>8, <2>1
  <2>2. CASE i = k
    BY <1>8, <2>2 DEF x0
  <2> QED BY <1>7, <2>1, <2>2
<1>12. Linked(c, T \cup {n}, map2, queue2)
  BY <1>4, <1>5, <1>9, <1>10, <1>11 DEF Linked, k
<1>13. Remembered(c, T \cup {n}, map2, t)
  <2> SUFFICES ASSUME NEW h \in T \cup {n}
               PROVE  \/ BlockIn(c, h).transaction.created_at_time + TransactionWindow < t
                      \/ /\ tx_hash(BlockIn(c, h).transaction) \in DOMAIN map2
                         /\ map2[tx_hash(BlockIn(c, h).transaction)] = h
    BY DEF Remembered
  <2>1. CASE h \in T
    BY <1>5, <2>1 DEF Remembered
  <2>2. CASE h = n
    BY <1>5, <2>2 DEF x0
  <2> QED BY <2>1, <2>2
<1>14. Once(c, T \cup {n})
  <2>1. ASSUME NEW h \in T PROVE tx_hash(BlockIn(c, h).transaction) # x0
    <3> SUFFICES ASSUME tx_hash(BlockIn(c, h).transaction) = x0 PROVE FALSE
      OBVIOUS
    <3>1. BlockIn(c, h).transaction = tx
      BY HashFacts DEF x0
    <3> QED BY <3>1 DEF Remembered
  <2> QED BY <2>1 DEF Once, x0
<1> QED BY <1>12, <1>13, <1>14 DEF map2, queue2, x0
-----------------------------------------------------------------------------
(* The invariant. *)

LEMMA InvInit == Init => Inv
<1> SUFFICES ASSUME Init PROVE Inv
  OBVIOUS
<1>1. blockchain.blocks = << >> /\ blockchain.last_timestamp = 0
  BY DEF Init, NewChain
<1>2. Len(<< >>) = 0 /\ << >> \in Seq(Entry) /\ IsSequence(<< >>)
  BY EmptySeq DEF IsSequence
<1>3. now \in StartTime .. MaxNow /\ now \in Nat /\ 0 \in TimeStamp
  BY TimeAssumption DEF Init, TimeStamp
<1>4. ChainOK(blockchain, now)
  BY <1>1, <1>2, <1>3 DEF ChainOK, HeightsOf
<1>5. Requests(blockchain, requested) = {}
  BY DEF Init, Requests
<1>6. DedupOK(blockchain, requested, transactions_by_hash, transactions_by_height, now)
  <2>1. RequestsOK(blockchain, requested)
    BY <1>5 DEF RequestsOK, Init
  <2>2. Linked(blockchain, {}, transactions_by_hash, transactions_by_height)
    BY <1>2 DEF Linked, Init
  <2> QED BY <1>5, <2>1, <2>2 DEF DedupOK, Remembered, Once
<1>7. GoodBook(balances)
  BY NewBookFacts DEF Init, GoodBook
<1>8. OnlyCallersTrap
  BY DEF Init, OnlyCallersTrap
<1> QED BY <1>3, <1>4, <1>6, <1>7, <1>8 DEF Inv

\* A call that is answered with an Err leaves what PurgeFacts says.
LEMMA InvRejected ==
  ASSUME Inv, NEW answer, Rejected(answer), answer.kind # "trap"
  PROVE  Inv'
<1>1. /\ balances' = balances /\ blockchain' = blockchain /\ now' = now /\ requested' = requested
      /\ transactions_by_hash' = KeptByHash /\ transactions_by_height' = KeptByHeight
      /\ reply' = answer
  BY DEF Rejected, purge_old_transactions
<1>2. DedupOK(blockchain, requested, KeptByHash, KeptByHeight, now)
  BY PurgeFacts DEF Inv, DedupOK
<1>3. OnlyCallersTrap'
  BY <1>1 DEF OnlyCallersTrap
<1> QED BY <1>1, <1>2, <1>3 DEF Inv

\* An accepted call has one request more, which is not in the tables.
LEMMA AcceptedRequest ==
  ASSUME Inv, NEW tx \in Transaction, Accepted(tx)
  PROVE  /\ GoodBook(balances')
         /\ Grown(blockchain, blockchain', tx, now)
         /\ requested' = requested \cup {Len(blockchain.blocks)}
         /\ OneRequestMore(blockchain, blockchain', requested, tx)
         /\ Deduplicates(tx) =>
              /\ tx.created_at_time \in TimeStamp
              /\ ~ (tx.created_at_time + TransactionWindow < now)
              /\ tx_hash(tx) \notin DOMAIN KeptByHash
<1>1. PICK st \in TrimmedStates(tx) : balances' = st.balances /\ blockchain' = st.blockchain
  BY DEF Accepted
<1>2. GoodBook(balances') /\ Grown(blockchain, blockchain', tx, now)
  BY <1>1, TrimmedStateFacts DEF Accepted
<1>3. requested' = requested \cup {Len(blockchain.blocks)}
  BY DEF Accepted, chain_length
<1>4. Deduplicates(tx) =>
        /\ tx.created_at_time \in TimeStamp
        /\ ~ (tx.created_at_time + TransactionWindow < now)
        /\ tx.created_at_time <= now + PermittedDrift
        /\ tx_hash(tx) \notin DOMAIN KeptByHash
  <2>1. now \in Nat
    BY TimeFacts DEF Inv
  <2>2. Deduplicates(tx) => tx.created_at_time \in TimeStamp /\ tx.created_at_time \in Nat
    BY TimeFacts
  <2> QED BY <2>1, <2>2, TimeFacts DEF Accepted, Pays, Vetted, TooOld, InFuture, IsDuplicate
<1>5. ChainOK(blockchain, now) /\ RequestsOK(blockchain, requested) /\ now \in TimeStamp
  BY TimeFacts DEF Inv, DedupOK
<1>6. OneRequestMore(blockchain, blockchain', requested, tx)
  <2>1. NotAhead(tx, now)
    BY <1>4 DEF NotAhead
  <2> QED BY <1>2, <1>5, <2>1, GrownRequests
<1> QED BY <1>2, <1>3, <1>4, <1>6

\* An accepted call: the request's block goes into the chain and into the tables.
LEMMA InvAccepted ==
  ASSUME Inv, NEW tx \in Transaction, Accepted(tx)
  PROVE  Inv'
<1> DEFINE n == Len(blockchain.blocks)
           T == Requests(blockchain, requested)
<1>1. GoodBook(balances') /\ Grown(blockchain, blockchain', tx, now)
  BY AcceptedRequest
<1>2. now' = now /\ requested' = requested \cup {n} /\ Remember(tx) /\ OnlyCallersTrap'
  BY AcceptedRequest DEF Accepted, BlockReply, OnlyCallersTrap
<1>3. Deduplicates(tx) =>
        /\ tx.created_at_time \in TimeStamp
        /\ ~ (tx.created_at_time + TransactionWindow < now)
        /\ tx_hash(tx) \notin DOMAIN KeptByHash
  BY AcceptedRequest
<1>4. ChainOK(blockchain, now) /\ Once(blockchain, T) /\ now \in TimeStamp
  BY TimeFacts DEF Inv, DedupOK
<1>5. Linked(blockchain, T, KeptByHash, KeptByHeight) /\ Remembered(blockchain, T, KeptByHash, now)
  BY PurgeFacts
<1>6. ChainOK(blockchain', now)
      /\ HeightsOf(blockchain) \subseteq HeightsOf(blockchain') /\ HeightsOf(blockchain') \subseteq Nat
      /\ n \in HeightsOf(blockchain')
  BY <1>1, <1>4, GrownChain
<1>7. /\ RequestsOK(blockchain', requested')
      /\ Deduplicates(tx) => Requests(blockchain', requested') = T \cup {n}
      /\ ~ Deduplicates(tx) => Requests(blockchain', requested') = T
      /\ \A h \in T : h \in HeightsOf(blockchain) /\ BlockIn(blockchain', h) = BlockIn(blockchain, h)
  BY AcceptedRequest DEF T, OneRequestMore
<1>8. /\ Linked(blockchain', T, KeptByHash, KeptByHeight)
      /\ Remembered(blockchain', T, KeptByHash, now)
      /\ Once(blockchain', T)
  BY <1>4, <1>5, <1>7, CarriedOver
<1>9. DedupOK(blockchain', requested', transactions_by_hash', transactions_by_height', now)
  <2>1. CASE ~ Deduplicates(tx)
    <3>1. transactions_by_hash' = KeptByHash /\ transactions_by_height' = KeptByHeight
      BY <1>2, <2>1 DEF Remember, purge_old_transactions
    <3>2. Requests(blockchain', requested') = T
      BY <1>7, <2>1
    <3> QED BY <1>7, <1>8, <3>1, <3>2 DEF DedupOK
  <2>2. CASE Deduplicates(tx)
    <3>1. /\ transactions_by_hash' = MapWith(KeptByHash, tx_hash(tx), n)
          /\ transactions_by_height' = QueueWith(KeptByHeight, tx_hash(tx), now)
      BY <1>2, <2>2 DEF Remember, chain_length, MapWith, QueueWith
    <3>2. n \in Nat /\ T \in SUBSET Nat /\ \A h \in T : h < n
      <4>1. n \in Nat
        BY <1>6
      <4> QED BY <4>1, <1>6, <1>7 DEF HeightsOf
    <3>3. BlockIn(blockchain', n).transaction = tx /\ BlockIn(blockchain', n).timestamp = now
      BY <1>1, <3>2, <1>6 DEF Grown, HeightsOf
    <3>4. /\ Linked(blockchain', T \cup {n}, transactions_by_hash', transactions_by_height')
          /\ Remembered(blockchain', T \cup {n}, transactions_by_hash', now)
          /\ Once(blockchain', T \cup {n})
      <4> HIDE DEF n, T
      <4>1. /\ Linked(blockchain', T \cup {n}, MapWith(KeptByHash, tx_hash(tx), n),
                      QueueWith(KeptByHeight, tx_hash(tx), now))
            /\ Remembered(blockchain', T \cup {n}, MapWith(KeptByHash, tx_hash(tx), n), now)
            /\ Once(blockchain', T \cup {n})
        BY <1>3, <1>4, <1>8, <2>2, <3>2, <3>3, OneMore
      <4> QED BY <3>1, <4>1
    <3>5. Requests(blockchain', requested') = T \cup {n}
      BY <1>7, <2>2
    <3> QED BY <1>7, <3>4, <3>5 DEF DedupOK
  <2> QED BY <2>1, <2>2
<1> QED BY <1>1, <1>2, <1>6, <1>9 DEF Inv

\* Time alone makes transactions older, and nothing else.
LEMMA InvTick == ASSUME Inv, Tick PROVE Inv'
<1> DEFINE T == Requests(blockchain, requested)
<1>1. /\ balances' = balances /\ blockchain' = blockchain /\ requested' = requested /\ reply' = reply
      /\ transactions_by_hash' = transactions_by_hash
      /\ transactions_by_height' = transactions_by_height
  BY DEF Tick, ledger, tables
<1>2. /\ now' \in StartTime .. MaxNow /\ now \in Nat /\ now' = now + 1
      /\ StartTime .. MaxNow \subseteq TimeStamp
  BY TimeAssumption, TimeFacts DEF Tick, Inv
<1>3. ChainOK(blockchain, now')
  <2>1. blockchain.last_timestamp <= now'
    <3>1. blockchain.last_timestamp \in Nat /\ blockchain.last_timestamp <= now
      BY TimeFacts DEF Inv, ChainOK
    <3> QED BY <1>2, <3>1
  <2> QED BY <2>1 DEF Inv, ChainOK
<1>4. Remembered(blockchain, T, transactions_by_hash, now')
  <2>1. \A h \in T : BlockIn(blockchain, h).transaction.created_at_time \in Nat
    BY TimeFacts DEF Inv, DedupOK, RequestsOK, Requests
  <2>2. Remembered(blockchain, T, transactions_by_hash, now)
    BY DEF Inv, DedupOK
  <2>3. \A h \in T : BlockIn(blockchain, h).transaction.created_at_time + TransactionWindow < now
                   => BlockIn(blockchain, h).transaction.created_at_time + TransactionWindow < now'
    BY <1>2, <2>1, TimeFacts
  <2> QED BY <2>2, <2>3 DEF Remembered
<1> QED BY <1>1, <1>2, <1>3, <1>4 DEF Inv, DedupOK, OnlyCallersTrap

LEMMA InvNext == Inv /\ [Next]_vars => Inv'
<1> SUFFICES ASSUME Inv, [Next]_vars PROVE Inv'
  OBVIOUS
<1>1. ASSUME NEW tx \in Transaction, apply_transaction(tx) PROVE Inv'
  <2>1. CASE TxThrottled(tx)
    BY <2>1, InvRejected DEF TxThrottled, Refusal
  <2>2. CASE TxTooOld(tx)
    BY <2>2, InvRejected DEF TxTooOld, Refusal
  <2>3. CASE TxCreatedInFuture(tx)
    BY <2>3, InvRejected DEF TxCreatedInFuture, Refusal
  <2>4. CASE TxDuplicate(tx)
    <3> DEFINE answer == BlockReply("TxDuplicate", KeptByHash[tx_hash(tx)], tx)
    <3>1. Rejected(answer)
      BY <2>4 DEF TxDuplicate
    <3>2. answer.kind # "trap"
      BY DEF BlockReply
    <3> HIDE DEF answer
    <3> QED BY <3>1, <3>2, InvRejected
  <2>5. CASE InsufficientFunds(tx)
    BY <2>5, InvRejected DEF InsufficientFunds, Refusal
  <2>6. CASE Accepted(tx)
    BY <2>6, InvAccepted
  <2>7. CASE Trapped(tx)
    <3>1. PICK cause \in {"timestamp overflow", "total token supply exceeded", "bug"} :
            /\ TrapCause(tx, cause)
            /\ reply' = [kind |-> "trap", cause |-> cause]
            /\ UNCHANGED <<ledger, now>>
      BY <2>7 DEF Trapped
    <3>2. cause # "bug"
      BY <3>1, PurgeFacts, NeverBreaks DEF TrapCause
    <3>3. OnlyCallersTrap'
      BY <3>1, <3>2 DEF OnlyCallersTrap
    <3> QED BY <3>1, <3>3 DEF Inv, ledger, tables
  <2> QED BY <1>1, <2>1, <2>2, <2>3, <2>4, <2>5, <2>6, <2>7 DEF apply_transaction
<1>2. CASE Tick
  BY <1>2, InvTick
<1>3. CASE UNCHANGED vars
  BY <1>3 DEF vars, ledger, tables, Inv, OnlyCallersTrap
<1> QED BY <1>1, <1>2, <1>3 DEF Next

LEMMA Invariance == Spec => []Inv
BY InvInit, InvNext, PTL DEF Spec

\* The heights, blocks and requests of the module Ledger are those of this module.
LEMMA SameNotions ==
  /\ Heights = HeightsOf(blockchain)
  /\ Tracked = Requests(blockchain, requested)
  /\ \A h : BlockAt(h) = BlockIn(blockchain, h) /\ TxAt(h) = BlockIn(blockchain, h).transaction
BY DEF Heights, HeightsOf, chain_length, Tracked, Requests, TxAt, BlockAt, BlockIn

\* A transaction whose caller gave the time of its creation is executed at most once,
\* whatever the window, the drift and the limits of the purge.
THEOREM AtMostOnce == Spec => []NoDoubleExecution
<1>1. Inv => NoDoubleExecution
  BY SameNotions DEF Inv, DedupOK, Once, NoDoubleExecution
<1> QED BY Invariance, <1>1, PTL

\* An executed transaction is remembered until it is too old to be accepted again.
THEOREM RememberedLongEnough == Spec => []RememberedWhileAcceptable
<1>1. Inv => RememberedWhileAcceptable
  <2> SUFFICES ASSUME Inv PROVE RememberedWhileAcceptable
    OBVIOUS
  <2>1. \A h \in Tracked : Deduplicates(TxAt(h))
    BY DEF Tracked
  <2>2. Remembered(blockchain, Tracked, transactions_by_hash, now)
    BY SameNotions DEF Inv, DedupOK
  <2> QED BY <2>1, <2>2, SameNotions DEF Remembered, RememberedWhileAcceptable, TooOld
<1> QED BY Invariance, <1>1, PTL

\* The map and the queue agree, so that the purge's unreachable!() is unreachable.
THEOREM TablesInStep == Spec => []TablesAgree
<1>1. Inv => TablesAgree
  <2> SUFFICES ASSUME Inv PROVE TablesAgree
    OBVIOUS
  <2>1. Linked(blockchain, Tracked, transactions_by_hash, transactions_by_height)
    BY SameNotions DEF Inv, DedupOK
  <2> QED BY <2>1, SameNotions DEF Linked, TablesAgree
<1> QED BY Invariance, <1>1, PTL

\* The panics that the code holds to be impossible are impossible.
THEOREM BugsUnreachable == Spec => []OnlyCallersTrap
<1>1. Inv => OnlyCallersTrap
  BY DEF Inv
<1> QED BY Invariance, <1>1, PTL

\* Trimming included, no token is created or lost.
THEOREM LedgerConserves == Spec => []Conservation
<1>1. Inv => Conservation
  BY DEF Inv, GoodBook, Conservation
<1> QED BY Invariance, <1>1, PTL

\* Every part of the state has its type.
THEOREM TypeCorrect == Spec => []TypeOK
<1>1. Inv => TypeOK
  <2> SUFFICES ASSUME Inv PROVE TypeOK
    OBVIOUS
  <2>1. balances \in Book /\ now \in StartTime .. MaxNow
    BY DEF Inv, GoodBook
  <2>2. /\ blockchain.blocks \in Seq(Range(blockchain.blocks))
        /\ blockchain.last_timestamp \in TimeStamp
        /\ \A h \in Heights : TxAt(h) \in Transaction \cup TrimBurns
    BY SameNotions DEF Inv, ChainOK, IsSequence
  <2>3. \A h \in Heights : BlockAt(h).timestamp \in TimeStamp
    <3>1. 0 .. blockchain.last_timestamp \subseteq TimeStamp
      BY <2>2, TimeAssumption DEF TimeStamp
    <3> QED BY <3>1, SameNotions DEF Inv, ChainOK
  <2>4. /\ requested \subseteq Heights
        /\ Linked(blockchain, Tracked, transactions_by_hash, transactions_by_height)
    BY SameNotions DEF Inv, DedupOK, RequestsOK
  <2>5. transactions_by_height \in Seq([block_timestamp : TimeStamp, transaction_hash : Hash])
    BY <2>4 DEF Linked, Entry
  <2>6. \A i \in 1 .. Len(transactions_by_height) : transactions_by_height[i].transaction_hash \in Hash
    <3>1. \A i \in 1 .. Len(transactions_by_height) :
            transactions_by_height[i] \in [block_timestamp : TimeStamp, transaction_hash : Hash]
      BY <2>5, ElementOfSeq
    <3> QED BY <3>1
  <2>7. DOMAIN transactions_by_hash \subseteq Hash
    BY <2>4, <2>6 DEF Linked
  <2>8. \A x \in DOMAIN transactions_by_hash : transactions_by_hash[x] \in Nat
    BY <2>4 DEF Linked, Tracked, Heights
  <2>9. transactions_by_hash \in [DOMAIN transactions_by_hash -> Nat]
    BY <2>4, <2>8 DEF Linked
  <2> QED BY <2>1, <2>2, <2>3, <2>4, <2>5, <2>7, <2>9 DEF TypeOK
<1> QED BY Invariance, <1>1, PTL
-----------------------------------------------------------------------------
(* The tables shrink while they are stale. *)

\* The queue is in the order of time, so that whatever is due for removal, the first
\* entry is, and the purge removes something.
LEMMA PurgeTakesOne ==
  ASSUME Inv, NEW k \in DOMAIN transactions_by_height, Expired(transactions_by_height[k], now)
  PROVE  num_tx_purged >= 1
<1> DEFINE queue == transactions_by_height
           map   == transactions_by_hash
           T     == Requests(blockchain, requested)
           height(i) == map[queue[i].transaction_hash]
<1>1. Linked(blockchain, T, map, queue) /\ RequestsOK(blockchain, requested)
      /\ ChainOK(blockchain, now) /\ now \in Nat
  BY TimeFacts DEF Inv, DedupOK
<1>2. /\ Len(queue) \in Nat /\ DOMAIN queue = 1 .. Len(queue)
      /\ \A i \in 1 .. Len(queue) : queue[i] \in Entry
  BY <1>1, LenProperties, ElementOfSeq DEF Linked
<1>3. k \in 1 .. Len(queue) /\ 1 \in 1 .. Len(queue)
  BY <1>2
<1>4. /\ queue[1].block_timestamp = BlockIn(blockchain, height(1)).timestamp
      /\ queue[k].block_timestamp = BlockIn(blockchain, height(k)).timestamp
      /\ height(1) \in HeightsOf(blockchain) /\ height(k) \in HeightsOf(blockchain)
  BY <1>1, <1>3 DEF Linked, RequestsOK, Requests
<1>5. height(1) <= height(k)
  <2>1. CASE k = 1
    BY <1>4, <2>1 DEF HeightsOf
  <2>2. CASE 1 < k
    <3>1. height(1) < height(k)
      BY <1>1, <1>3, <2>2 DEF Linked
    <3> QED BY <1>4, <3>1 DEF HeightsOf
  <2> QED BY <1>3, <2>1, <2>2
<1>6. queue[1].block_timestamp <= queue[k].block_timestamp
  BY <1>1, <1>4, <1>5 DEF ChainOK
<1>7. Expired(queue[1], now)
  <2>1. queue[1].block_timestamp \in Nat /\ queue[k].block_timestamp \in Nat
    BY <1>2, <1>3, TimeFacts DEF Entry
  <2> QED BY <1>1, <1>6, <2>1, TimeFacts DEF Expired
<1> DEFINE S == {m \in 0 .. Len(queue) :
                   m <= MaxTransactionsToPurge /\ \A i \in 1 .. m : Expired(queue[i], now)}
<1>8. S \in SUBSET (0 .. Len(queue)) /\ 1 \in S
  <2>1. 1 \in 0 .. Len(queue) /\ 1 <= MaxTransactionsToPurge /\ \A i \in 1 .. 1 : i = 1
    BY <1>2, <1>3, TimeFacts
  <2> QED BY <1>7, <2>1
<1>9. num_tx_purged = Max(S)
  BY DEF num_tx_purged
<1> HIDE DEF S
<1> QED BY <1>2, <1>8, <1>9, MaxFacts

\* While something in the tables is due for removal, no call makes them grow.
THEOREM StaleTablesShrink == Spec => NoGrowthWhileStale
<1> DEFINE Stale == \E i \in DOMAIN transactions_by_height : Expired(transactions_by_height[i], now)
<1>1. ASSUME Inv, [Next]_vars, Stale PROVE Len(transactions_by_height') <= Len(transactions_by_height)
  <2> DEFINE l == Len(transactions_by_height)
  <2>1. l \in Nat /\ KeptByHeight \in Seq(Entry)
    BY <1>1, PurgeFacts, LenProperties DEF Inv, DedupOK, Linked
  <2>2. num_tx_purged \in 1 .. l
    BY <1>1, <2>1, PurgeFacts, PurgeTakesOne
  <2>3. Len(KeptByHeight) = l - num_tx_purged
    BY <1>1, PurgeFacts
  <2> HIDE DEF l
  <2>4. ASSUME NEW tx \in Transaction, Accepted(tx) PROVE Len(transactions_by_height') <= l
    <3>1. CASE Deduplicates(tx)
      <4>1. transactions_by_height' = QueueWith(KeptByHeight, tx_hash(tx), now)
        BY <2>4, <3>1 DEF Accepted, Remember, QueueWith
      <4>2. [block_timestamp |-> now, transaction_hash |-> tx_hash(tx)] \in Entry
        BY <1>1, TimeFacts, HashFacts DEF Entry, Inv
      <4>3. Len(transactions_by_height') = Len(KeptByHeight) + 1
        BY <2>1, <4>1, <4>2, AppendProperties DEF QueueWith
      <4> QED BY <2>1, <2>2, <2>3, <4>3
    <3>2. CASE ~ Deduplicates(tx)
      BY <2>1, <2>2, <2>3, <2>4, <3>2 DEF Accepted, Remember, purge_old_transactions
    <3> QED BY <3>1, <3>2
  <2>5. ASSUME NEW answer, Rejected(answer) PROVE Len(transactions_by_height') <= l
    BY <2>1, <2>2, <2>3, <2>5 DEF Rejected, purge_old_transactions
  <2>6. ASSUME transactions_by_height' = transactions_by_height
        PROVE  Len(transactions_by_height') <= l
    BY <2>1, <2>6 DEF l
  <2>7. ASSUME NEW tx \in Transaction, apply_transaction(tx) PROVE Len(transactions_by_height') <= l
    BY <2>4, <2>5, <2>6, <2>7
       DEF apply_transaction, TxThrottled, TxTooOld, TxCreatedInFuture, TxDuplicate,
           InsufficientFunds, Trapped, ledger, tables
  <2>8. Tick \/ UNCHANGED vars => transactions_by_height' = transactions_by_height
    BY DEF Tick, vars, ledger, tables
  <2> QED BY <1>1, <2>6, <2>7, <2>8 DEF Next, l
<1>2. Inv /\ [Next]_vars =>
        [Stale => Len(transactions_by_height') <= Len(transactions_by_height)]_vars
  BY <1>1
<1> HIDE DEF Stale
<1> QED BY <1>2, Invariance, PTL DEF Spec, NoGrowthWhileStale, Stale
-----------------------------------------------------------------------------
(* The chain as an account of the book. *)

\* What an accepted call leads to, with the victims of the trimming.
LEMMA AcceptedTrims ==
  ASSUME Inv, NEW tx \in Transaction, Accepted(tx)
  PROVE  /\ GoodBook(PaidBook(tx))
         /\ Len(PaidChain(tx).blocks) = Len(blockchain.blocks) + 1
         /\ \E victims \in ToTrim(PaidBook(tx).store), st \in TrimmedStates(tx) :
              /\ balances' = st.balances /\ blockchain' = st.blockchain
              /\ TrimmedSoFar(st, Len(victims), PaidBook(tx), PaidChain(tx), victims, now)
<1> DEFINE book  == PaidBook(tx)
           chain == PaidChain(tx)
<1>1. GoodBook(book)
  BY AppliedGood, HashFacts DEF Inv, Accepted, Pays, PaidBook
<1>2. IsSequence(chain.blocks) /\ chain.last_timestamp = now
      /\ Len(chain.blocks) = Len(blockchain.blocks) + 1
  BY AddBlockFacts DEF PaidChain, Inv, ChainOK
<1>3. PICK st \in TrimmedStates(tx) : balances' = st.balances /\ blockchain' = st.blockchain
  BY DEF Accepted
<1>4. PICK victims \in ToTrim(book.store) : st = Trimmed(book, chain, victims, now)
  BY <1>3 DEF TrimmedStates
<1>5. now \in TimeStamp
  BY TimeFacts DEF Inv
<1> HIDE DEF book, chain
<1>6. TrimmedSoFar(st, Len(victims), book, chain, victims, now)
  BY <1>1, <1>2, <1>4, <1>5, TrimmedFacts
<1> QED BY <1>1, <1>2, <1>3, <1>4, <1>6 DEF book, chain

\* A step that is no acceptance changes neither the book nor the chain.
LEMMA OthersKeepBook ==
  ASSUME [Next]_vars, \A tx \in Transaction : ~ Accepted(tx)
  PROVE  balances' = balances /\ blockchain' = blockchain /\ requested' = requested
<1>1. ASSUME NEW tx \in Transaction, apply_transaction(tx)
      PROVE  balances' = balances /\ blockchain' = blockchain /\ requested' = requested
  BY <1>1 DEF apply_transaction, TxThrottled, TxTooOld, TxCreatedInFuture, TxDuplicate,
              InsufficientFunds, Trapped, Rejected, ledger
<1>2. Tick \/ UNCHANGED vars =>
        balances' = balances /\ blockchain' = blockchain /\ requested' = requested
  BY DEF Tick, vars, ledger
<1> QED BY <1>1, <1>2 DEF Next

\* The second invariant: the hashes of the chain are right, and replaying it gives the book.
ChainInv == HashesOK(blockchain) /\ Replays(blockchain, balances)

LEMMA ChainInvInit == Init => ChainInv
<1> SUFFICES ASSUME Init PROVE ChainInv
  OBVIOUS
<1>1. blockchain.blocks = << >> /\ blockchain.last_hash = None /\ balances = NewBook
  BY DEF Init, NewChain
<1>2. Len(<< >>) = 0
  OBVIOUS
<1>3. HashesOK(blockchain)
  BY <1>1, <1>2 DEF HashesOK
<1> DEFINE f == [n \in 0 .. 0 |-> NewBook]
<1>4. \A n \in 0 .. 0 : n = 0
  OBVIOUS
<1>5. ReplayRun(blockchain, f) /\ f[0] = NewBook
  BY <1>1, <1>2, <1>4 DEF ReplayRun
<1> HIDE DEF f
<1>6. Replays(blockchain, balances)
  BY <1>1, <1>2, <1>5 DEF Replays
<1> QED BY <1>3, <1>6 DEF ChainInv

LEMMA ChainInvNext == Inv /\ ChainInv /\ [Next]_vars => ChainInv'
<1> SUFFICES ASSUME Inv, ChainInv, [Next]_vars PROVE ChainInv'
  OBVIOUS
<1>1. ASSUME NEW tx \in Transaction, Accepted(tx) PROVE ChainInv'
  <2>1. IsSequence(blockchain.blocks)
    BY DEF Inv, ChainOK
  <2>2. HashesOK(PaidChain(tx)) /\ Replays(PaidChain(tx), PaidBook(tx))
    BY <2>1, ExtendedHashes, ExtendedReplays DEF ChainInv, PaidChain, PaidBook
  <2>3. PICK victims \in ToTrim(PaidBook(tx).store), st \in TrimmedStates(tx) :
           /\ balances' = st.balances /\ blockchain' = st.blockchain
           /\ TrimmedSoFar(st, Len(victims), PaidBook(tx), PaidChain(tx), victims, now)
    BY <1>1, AcceptedTrims
  <2>4. HashesOK(st.blockchain) /\ Replays(st.blockchain, st.balances)
    BY <2>2, <2>3 DEF TrimmedSoFar
  <2> QED BY <2>3, <2>4 DEF ChainInv
<1>2. CASE \A tx \in Transaction : ~ Accepted(tx)
  BY <1>2, OthersKeepBook DEF ChainInv
<1> QED BY <1>1, <1>2

LEMMA ChainInvariance == Spec => [](Inv /\ ChainInv)
BY InvInit, InvNext, ChainInvInit, ChainInvNext, PTL DEF Spec

\* Every block names its predecessor, the blocks are in the order of time, and the tip
\* that the next block will be checked against is the last block, after any trimming.
THEOREM HashesLink == Spec => []ChainLinked
<1>1. Inv /\ ChainInv => ChainLinked
  <2> SUFFICES ASSUME Inv, ChainInv PROVE ChainLinked
    OBVIOUS
  <2> DEFINE n == Len(blockchain.blocks)
  <2>1. n \in Nat /\ Heights = 0 .. n - 1
    BY AppendFacts DEF Inv, ChainOK, Heights, chain_length
  <2>2. \A g, h \in Heights : g <= h => BlockAt(g).timestamp <= BlockAt(h).timestamp
    BY SameNotions DEF Inv, ChainOK
  <2>3. /\ \A i \in 1 .. n : decode(blockchain.blocks[i]).parent_hash
                              = IF i = 1 THEN None ELSE block_hash(blockchain.blocks[i - 1])
        /\ n # 0 => blockchain.last_hash = block_hash(blockchain.blocks[n])
        /\ n > 0 => blockchain.last_timestamp = decode(blockchain.blocks[n]).timestamp
    BY DEF ChainInv, HashesOK
  <2> HIDE DEF n
  <2>4. ASSUME NEW h \in Heights
        PROVE  BlockAt(h).parent_hash = IF h = 0 THEN None ELSE block_hash(blockchain.blocks[h])
    <3>1. h + 1 \in 1 .. n /\ (h + 1) - 1 = h /\ (h + 1 = 1 <=> h = 0)
      BY <2>1
    <3> QED BY <2>3, <3>1 DEF BlockAt
  <2>5. ASSUME NEW h \in Heights \ {0}
        PROVE  BlockAt(h - 1).timestamp <= BlockAt(h).timestamp
    <3>1. h - 1 \in Heights /\ h - 1 <= h
      BY <2>1
    <3> QED BY <2>2, <3>1
  <2>6. n > 0 => /\ blockchain.last_hash = block_hash(blockchain.blocks[n])
                 /\ blockchain.last_timestamp = BlockAt(n - 1).timestamp
    <3>1. n > 0 => n # 0 /\ (n - 1) + 1 = n
      BY <2>1
    <3> QED BY <2>3, <3>1 DEF BlockAt
  <2> QED BY <2>4, <2>5, <2>6 DEF ChainLinked, chain_length, n
<1> QED BY ChainInvariance, <1>1, PTL

\* Replaying the chain on a new book gives the book: no payment, fee or trimming happens
\* that is not in the chain, and none is in the chain that did not happen.
THEOREM ChainTellsAll == Spec => []BalancesMatchChain
<1>1. Inv /\ ChainInv => BalancesMatchChain
  <2> SUFFICES ASSUME Inv, ChainInv PROVE BalancesMatchChain
    OBVIOUS
  <2> DEFINE n    == Len(blockchain.blocks)
             R(f) == f = [i \in 0 .. n |-> IF i = 0 THEN NewBook
                                           ELSE Applied(f[i - 1], TxAt(i - 1).operation)]
  <2>1. n \in Nat
    BY AppendFacts DEF Inv, ChainOK
  <2>2. Replayed = (CHOOSE f : R(f))[n]
    BY DEF Replayed, chain_length
  <2>3. PICK f : ReplayRun(blockchain, f) /\ f[n] = balances
    BY DEF ChainInv, Replays
  <2> HIDE DEF n
  <2>4. \A i \in 0 .. n : i # 0 => TxAt(i - 1) = decode(blockchain.blocks[i]).transaction
    BY <2>1 DEF TxAt, BlockAt
  <2>5. ASSUME NEW g
        PROVE  R(g) <=> ReplayRun(blockchain, g)
    <3>1. [i \in 0 .. n |-> IF i = 0 THEN NewBook ELSE Applied(g[i - 1], TxAt(i - 1).operation)]
            = [i \in 0 .. n |-> IF i = 0 THEN NewBook
                 ELSE Applied(g[i - 1], decode(blockchain.blocks[i]).transaction.operation)]
      BY <2>4
    <3> QED BY <3>1 DEF ReplayRun, n
  <2> HIDE DEF R
  <2>6. R(f) /\ R(CHOOSE g : R(g))
    BY <2>3, <2>5
  <2>7. (CHOOSE g : R(g)) = f
    BY <2>1, <2>3, <2>5, <2>6, ReplayUnique DEF n
  <2> QED BY <2>2, <2>3, <2>7 DEF BalancesMatchChain
<1> QED BY ChainInvariance, <1>1, PTL
-----------------------------------------------------------------------------
(* The size of the map. *)

\* The trimming after a payment brings the map back to its maximum, if it is due.
LEMMA AcceptedSize ==
  ASSUME Inv, StoreBounded, NEW tx \in Transaction, Accepted(tx)
  PROVE  /\ StoreBounded'
         /\ MustTrim(PaidBook(tx).store) =>
              Cardinality(DOMAIN balances'.store) = MaxNumberOfAccounts
<1> DEFINE book == PaidBook(tx)
           q    == AccountsOverflowTrimQuantity
           M    == MaxNumberOfAccounts
           c    == Cardinality(DOMAIN book.store)
           old  == Cardinality(DOMAIN balances.store)
<1>1. GoodBook(book) /\ GoodBook(balances) /\ q \in Nat /\ q # 0 /\ M \in Nat
  BY AcceptedTrims, TrimQuantityAssumption, LimitsAssumption DEF Inv
<1>2. c \in Nat /\ old \in Nat /\ old < M + q
  BY <1>1, GoodBookFinite DEF StoreBounded
<1>3. PICK victims \in ToTrim(book.store), st \in TrimmedStates(tx) :
         /\ balances' = st.balances
         /\ TrimmedSoFar(st, Len(victims), book, PaidChain(tx), victims, now)
  BY AcceptedTrims
<1>4. Cardinality(DOMAIN balances'.store) + Len(victims) = c
      /\ Cardinality(DOMAIN balances'.store) \in Nat
  BY <1>3, GoodBookFinite DEF TrimmedSoFar, TrimmedBook
<1>5. c <= old + 1
  <2>1. PICK k : DOMAIN book.store \subseteq DOMAIN balances.store \cup {k}
    BY AppliedSize, HashFacts DEF PaidBook, Accepted, Pays, Inv, GoodBook
  <2>2. IsFiniteSet(DOMAIN balances.store)
    BY <1>1, GoodBookFinite
  <2>3. /\ IsFiniteSet(DOMAIN balances.store \cup {k})
        /\ Cardinality(DOMAIN balances.store \cup {k}) \in Nat
        /\ Cardinality(DOMAIN balances.store \cup {k}) <= old + 1
    <3> DEFINE D == DOMAIN balances.store
    <3>1. /\ IsFiniteSet(D \cup {k})
          /\ Cardinality(D \cup {k}) = IF k \in D THEN old ELSE old + 1
      BY <2>2, FS_AddElement
    <3> HIDE DEF D, old
    <3> QED BY <1>2, <3>1 DEF D
  <2>4. c <= Cardinality(DOMAIN balances.store \cup {k})
    BY <2>1, <2>3, FS_Subset
  <2> QED BY <1>2, <2>3, <2>4
<1>6. MustTrim(book.store) <=> c >= M + q
  BY DEF MustTrim
<1>7. /\ MustTrim(book.store) => Len(victims) = q
      /\ ~ MustTrim(book.store) => Len(victims) = 0
  BY <1>1, <1>3, ToTrimCount
<1> DEFINE new == Cardinality(DOMAIN balances'.store)
<1> HIDE DEF c, old, q, M, book, new
<1>8. /\ new < M + q
      /\ MustTrim(book.store) => new = M
  BY <1>1, <1>2, <1>4, <1>5, <1>6, <1>7 DEF new
<1> QED BY <1>8 DEF StoreBounded, new, M, q, book

LEMMA StoreBoundedInit == Init => StoreBounded
<1> SUFFICES ASSUME Init PROVE StoreBounded
  OBVIOUS
<1>1. DOMAIN balances.store = {}
  BY DEF Init, NewBook
<1>2. Cardinality(DOMAIN balances.store) = 0
  BY <1>1, FS_EmptySet
<1> QED BY <1>2, TrimQuantityAssumption, LimitsAssumption DEF StoreBounded

LEMMA StoreBoundedNext == Inv /\ StoreBounded /\ [Next]_vars => StoreBounded'
<1> SUFFICES ASSUME Inv, StoreBounded, [Next]_vars PROVE StoreBounded'
  OBVIOUS
<1>1. CASE \A tx \in Transaction : ~ Accepted(tx)
  BY <1>1, OthersKeepBook DEF StoreBounded
<1> QED BY <1>1, AcceptedSize

\* However many accounts are paid, between messages the map has fewer entries than the
\* number at which trimming starts: every payment that reaches it is trimmed after.
THEOREM MapBounded == Spec => []StoreBounded
BY StoreBoundedInit, StoreBoundedNext, Invariance, PTL DEF Spec

\* What a trimming takes, it takes from the poorest, takes all they have, and stops when
\* the map is back to its maximum.
THEOREM PoorestAreTrimmed == Spec => TrimsThePoorest
<1> DEFINE Good(h) ==
             LET o == TxAt(h)'.operation
             IN  /\ o.from \notin DOMAIN balances'.store
                 /\ \A a \in DOMAIN balances'.store : o.amount <= balances'.store[a]
                 /\ Cardinality(DOMAIN balances'.store) = MaxNumberOfAccounts
<1>1. ASSUME Inv, StoreBounded, [Next]_vars, NEW h \in NewTrims PROVE Good(h)
  <2> DEFINE n == Len(blockchain.blocks)
             l == Len(blockchain'.blocks)
  <2>1. h \in 0 .. l - 1 /\ h \notin 0 .. n - 1 /\ h \notin requested'
    BY <1>1 DEF NewTrims, Heights, chain_length
  <2>2. PICK tx \in Transaction : Accepted(tx)
    <3>1. CASE \A tx \in Transaction : ~ Accepted(tx)
      BY <1>1, <2>1, <3>1, OthersKeepBook
    <3> QED BY <3>1
  <2> DEFINE book == PaidBook(tx)
             Victim(victims, a) == \E j \in 1 .. Len(victims) : a = victims[j]
  <2>3. PICK victims \in ToTrim(book.store), st \in TrimmedStates(tx) :
           /\ balances' = st.balances /\ blockchain' = st.blockchain
           /\ TrimmedSoFar(st, Len(victims), book, PaidChain(tx), victims, now)
    BY <1>1, <2>2, AcceptedTrims
  <2>4. GoodBook(book) /\ Len(PaidChain(tx).blocks) = n + 1
    BY <1>1, <2>2, AcceptedTrims
  <2>5. n \in Nat /\ l \in Nat
    BY <1>1, <2>3, AppendFacts DEF Inv, ChainOK, TrimmedSoFar, TrimmedChain
  <2>6. requested' = requested \cup {n}
    BY <2>2 DEF Accepted, chain_length
  <2>7. h + 1 \in (n + 1) + 1 .. l
    BY <2>1, <2>5, <2>6
  <2>8. PICK j \in 1 .. Len(victims) : decode(blockchain'.blocks[h + 1]).transaction
                                       = TrimBurn(victims[j], book.store[victims[j]], now)
    BY <2>3, <2>4, <2>7 DEF TrimmedSoFar, TrimmedChain
  <2> HIDE DEF book
  <2>9. TxAt(h)' = TrimBurn(victims[j], book.store[victims[j]], now)
    BY <2>8 DEF TxAt, BlockAt
  <2>10. /\ TxAt(h)'.operation.from = victims[j]
         /\ TxAt(h)'.operation.amount = book.store[victims[j]]
    BY <2>9 DEF TrimBurn, BurnOp
  <2>11. /\ DOMAIN balances'.store = DOMAIN book.store \ {victims[i] : i \in 1 .. Len(victims)}
         /\ \A a \in DOMAIN balances'.store : balances'.store[a] = book.store[a]
    BY <2>3 DEF TrimmedSoFar, TrimmedBook
  <2>12. MustTrim(book.store)
    BY <2>3, <2>4, ToTrimCount
  <2>13. \A a \in DOMAIN balances'.store : book.store[victims[j]] <= balances'.store[a]
    BY <2>3, <2>4, <2>11, <2>12, ToTrimCount
  <2>14. victims[j] \notin DOMAIN balances'.store
    BY <2>11
  <2>15. Cardinality(DOMAIN balances'.store) = MaxNumberOfAccounts
    BY <1>1, <2>2, <2>12, AcceptedSize DEF book
  <2> QED BY <2>10, <2>13, <2>14, <2>15
<1>2. Inv /\ StoreBounded /\ [Next]_vars => [\A h \in NewTrims : Good(h)]_vars
  <2> HIDE DEF Good
  <2> QED BY <1>1
<1>3. Spec => [](Inv /\ StoreBounded)
  BY StoreBoundedInit, StoreBoundedNext, Invariance, PTL DEF Spec
<1> HIDE DEF Good
<1> QED BY <1>2, <1>3, PTL DEF Spec, TrimsThePoorest, Good
-----------------------------------------------------------------------------
(* The throttle. *)

\* Beyond the half that is let through freely, every entry is a second younger than
\* the one max_rate places before it.
Paced(queue) ==
  \A k \in 1 .. Len(queue) :
    k > MaxTransactionsInWindow \div 2 /\ k > max_rate =>
      queue[k - max_rate].block_timestamp + Second <= queue[k].block_timestamp

\* The third invariant: as long as nothing was purged, the throttle has seen every
\* tracked transaction.
ThrottleInv ==
  Len(transactions_by_height) = Cardinality(Requests(blockchain, requested))
    => Paced(transactions_by_height)

\* Half of the number of transactions and the rate are natural numbers, and the rate
\* lets something through.
LEMMA RateFacts ==
  MaxTransactionsInWindow \div 2 \in Nat /\ max_rate \in Nat \ {0} /\ Second \in Nat \ {0}
<1> DEFINE M == MaxTransactionsInWindow
           W == 2 * TransactionWindow
           x == M * Second
<1>1. M \in Nat \ {0} /\ Second \in Nat \ {0} /\ TransactionWindow \in Nat \ {0}
  BY LimitsAssumption, TimeAssumption
<1>2. x \in Nat /\ x >= 1
  <2>1. \A a, b \in Nat \ {0} : a * b \in Nat /\ a * b >= 1
    OBVIOUS
  <2> QED BY <1>1, <2>1
<1>3. W \in Nat \ {0}
  BY <1>1
<1>4. \A y \in Nat, w \in Nat \ {0} : y >= 1 => (y + w - 1) \div w \in Nat \ {0}
  <2>1. ASSUME NEW y \in Nat, NEW w \in Nat \ {0}, y >= 1 PROVE (y + w - 1) \div w \in Nat \ {0}
    <3>1. /\ (y + w - 1) \div w \in Int
          /\ y + w - 1 = w * ((y + w - 1) \div w) + ((y + w - 1) % w)
          /\ (y + w - 1) % w \in 0 .. w - 1
      BY <2>1
    <3> DEFINE d == (y + w - 1) \div w
    <3> HIDE DEF d
    <3>2. w * d >= 1
      BY <2>1, <3>1 DEF d
    <3>3. d >= 1
      BY <2>1, <3>1, <3>2 DEF d
    <3> QED BY <3>1, <3>3 DEF d
  <2> QED BY <2>1
<1>5. M \div 2 \in Nat
  BY <1>1
<1> HIDE DEF M, W, x
<1>6. max_rate = (x + W - 1) \div W
  BY DEF max_rate, M, W, x
<1> QED BY <1>1, <1>2, <1>3, <1>4, <1>5, <1>6 DEF M

\* A number is less than the quotient and one more of the divisor.
LEMMA QuotientFacts ==
  ASSUME NEW x \in Nat, NEW s \in Nat \ {0}
  PROVE  x \div s \in Nat /\ x < s * (x \div s + 1)
<1>1. /\ x \div s \in Int
      /\ x = s * (x \div s) + (x % s)
      /\ x % s \in 0 .. s - 1
  OBVIOUS
<1> DEFINE d == x \div s
<1> HIDE DEF d
<1>2. s * (d + 1) = s * d + s
  BY <1>1 DEF d
<1>3. x < s * (d + 1)
  BY <1>1, <1>2 DEF d
<1>4. d + 1 > 0
  <2> SUFFICES ASSUME d + 1 <= 0 PROVE FALSE
    BY <1>1 DEF d
  <2>1. s * (d + 1) <= 0
    BY <1>1 DEF d
  <2> QED BY <1>3, <2>1, <1>1 DEF d
<1> QED BY <1>1, <1>3, <1>4 DEF d

\* The entries are in the order of time.
InTime(queue) ==
  \A i, k \in 1 .. Len(queue) : i <= k => queue[i].block_timestamp <= queue[k].block_timestamp

\* Entries that are j times max_rate places apart are j seconds apart.
LEMMA PaceAddsUp ==
  ASSUME NEW queue \in Seq(Entry), InTime(queue), Paced(queue), NEW l \in Nat
  PROVE  \A i, k \in 1 .. Len(queue) :
           i > MaxTransactionsInWindow \div 2 /\ i + max_rate * l <= k =>
             queue[i].block_timestamp + Second * l <= queue[k].block_timestamp
<1> DEFINE half == MaxTransactionsInWindow \div 2
           r    == max_rate
           s    == Second
           n    == Len(queue)
           at(i) == queue[i].block_timestamp
           Apart(m) == \A i, k \in 1 .. n : i > half /\ i + r * m <= k => at(i) + s * m <= at(k)
           Good == {m \in 0 .. l : Apart(m)}
<1>1. half \in Nat /\ r \in Nat /\ s \in Nat /\ r # 0
  BY RateFacts
<1>2. n \in Nat /\ \A i \in 1 .. n : at(i) \in Nat
  <2>1. n \in Nat /\ \A i \in 1 .. n : queue[i] \in Entry
    BY LenProperties, ElementOfSeq
  <2> QED BY <2>1, TimeFacts DEF Entry
<1>3. \A i, k \in 1 .. n : i <= k => at(i) <= at(k)
  BY DEF InTime
<1>4. \A k \in 1 .. n : k > half /\ k > r => at(k - r) + s <= at(k)
  BY DEF Paced
<1> HIDE DEF half, r, s, n, at
<1>5. Apart(0)
  <2>1. r * 0 = 0 /\ s * 0 = 0
    BY <1>1
  <2> QED BY <1>2, <1>3, <2>1
<1>6. ASSUME NEW m \in Nat, Apart(m) PROVE Apart(m + 1)
  <2>1. SUFFICES ASSUME NEW i \in 1 .. n, NEW k \in 1 .. n, i > half, i + r * (m + 1) <= k
                 PROVE  at(i) + s * (m + 1) <= at(k)
    OBVIOUS
  <2> DEFINE a == r * m
             b == s * m
  <2>2. r * (m + 1) = a + r /\ s * (m + 1) = b + s /\ a \in Nat /\ b \in Nat
    BY <1>1
  <2>3. at(i) \in Nat /\ at(k) \in Nat
    BY <1>2
  <2> HIDE DEF a, b
  <2>4. k > half /\ k > r /\ k - r \in 1 .. n /\ i + a <= k - r
    BY <1>1, <1>2, <2>1, <2>2
  <2>5. at(k - r) + s <= at(k) /\ at(k - r) \in Nat
    BY <1>2, <1>4, <2>4
  <2>6. at(i) + b <= at(k - r)
    BY <1>6, <2>1, <2>4 DEF a, b
  <2> QED BY <1>1, <2>2, <2>3, <2>5, <2>6
<1> HIDE DEF Apart
<1>7. 0 \in Good /\ \A m \in 0 .. l : m \in Good /\ m + 1 <= l => m + 1 \in Good
  BY <1>5, <1>6
<1>8. Good = 0 .. l
  BY <1>7, UpToInduction
<1>9. Apart(l)
  BY <1>8
<1> QED BY <1>9 DEF Apart, half, r, s, n, at

\* Places in the queue of the entries from time from to time t.
Places(queue, from, t) == {i \in 1 .. Len(queue) : queue[i].block_timestamp \in from .. t}

\* There are half of them and as many as the rate allows, at most.
LEMMA PlacesBounded ==
  ASSUME NEW queue \in Seq(Entry), InTime(queue), Paced(queue),
         NEW from \in Nat, NEW t \in Nat, from <= t
  PROVE  /\ IsFiniteSet(Places(queue, from, t))
         /\ Cardinality(Places(queue, from, t))
              <= MaxTransactionsInWindow \div 2 + max_rate * ((t - from) \div Second + 1)
<1> DEFINE half  == MaxTransactionsInWindow \div 2
           d     == (t - from) \div Second + 1
           share == max_rate * d
           n     == Len(queue)
           I     == Places(queue, from, t)
           Free  == I \cap (1 .. half)
           Late  == {i \in I : i > half}
<1>1. half \in Nat /\ max_rate \in Nat \ {0} /\ Second \in Nat \ {0} /\ n \in Nat
  BY RateFacts, LenProperties
<1>2. d \in Nat \ {0} /\ t - from < Second * d
  <2>1. t - from \in Nat
    OBVIOUS
  <2> QED BY <1>1, <2>1, QuotientFacts
<1>3. share \in Nat
  BY <1>1, <1>2
<1>4. \A i \in I : i \in 1 .. n /\ queue[i].block_timestamp \in from .. t
  BY DEF Places
<1>5. \A i, k \in 1 .. n : i > half /\ i + share <= k =>
        queue[i].block_timestamp + Second * d <= queue[k].block_timestamp
  BY <1>2, PaceAddsUp
<1>6. Second * d \in Nat
  BY <1>1, <1>2
<1> HIDE DEF half, share, d, n, I
<1>7. IsFiniteSet(Free) /\ Cardinality(Free) \in Nat /\ Cardinality(Free) <= half
  <2>1. IsFiniteSet(1 .. half) /\ Cardinality(1 .. half) = half
    BY <1>1, FS_Interval
  <2>2. Free \in SUBSET (1 .. half)
    OBVIOUS
  <2> QED BY <2>1, <2>2, FS_Subset, FS_CardinalityType
<1>8. ASSUME NEW i \in Late, NEW k \in Late PROVE k < i + share
  <2>1. SUFFICES ASSUME i + share <= k PROVE FALSE
    BY <1>1, <1>3, <1>4
  <2>2. i \in 1 .. n /\ k \in 1 .. n /\ i > half
    BY <1>4
  <2>3. queue[i].block_timestamp + Second * d <= queue[k].block_timestamp
    BY <1>5, <2>1, <2>2
  <2>4. queue[i].block_timestamp \in from .. t /\ queue[k].block_timestamp \in from .. t
    BY <1>4
  <2> DEFINE x == queue[i].block_timestamp
             y == queue[k].block_timestamp
             z == Second * d
  <2>5. x \in from .. t /\ y \in from .. t /\ x + z <= y /\ z \in Nat /\ t - from < z
    BY <1>2, <1>6, <2>3, <2>4
  <2> HIDE DEF x, y, z
  <2> QED BY <2>5
<1>9. IsFiniteSet(Late) /\ Cardinality(Late) \in Nat /\ Cardinality(Late) <= share
  <2>1. CASE Late = {}
    <3> HIDE DEF Late
    <3>1. IsFiniteSet({}) /\ Cardinality({}) = 0
      BY FS_EmptySet
    <3> QED BY <1>3, <2>1, <3>1
  <2>2. CASE Late # {}
    <3> DEFINE c == Max(Late)
    <3>1. PICK i0 : i0 \in Late
      BY <2>2
    <3>2. Late \in SUBSET (0 .. n)
      BY <1>1, <1>4
    <3> HIDE DEF Late
    <3>3. c \in Late /\ \A i \in Late : i <= c
      BY <1>1, <3>1, <3>2, MaxFacts
    <3> HIDE DEF c
    <3>4. c \in Nat /\ c - share + 1 \in Int
      BY <1>1, <1>3, <3>2, <3>3
    <3>5. Late \in SUBSET (c - share + 1 .. c)
      BY <1>1, <1>3, <1>8, <3>2, <3>3, <3>4
    <3>6. IsFiniteSet(c - share + 1 .. c)
          /\ Cardinality(c - share + 1 .. c) = IF c - share + 1 > c THEN 0 ELSE c - (c - share + 1) + 1
      BY <3>4, FS_Interval
    <3>7. Cardinality(c - share + 1 .. c) = share
      BY <1>3, <3>4, <3>6
    <3> QED BY <3>5, <3>6, <3>7, FS_Subset, FS_CardinalityType
  <2> QED BY <2>1, <2>2
<1>10. I = Free \cup Late
  <2>1. \A i \in I : i \in 1 .. half \/ i > half
    BY <1>1, <1>4
  <2> QED BY <2>1
<1>11. Free \cap Late = {}
  BY <1>1
<1> HIDE DEF Free, Late
<1>12. IsFiniteSet(I) /\ Cardinality(I) = Cardinality(Free) + Cardinality(Late)
  <2>1. Cardinality(Free \cap Late) = 0
    BY <1>11, FS_EmptySet
  <2>2. /\ IsFiniteSet(Free \cup Late)
        /\ Cardinality(Free \cup Late)
             = Cardinality(Free) + Cardinality(Late) - Cardinality(Free \cap Late)
    BY <1>7, <1>9, FS_Union
  <2> QED BY <1>7, <1>9, <1>10, <2>1, <2>2
<1>13. Cardinality(I) <= half + share
  BY <1>1, <1>3, <1>7, <1>9, <1>12
<1> QED BY <1>12, <1>13 DEF I, half, share, d

\* The heights that the queue remembers, by the map.
HeightsIn(map, queue) == {map[queue[i].transaction_hash] : i \in 1 .. Len(queue)}

\* The heights of T are remembered in the order of time, each at one place of the queue,
\* and all of them if the queue is as long as T is large.
LEMMA QueueFacts ==
  ASSUME NEW c, NEW t \in TimeStamp, ChainOK(c, t), NEW T, T \subseteq HeightsOf(c),
         NEW map, NEW queue, Linked(c, T, map, queue)
  PROVE  /\ InTime(queue)
         /\ IsFiniteSet(T)
         /\ Len(queue) <= Cardinality(T)
         /\ Len(queue) = Cardinality(T) => T = HeightsIn(map, queue)
<1> DEFINE n == Len(queue)
           height(i) == map[queue[i].transaction_hash]
           at(i) == queue[i].block_timestamp
           f == [i \in 1 .. n |-> height(i)]
<1>1. n \in Nat /\ HeightsOf(c) = 0 .. Len(c.blocks) - 1 /\ Len(c.blocks) - 1 \in Int
  BY LenProperties, AppendFacts DEF Linked, ChainOK, HeightsOf
<1>2. /\ \A i, j \in 1 .. n : i < j => height(i) < height(j)
      /\ \A i \in 1 .. n : height(i) \in T /\ BlockIn(c, height(i)).timestamp = at(i)
  BY DEF Linked
<1>3. \A g, h \in HeightsOf(c) : g <= h => BlockIn(c, g).timestamp <= BlockIn(c, h).timestamp
  BY DEF ChainOK
<1> HIDE DEF n, height, at
<1>4. \A i \in 1 .. n : height(i) \in HeightsOf(c) /\ height(i) \in Nat
  BY <1>1, <1>2
<1>5. \A i, j \in 1 .. n : i <= j => at(i) <= at(j)
  <2>1. \A i, j \in 1 .. n : i <= j => height(i) <= height(j)
    BY <1>1, <1>2, <1>4
  <2> QED BY <1>2, <1>3, <1>4, <2>1
<1>6. IsFiniteSet(T)
  <2>1. IsFiniteSet(HeightsOf(c))
    BY <1>1, FS_Interval
  <2> QED BY <2>1, FS_Subset
<1>7. \A i, j \in 1 .. n : i # j => height(i) # height(j)
  BY <1>1, <1>2, <1>4
<1>8. f \in Injection(1 .. n, T)
  BY <1>2, <1>7 DEF Injection, IsInjective
<1>9. Cardinality(1 .. n) = n
  BY <1>1, FS_Interval
<1> HIDE DEF f
<1>10. n <= Cardinality(T) /\ (n = Cardinality(T) <=> f \in Surjection(1 .. n, T))
  BY <1>6, <1>8, <1>9, FS_Injection
<1>11. n = Cardinality(T) => T = {height(i) : i \in 1 .. n}
  BY <1>2, <1>10 DEF Surjection, f
<1> QED BY <1>5, <1>6, <1>10, <1>11 DEF InTime, HeightsIn, n, height, at

LEMMA ThrottleInvInit == Init => ThrottleInv
<1> SUFFICES ASSUME Init PROVE ThrottleInv
  OBVIOUS
<1>1. transactions_by_height = << >> /\ Len(<< >>) = 0
  BY DEF Init
<1> QED BY <1>1 DEF ThrottleInv, Paced

\* The queue of an invariant state is as QueueFacts says.
LEMMA QueueOfInv ==
  ASSUME Inv
  PROVE  /\ transactions_by_height \in Seq(Entry)
         /\ InTime(transactions_by_height)
         /\ IsFiniteSet(Requests(blockchain, requested))
         /\ Len(transactions_by_height) <= Cardinality(Requests(blockchain, requested))
         /\ Len(transactions_by_height) = Cardinality(Requests(blockchain, requested)) =>
              Requests(blockchain, requested) = HeightsIn(transactions_by_hash, transactions_by_height)
<1> DEFINE T     == Requests(blockchain, requested)
           map   == transactions_by_hash
           queue == transactions_by_height
<1>1. Linked(blockchain, T, map, queue) /\ RequestsOK(blockchain, requested)
      /\ ChainOK(blockchain, now) /\ now \in TimeStamp
  BY TimeFacts DEF Inv, DedupOK
<1>2. T \subseteq HeightsOf(blockchain)
  BY <1>1 DEF RequestsOK, Requests
<1> HIDE DEF T, map, queue
<1>3. queue \in Seq(Entry)
  BY <1>1 DEF Linked
<1>4. /\ InTime(queue)
      /\ IsFiniteSet(T)
      /\ Len(queue) <= Cardinality(T)
      /\ Len(queue) = Cardinality(T) => T = HeightsIn(map, queue)
  BY <1>1, <1>2, QueueFacts
<1> QED BY <1>3, <1>4 DEF T, map, queue

\* What the purge leaves is paced if nothing was purged before, and nothing now.
LEMMA KeptPaced ==
  ASSUME Inv, ThrottleInv,
         Len(KeptByHeight) = Cardinality(Requests(blockchain, requested))
  PROVE  num_tx_purged = 0 /\ Paced(KeptByHeight)
         /\ Len(KeptByHeight) = Len(transactions_by_height)
         /\ \A i \in 1 .. Len(KeptByHeight) : KeptByHeight[i] = transactions_by_height[i]
<1>1. /\ num_tx_purged \in 0 .. Len(transactions_by_height)
      /\ Len(KeptByHeight) = Len(transactions_by_height) - num_tx_purged
      /\ \A i \in 1 .. Len(KeptByHeight) : KeptByHeight[i] = transactions_by_height[i + num_tx_purged]
  BY PurgeFacts
<1>2. /\ Len(transactions_by_height) \in Nat
      /\ Cardinality(Requests(blockchain, requested)) \in Nat
      /\ Len(transactions_by_height) <= Cardinality(Requests(blockchain, requested))
  BY QueueOfInv, LenProperties, FS_CardinalityType
<1> DEFINE n == Len(transactions_by_height)
           m == Len(KeptByHeight)
<1> HIDE DEF n, m
<1>3. num_tx_purged = 0 /\ m = n /\ n = Cardinality(Requests(blockchain, requested))
  BY <1>1, <1>2 DEF n, m
<1>4. \A i \in 1 .. m : i + num_tx_purged = i
  BY <1>3
<1>5. \A i \in 1 .. m : KeptByHeight[i] = transactions_by_height[i]
  BY <1>1, <1>4 DEF m
<1>6. Paced(transactions_by_height)
  BY <1>3 DEF ThrottleInv, n
<1>7. Paced(KeptByHeight)
  <2>1. \A k \in 1 .. m : k > max_rate => k - max_rate \in 1 .. m
    BY <1>2, <1>3, RateFacts DEF m, n
  <2> QED BY <1>3, <1>5, <1>6, <2>1 DEF Paced, m, n
<1> QED BY <1>3, <1>5, <1>7 DEF m, n

\* A request that the throttle lets through is a second younger than the entry
\* max_rate places before its own.
LEMMA AppendPaced ==
  ASSUME Inv, NEW queue \in Seq(Entry), Paced(queue),
         Len(queue) = Len(transactions_by_height),
         \A i \in 1 .. Len(queue) : queue[i] = transactions_by_height[i],
         ~ throttle, NEW x \in Hash
  PROVE  Paced(QueueWith(queue, x, now))
<1> DEFINE n == Len(queue)
           e == [block_timestamp |-> now, transaction_hash |-> x]
           half == MaxTransactionsInWindow \div 2
           q == QueueWith(queue, x, now)
           at(i) == q[i].block_timestamp
<1>1. e \in Entry /\ e.block_timestamp = now
  BY TimeFacts DEF Inv, Entry
<1>2. n \in Nat /\ max_rate \in Nat \ {0} /\ half \in Nat
  BY LenProperties, RateFacts
<1> HIDE DEF e
<1>3. Len(q) = n + 1 /\ q[n + 1] = e /\ \A i \in 1 .. n : q[i] = queue[i]
  BY <1>1, AppendProperties DEF e, QueueWith
<1> HIDE DEF q
<1>4. \A i \in 1 .. n : at(i) = queue[i].block_timestamp
  BY <1>3
<1>5. at(n + 1) = now
  BY <1>1, <1>3
<1>6. \A k \in 1 .. n : k > half /\ k > max_rate => at(k - max_rate) + Second <= at(k)
  <2>1. \A k \in 1 .. n : k > max_rate => k - max_rate \in 1 .. n
    BY <1>2
  <2>2. \A k \in 1 .. n : k > half /\ k > max_rate =>
          queue[k - max_rate].block_timestamp + Second <= queue[k].block_timestamp
    BY DEF Paced
  <2> HIDE DEF at, n, half
  <2> QED BY <1>4, <2>1, <2>2
<1>7. ASSUME n + 1 > half, n + 1 > max_rate
      PROVE  at((n + 1) - max_rate) + Second <= at(n + 1)
  <2> DEFINE j == (n + 1) - max_rate
  <2>1. n >= half /\ n >= max_rate /\ n - max_rate < n /\ (n - max_rate) + 1 = j /\ j \in 1 .. n
    BY <1>2, <1>7
  <2>2. ~ (transactions_by_height[(n - max_rate) + 1].block_timestamp + Second > now)
    BY <2>1 DEF throttle
  <2>3. transactions_by_height[j] = queue[j] /\ at(j) = queue[j].block_timestamp
    BY <1>4, <2>1
  <2>4. queue[j].block_timestamp \in Nat /\ now \in Nat /\ Second \in Nat
    <3>1. queue[j] \in Entry
      BY <2>1, ElementOfSeq
    <3> QED BY <3>1, RateFacts, TimeFacts DEF Entry, Inv
  <2> HIDE DEF j, at
  <2>5. at(j) + Second <= now
    BY <2>1, <2>2, <2>3, <2>4
  <2> QED BY <1>5, <2>5 DEF j
<1>8. \A k \in 1 .. n + 1 : k \in 1 .. n \/ k = n + 1
  BY <1>2
<1>9. \A k \in 1 .. Len(q) : k > half /\ k > max_rate => at(k - max_rate) + Second <= at(k)
  <2>1. SUFFICES ASSUME NEW k \in 1 .. n + 1, k > half, k > max_rate
                 PROVE  at(k - max_rate) + Second <= at(k)
    BY <1>3
  <2> HIDE DEF at, n, half
  <2>2. CASE k \in 1 .. n
    BY <1>6, <2>1, <2>2
  <2>3. CASE k = n + 1
    <3>1. n + 1 > half /\ n + 1 > max_rate
      BY <2>1, <2>3
    <3>2. at((n + 1) - max_rate) + Second <= at(n + 1)
      BY <1>7, <3>1
    <3> QED BY <2>3, <3>2
  <2> QED BY <1>8, <2>2, <2>3
<1> QED BY <1>9 DEF Paced, q

LEMMA ThrottleInvNext == Inv /\ ThrottleInv /\ [Next]_vars => ThrottleInv'
<1> SUFFICES ASSUME Inv, ThrottleInv, [Next]_vars PROVE ThrottleInv'
  OBVIOUS
<1> DEFINE T == Requests(blockchain, requested)
           n == Len(blockchain.blocks)
<1>1. \* The purge alone keeps the pace.
      ASSUME transactions_by_height' = KeptByHeight, Requests(blockchain, requested)' = T
      PROVE  ThrottleInv'
  BY <1>1, KeptPaced DEF ThrottleInv
<1>2. ASSUME NEW tx \in Transaction, Accepted(tx) PROVE ThrottleInv'
  <2>1. /\ requested' = requested \cup {n} /\ Remember(tx)
        /\ OneRequestMore(blockchain, blockchain', requested, tx)
    BY <1>2, AcceptedRequest DEF Accepted
  <2>2. CASE ~ Deduplicates(tx)
    <3>1. transactions_by_height' = KeptByHeight
      BY <2>1, <2>2 DEF Remember, purge_old_transactions
    <3>2. Requests(blockchain, requested)' = T
      BY <2>1, <2>2 DEF OneRequestMore
    <3> QED BY <1>1, <3>1, <3>2
  <2>3. CASE Deduplicates(tx)
    <3>1. transactions_by_height' = QueueWith(KeptByHeight, tx_hash(tx), now) /\ tx_hash(tx) \in Hash
      BY <2>1, <2>3, HashFacts DEF Remember, QueueWith
    <3>2. Requests(blockchain, requested)' = T \cup {n}
      BY <2>1, <2>3 DEF OneRequestMore
    <3>3. n \notin T /\ IsFiniteSet(T)
      <4>1. \A h \in T : h \in 0 .. n - 1
        BY <2>1 DEF OneRequestMore, HeightsOf
      <4>2. n \notin 0 .. n - 1
        BY AppendFacts DEF Inv, ChainOK
      <4> QED BY <4>1, <4>2, QueueOfInv
    <3>4. Cardinality(T \cup {n}) = Cardinality(T) + 1 /\ Cardinality(T) \in Nat
      BY <3>3, FS_AddElement, FS_CardinalityType
    <3>5. /\ KeptByHeight \in Seq(Entry) /\ Len(KeptByHeight) \in Nat
          /\ Len(transactions_by_height') = Len(KeptByHeight) + 1
      <4>1. KeptByHeight \in Seq(Entry)
        BY PurgeFacts
      <4>2. [block_timestamp |-> now, transaction_hash |-> tx_hash(tx)] \in Entry
        BY <3>1, TimeFacts DEF Entry, Inv
      <4> QED BY <3>1, <4>1, <4>2, AppendProperties, LenProperties DEF QueueWith
    <3> HIDE DEF T, n
    <3>6. SUFFICES ASSUME Len(KeptByHeight) + 1 = Cardinality(T) + 1
                   PROVE  Paced(transactions_by_height')
      BY <3>2, <3>4, <3>5 DEF ThrottleInv, Paced
    <3>7. Len(KeptByHeight) = Cardinality(T)
      BY <3>4, <3>5, <3>6
    <3>8. /\ num_tx_purged = 0 /\ Paced(KeptByHeight)
          /\ Len(KeptByHeight) = Len(transactions_by_height)
          /\ \A i \in 1 .. Len(KeptByHeight) : KeptByHeight[i] = transactions_by_height[i]
      BY <3>7, KeptPaced DEF T
    <3>9. ~ throttle
      BY <1>2, <3>8 DEF Accepted, Pays, Vetted, GetsIn, Throttled
    <3> QED BY <3>1, <3>5, <3>8, <3>9, AppendPaced
  <2> QED BY <2>2, <2>3
<1>3. ASSUME NEW answer, Rejected(answer) PROVE ThrottleInv'
  BY <1>1, <1>3 DEF Rejected, purge_old_transactions, Requests, BlockIn
<1>4. ASSUME ledger' = ledger PROVE ThrottleInv'
  BY <1>4 DEF ledger, tables, ThrottleInv
<1>5. ASSUME NEW tx \in Transaction, apply_transaction(tx) PROVE ThrottleInv'
  BY <1>2, <1>3, <1>4, <1>5
     DEF apply_transaction, TxThrottled, TxTooOld, TxCreatedInFuture, TxDuplicate,
         InsufficientFunds, Trapped
<1>6. CASE Tick \/ UNCHANGED vars
  BY <1>4, <1>6 DEF Tick, vars
<1> QED BY <1>5, <1>6 DEF Next

\* From any tracked transaction on, and until something is purged, no more than half of
\* max_transactions_in_window get through and max_rate of them for every second begun.
\* (The whole share that a comment of the throttle promises is more than the code
\* keeps: ThrottleGuarantee is violated.)
THEOREM HalfThenPaced == Spec => []ThrottledShare
<1>1. ASSUME Inv, ThrottleInv PROVE ThrottledShare
  <2> DEFINE T == Requests(blockchain, requested)
             queue == transactions_by_height
             height(i) == transactions_by_hash[queue[i].transaction_hash]
             share(from, t) == MaxTransactionsInWindow \div 2
                                 + max_rate * ((t - from) \div Second + 1)
  <2>1. SUFFICES ASSUME Len(queue) = Cardinality(T), NEW g \in T,
                        NEW t \in BlockIn(blockchain, g).timestamp .. now
                 PROVE  Cardinality({h \in T : BlockIn(blockchain, h).timestamp
                                                 \in BlockIn(blockchain, g).timestamp .. t})
                          <= share(BlockIn(blockchain, g).timestamp, t)
    BY SameNotions DEF ThrottledShare
  <2> DEFINE from == BlockIn(blockchain, g).timestamp
             I    == Places(queue, from, t)
             Span == {h \in T : BlockIn(blockchain, h).timestamp \in from .. t}
  <2>2. queue \in Seq(Entry) /\ InTime(queue) /\ Paced(queue)
    BY <1>1, <2>1, QueueOfInv DEF ThrottleInv
  <2>3. T = {height(i) : i \in 1 .. Len(queue)}
    BY <1>1, <2>1, QueueOfInv DEF HeightsIn
  <2>4. \A i \in 1 .. Len(queue) : BlockIn(blockchain, height(i)).timestamp = queue[i].block_timestamp
    BY <1>1 DEF Inv, DedupOK, Linked
  <2>5. from \in Nat /\ t \in Nat /\ from <= t
    <3>1. now \in Nat /\ g \in HeightsOf(blockchain)
      BY <1>1, TimeFacts DEF Inv, DedupOK, RequestsOK, Requests
    <3>2. from \in Nat
      BY <1>1, <3>1, TimeFacts DEF Inv, ChainOK
    <3> QED BY <2>1, <3>1, <3>2
  <2>6. IsFiniteSet(I) /\ Cardinality(I) <= share(from, t)
    BY <2>2, <2>5, PlacesBounded
  <2> HIDE DEF T, queue, height, from, share
  <2>7. Span = {height(i) : i \in I}
    BY <2>3, <2>4 DEF Places
  <2> HIDE DEF Span, I
  <2>8. Cardinality(Span) <= Cardinality(I)
    <3> DEFINE f == [i \in I |-> height(i)]
    <3>1. f \in Surjection(I, Span)
      BY <2>7 DEF Surjection
    <3> HIDE DEF f
    <3> QED BY <2>6, <3>1, FS_Surjection
  <2>9. Cardinality(Span) \in Nat /\ Cardinality(I) \in Nat /\ share(from, t) \in Int
    <3>1. IsFiniteSet(T)
      BY <1>1, QueueOfInv DEF T
    <3>2. Span \in SUBSET T
      BY DEF Span
    <3>3. IsFiniteSet(Span)
      BY <3>1, <3>2, FS_Subset
    <3>4. share(from, t) \in Int
      <4>1. t - from \in Nat /\ (t - from) \div Second \in Nat
        BY <2>5, RateFacts, QuotientFacts
      <4>2. max_rate * ((t - from) \div Second + 1) \in Nat
        BY <4>1, RateFacts
      <4> QED BY <4>2, RateFacts DEF share
    <3> QED BY <2>6, <3>3, <3>4, FS_CardinalityType
  <2>10. Cardinality(Span) <= share(from, t)
    BY <2>6, <2>8, <2>9
  <2> QED BY <2>10 DEF Span, from
<1>2. Spec => [](Inv /\ ThrottleInv)
  BY InvInit, InvNext, ThrottleInvInit, ThrottleInvNext, PTL DEF Spec
<1> QED BY <1>1, <1>2, PTL

\* The least of two numbers.
LEMMA MinOfTwo ==
  ASSUME NEW a \in Nat, NEW b \in Nat
  PROVE  Min({a, b}) = IF a <= b THEN a ELSE b
<1> DEFINE least == IF a <= b THEN a ELSE b
<1>1. least \in {a, b} /\ \A x \in {a, b} : least <= x
  OBVIOUS
<1>2. \A x \in {a, b} : (\A y \in {a, b} : x <= y) => x = least
  OBVIOUS
<1> HIDE DEF least
<1>3. Min({a, b}) \in {a, b} /\ \A y \in {a, b} : Min({a, b}) <= y
  BY <1>1 DEF Min
<1> QED BY <1>2, <1>3 DEF least

\* A caller is told to come back later only while others get in: in the last second there
\* were max_rate of them, or half of max_transactions_in_window if that is less, for every
\* window and every limit.
THEOREM QuietSecondOpens == Spec => []ThrottledOnlyWhenBusy
<1>1. ASSUME Inv PROVE ThrottledOnlyWhenBusy
  <2> DEFINE T     == Requests(blockchain, requested)
             queue == transactions_by_height
             height(i) == transactions_by_hash[queue[i].transaction_hash]
             at(i) == queue[i].block_timestamp
             n     == Len(queue)
             half  == MaxTransactionsInWindow \div 2
             i     == IF n >= max_rate THEN n - max_rate ELSE 0
             Recent == {h \in T : BlockIn(blockchain, h).timestamp + Second > now}
             J     == i + 1 .. n
             f     == [j \in J |-> height(j)]
  <2>1. SUFFICES ASSUME Throttled
                 PROVE  Cardinality(Recent) >= Min({max_rate, half})
    BY SameNotions DEF ThrottledOnlyWhenBusy
  <2>2. half \in Nat /\ max_rate \in Nat \ {0} /\ Second \in Nat \ {0} /\ n \in Nat /\ now \in Nat
    BY <1>1, RateFacts, TimeFacts, QueueOfInv, LenProperties DEF Inv
  <2>3. i \in 0 .. n /\ (n # 0 => i < n)
    BY <2>2
  <2>4. n >= half /\ (IF i < n THEN at(i + 1) ELSE 0) + Second > now
    BY <2>1 DEF Throttled, throttle
  <2>5. queue \in Seq(Entry) /\ InTime(queue) /\ IsFiniteSet(T)
    BY <1>1, QueueOfInv
  <2>6. /\ \A j, k \in 1 .. n : j < k => height(j) < height(k)
        /\ \A j \in 1 .. n : height(j) \in T /\ BlockIn(blockchain, height(j)).timestamp = at(j)
    BY <1>1 DEF Inv, DedupOK, Linked
  <2>7. \A j, k \in 1 .. n : j <= k => at(j) <= at(k)
    BY <2>5 DEF InTime
  <2>8. \A j \in 1 .. n : at(j) \in Nat
    <3>1. \A j \in 1 .. n : queue[j] \in Entry
      BY <2>5
    <3>2. \A e \in Entry : e.block_timestamp \in Nat
      BY TimeFacts DEF Entry
    <3> QED BY <3>1, <3>2
  <2>9. T \subseteq Nat
    <3>1. T \subseteq HeightsOf(blockchain)
      BY <1>1 DEF Inv, DedupOK, RequestsOK, Requests
    <3> QED BY <3>1 DEF HeightsOf
  <2>10. now >= Second
    BY <1>1, <2>2, TimeAssumption DEF Inv
  <2>11. n - i = IF n >= max_rate THEN max_rate ELSE n
    BY <2>2
  <2> HIDE DEF T, height, at, n, i, half
  <2>12. i < n
    BY <2>2, <2>3, <2>4, <2>10
  <2>13. i \in Nat /\ i + 1 \in 1 .. n
    BY <2>2, <2>3, <2>12
  <2>14. \A j \in J : j \in 1 .. n /\ i + 1 <= j
    BY <2>2, <2>13
  <2>15. \A j \in J : at(j) + Second > now
    <3>1. at(i + 1) + Second > now
      BY <2>4, <2>12
    <3>2. \A j \in J : at(i + 1) <= at(j)
      BY <2>7, <2>13, <2>14
    <3> QED BY <2>2, <2>8, <2>13, <2>14, <3>1, <3>2
  <2>16. \A j, k \in J : j # k => height(j) # height(k)
    <3>1. \A j, k \in 1 .. n : j # k => j < k \/ k < j
      BY <2>2
    <3>2. \A j \in 1 .. n : height(j) \in Nat
      BY <2>6, <2>9
    <3> QED BY <2>6, <2>14, <3>1, <3>2
  <2>17. \A j \in J : height(j) \in Recent
    BY <2>6, <2>14, <2>15
  <2>18. IsFiniteSet(Recent)
    BY <2>5, FS_Subset
  <2> HIDE DEF Recent, J
  <2>19. f \in Injection(J, Recent)
    BY <2>16, <2>17 DEF Injection, IsInjective
  <2> HIDE DEF f
  <2>20. Cardinality(J) <= Cardinality(Recent) /\ Cardinality(Recent) \in Nat
    BY <2>18, <2>19, FS_Injection, FS_CardinalityType
  <2>21. Cardinality(J) = n - i
    <3>1. Cardinality(i + 1 .. n) = IF i + 1 > n THEN 0 ELSE n - (i + 1) + 1
      BY <2>2, <2>13, FS_Interval
    <3> QED BY <2>2, <2>13, <3>1 DEF J
  <2>22. Min({max_rate, half}) <= n - i
    <3>1. Min({max_rate, half}) = IF max_rate <= half THEN max_rate ELSE half
      BY <2>2, MinOfTwo
    <3> QED BY <2>2, <2>4, <2>11, <3>1
  <2>23. Min({max_rate, half}) \in Int
    <3>1. Min({max_rate, half}) = IF max_rate <= half THEN max_rate ELSE half
      BY <2>2, MinOfTwo
    <3> QED BY <2>2, <3>1
  <2> QED BY <2>2, <2>13, <2>20, <2>21, <2>22, <2>23
<1> QED BY Invariance, <1>1, PTL
-----------------------------------------------------------------------------
(* The ledger implements the one that never forgets, for every window,      *)
(* drift, purge limit and trimming limit: a caller cannot tell from the     *)
(* answers that there are tables, that they are purged, or that they lag.   *)

\* The refinement mapping's list of executed transactions.
Executed == [h \in requested |-> TxAt(h)]

LEMMA ExecutedFacts ==
  ASSUME Inv
  PROVE  /\ DOMAIN Executed = requested
         /\ \A h \in requested : Executed[h] = BlockIn(blockchain, h).transaction
         /\ \A h \in requested : h \in HeightsOf(blockchain)
BY SameNotions DEF Executed, Inv, DedupOK, RequestsOK

\* A transaction that is not too old is in the map, as the purge leaves it, if and
\* only if it was ever executed; and the map knows where.
LEMMA KnownIffExecuted ==
  ASSUME Inv, NEW tx \in Transaction, Deduplicates(tx), ~ TooOld(tx)
  PROVE  /\ IsDuplicate(tx) => /\ KeptByHash[tx_hash(tx)] \in requested
                               /\ Executed[KeptByHash[tx_hash(tx)]] = tx
         /\ (\E h \in requested : Executed[h] = tx) => IsDuplicate(tx)
<1> DEFINE T == Requests(blockchain, requested)
<1>1. Linked(blockchain, T, KeptByHash, KeptByHeight) /\ Remembered(blockchain, T, KeptByHash, now)
  BY PurgeFacts
<1>2. ASSUME IsDuplicate(tx)
      PROVE  KeptByHash[tx_hash(tx)] \in requested /\ Executed[KeptByHash[tx_hash(tx)]] = tx
  <2>1. tx_hash(tx) \in {KeptByHeight[i].transaction_hash : i \in 1 .. Len(KeptByHeight)}
    BY <1>1, <1>2 DEF IsDuplicate, Linked
  <2>2. PICK i \in 1 .. Len(KeptByHeight) : KeptByHeight[i].transaction_hash = tx_hash(tx)
    BY <2>1
  <2>3. /\ KeptByHash[tx_hash(tx)] \in T
        /\ tx_hash(BlockIn(blockchain, KeptByHash[tx_hash(tx)]).transaction) = tx_hash(tx)
    BY <1>1, <2>2 DEF Linked
  <2>4. BlockIn(blockchain, KeptByHash[tx_hash(tx)]).transaction = tx
    BY <2>3, HashFacts
  <2> QED BY <2>3, <2>4, ExecutedFacts DEF Requests
<1>3. ASSUME NEW h \in requested, Executed[h] = tx PROVE IsDuplicate(tx)
  <2>1. BlockIn(blockchain, h).transaction = tx /\ h \in T
    BY <1>3, ExecutedFacts DEF Requests
  <2>2. \/ tx.created_at_time + TransactionWindow < now
        \/ tx_hash(tx) \in DOMAIN KeptByHash
    BY <1>1, <2>1 DEF Remembered
  <2> QED BY <2>2 DEF TooOld, IsDuplicate
<1> QED BY <1>2, <1>3

\* What the ledger looks at before it executes is what the ideal one looks at.
LEMMA SameQuestions ==
  ASSUME NEW tx
  PROVE  /\ Ideal!Dated(tx) <=> Deduplicates(tx)
         /\ Ideal!Stale(tx) <=> TooOld(tx)
         /\ Ideal!Early(tx) <=> InFuture(tx)
BY DEF Ideal!Dated, Ideal!Stale, Ideal!Early, Deduplicates, TooOld, InFuture

LEMMA DueFacts ==
  ASSUME Inv, NEW tx \in Transaction, Vetted(tx)
  PROVE  Ideal!Due(tx)
<1>1. ~ Ideal!Stale(tx) /\ ~ Ideal!Early(tx) /\ ~ IsDuplicate(tx) /\ ~ TooOld(tx)
  BY SameQuestions DEF Vetted
<1>2. ASSUME Ideal!Repeated(tx) PROVE FALSE
  <2>1. Deduplicates(tx) /\ \E h \in DOMAIN Executed : Executed[h] = tx
    BY <1>2, SameQuestions DEF Ideal!Repeated, Executed
  <2> QED BY <1>1, <2>1, KnownIffExecuted, ExecutedFacts
<1> QED BY <1>1, <1>2 DEF Ideal!Due

\* A call that is not executed leaves the list as it is.
LEMMA SameExecuted ==
  ASSUME blockchain' = blockchain, requested' = requested
  PROVE  Executed' = Executed
BY DEF Executed, TxAt, BlockAt, decode

\* An accepted call adds its transaction to the list, at a height of its own.
LEMMA ExecutesIdeally ==
  ASSUME Inv, NEW tx \in Transaction, Accepted(tx)
  PROVE  Ideal!Execute(tx)
<1> DEFINE n == Len(blockchain.blocks)
<1>1. PICK st \in TrimmedStates(tx) : blockchain' = st.blockchain
  BY DEF Accepted
<1>2. Grown(blockchain, blockchain', tx, now)
  BY <1>1, TrimmedStateFacts DEF Accepted
<1>3. /\ requested' = requested \cup {n} /\ now' = now
      /\ reply' = [kind |-> "Ok", height |-> n, tx |-> tx]
  BY DEF Accepted, chain_length, BlockReply
<1>4. n \in Nat /\ n \notin requested /\ \A g \in requested : g < n
  <2>1. n \in Nat
    BY AppendFacts DEF Inv, ChainOK
  <2>2. \A g \in requested : g \in 0 .. n - 1
    BY ExecutedFacts DEF HeightsOf
  <2> QED BY <2>1, <2>2
<1>5. /\ \A h \in requested : BlockIn(blockchain', h) = BlockIn(blockchain, h)
      /\ BlockIn(blockchain', n).transaction = tx
  BY <1>2, ExecutedFacts DEF Grown
<1> HIDE DEF n
<1>6. \A h : TxAt(h)' = BlockIn(blockchain', h).transaction
  BY DEF TxAt, BlockAt, BlockIn
<1>7. Executed' = [g \in DOMAIN Executed \cup {n} |-> IF g = n THEN tx ELSE Executed[g]]
  <2>1. Executed' = [h \in requested \cup {n} |-> BlockIn(blockchain', h).transaction]
    BY <1>3, <1>6 DEF Executed
  <2>2. \A h \in requested \cup {n} :
          BlockIn(blockchain', h).transaction = IF h = n THEN tx ELSE Executed[h]
    BY <1>5, ExecutedFacts
  <2> QED BY <2>1, <2>2, ExecutedFacts
<1>8. DOMAIN Executed = requested /\ n \in DOMAIN Executed' \ DOMAIN Executed
  BY <1>4, <1>7, ExecutedFacts
<1>9. Ideal!Due(tx)
  BY DueFacts DEF Accepted, Pays
<1> QED BY <1>3, <1>4, <1>7, <1>8, <1>9 DEF Ideal!Execute, Executed
-----------------------------------------------------------------------------
\* Every step of the ledger is a step of the ideal one, or none.
LEMMA IdealStep == Inv /\ [Next]_vars => [Ideal!Next]_(Ideal!vars)
<1> SUFFICES ASSUME Inv, [Next]_vars PROVE [Ideal!Next]_(Ideal!vars)
  OBVIOUS
<1>1. ASSUME NEW answer, Rejected(answer)
      PROVE  Executed' = Executed /\ now' = now /\ reply' = answer
  BY <1>1, SameExecuted DEF Rejected
<1>2. ASSUME NEW tx \in Transaction, apply_transaction(tx) PROVE Ideal!Next
  <2>1. CASE TxThrottled(tx)
    <3>1. Executed' = Executed /\ now' = now /\ reply' = [kind |-> "TxThrottled", tx |-> tx]
      BY <1>1, <2>1 DEF TxThrottled, Refusal
    <3>2. Ideal!Unavailable
      BY <3>1 DEF Ideal!Unavailable, Executed
    <3> QED BY <3>2 DEF Ideal!Next
  <2>2. CASE TxTooOld(tx)
    <3>1. Ideal!Misdated(tx)
      BY <1>1, <2>2, SameQuestions DEF TxTooOld, Refusal, Ideal!Misdated, Executed
    <3> QED BY <3>1 DEF Ideal!Next
  <2>3. CASE TxCreatedInFuture(tx)
    <3>1. Ideal!Misdated(tx)
      BY <1>1, <2>3, SameQuestions DEF TxCreatedInFuture, Refusal, Ideal!Misdated, Executed
    <3> QED BY <3>1 DEF Ideal!Next
  <2>4. CASE TxDuplicate(tx)
    <3> DEFINE k      == KeptByHash[tx_hash(tx)]
               answer == BlockReply("TxDuplicate", k, tx)
    <3>1. Rejected(answer) /\ answer = [kind |-> "TxDuplicate", height |-> k, tx |-> tx]
      BY <2>4 DEF TxDuplicate, BlockReply
    <3>2. ~ Ideal!Stale(tx) /\ ~ Ideal!Early(tx) /\ Ideal!Dated(tx)
      BY <2>4, SameQuestions DEF TxDuplicate, IsDuplicate
    <3>3. k \in DOMAIN Executed /\ Executed[k] = tx
      BY <2>4, KnownIffExecuted, ExecutedFacts DEF TxDuplicate, IsDuplicate
    <3> HIDE DEF k, answer
    <3>4. Executed' = Executed /\ now' = now /\ reply' = [kind |-> "TxDuplicate", height |-> k, tx |-> tx]
      BY <1>1, <3>1
    <3>5. Ideal!Recall(tx)
      BY <3>2, <3>3, <3>4 DEF Ideal!Recall, Executed
    <3> QED BY <3>5 DEF Ideal!Next
  <2>5. CASE InsufficientFunds(tx)
    <3>1. Ideal!Refuse(tx)
      BY <1>1, <2>5, DueFacts DEF InsufficientFunds, Refusal, Ideal!Refuse, Executed
    <3> QED BY <3>1 DEF Ideal!Next
  <2>6. CASE Accepted(tx)
    BY <2>6, ExecutesIdeally DEF Ideal!Next
  <2>7. CASE Trapped(tx)
    <3>1. PICK cause \in {"timestamp overflow", "total token supply exceeded", "bug"} :
            /\ TrapCause(tx, cause)
            /\ reply' = [kind |-> "trap", cause |-> cause]
            /\ UNCHANGED <<ledger, now>>
      BY <2>7 DEF Trapped
    <3>2. cause # "bug"
      BY <3>1, PurgeFacts, NeverBreaks DEF TrapCause
    <3>3. Executed' = Executed /\ now' = now
      BY <3>1, SameExecuted DEF ledger
    <3>4. Ideal!Unavailable
      BY <3>1, <3>2, <3>3 DEF Ideal!Unavailable, Executed
    <3> QED BY <3>4 DEF Ideal!Next
  <2> QED BY <1>2, <2>1, <2>2, <2>3, <2>4, <2>5, <2>6, <2>7 DEF apply_transaction
<1>3. CASE Tick
  <2>1. Executed' = Executed /\ now' = now + 1 /\ reply' = reply
    BY <1>3, SameExecuted DEF Tick, ledger
  <2> QED BY <2>1 DEF Ideal!Next, Ideal!Tick, Executed
<1>4. CASE UNCHANGED vars
  <2>1. Executed' = Executed /\ now' = now /\ reply' = reply
    BY <1>4, SameExecuted DEF vars, ledger
  <2> QED BY <2>1 DEF Ideal!vars, Executed
<1> QED BY <1>2, <1>3, <1>4 DEF Next

LEMMA IdealInit == Init => Ideal!Init
<1> SUFFICES ASSUME Init PROVE Ideal!Init
  OBVIOUS
<1>1. [h \in requested |-> TxAt(h)] = [h \in {} |-> None]
  BY DEF Init
<1>2. now \in Int /\ reply = [kind |-> "none"]
  BY TimeAssumption DEF Init
<1> QED BY <1>1, <1>2 DEF Ideal!Init

\* To those who send it transactions the ledger is one that remembers all of them for
\* ever: what it executes, what it answers and which height it names never depend on
\* what the purge has removed from the tables.
THEOREM LedgerNeverForgets == Spec => NeverForgets
BY IdealInit, IdealStep, Invariance, PTL DEF Spec, NeverForgets, Ideal!Spec
-----------------------------------------------------------------------------
(* What a step of the ledger does to its history. *)

\* Every call ends with one kind of reply.
LEMMA OnlyAcceptedIsOk ==
  ASSUME NEW tx, apply_transaction(tx), reply'.kind = "Ok"
  PROVE  Accepted(tx)
<1>1. \A kind, h : Refusal(kind, tx).kind = kind /\ BlockReply(kind, h, tx).kind = kind
  BY DEF Refusal, BlockReply
<1>2. ~ TxThrottled(tx) /\ ~ TxTooOld(tx) /\ ~ TxCreatedInFuture(tx) /\ ~ InsufficientFunds(tx)
  BY <1>1 DEF TxThrottled, TxTooOld, TxCreatedInFuture, InsufficientFunds, Rejected
<1>3. ~ TxDuplicate(tx)
  BY <1>1 DEF TxDuplicate, Rejected
<1>4. ~ Trapped(tx)
  <2>1. Trapped(tx) => reply'.kind = "trap"
    <3> SUFFICES ASSUME NEW cause, reply' = [kind |-> "trap", cause |-> cause]
                 PROVE  reply'.kind = "trap"
      BY DEF Trapped
    <3> QED OBVIOUS
  <2> QED BY <2>1
<1> QED BY <1>2, <1>3, <1>4 DEF apply_transaction

\* An accepted transaction is in a block of its own, which the answer names.
LEMMA AcceptedFacts ==
  ASSUME Inv, NEW tx \in Transaction, Accepted(tx)
  PROVE  /\ reply'.height \notin requested
         /\ requested' = requested \cup {reply'.height}
         /\ BlockIn(blockchain', reply'.height).transaction = tx
         /\ \A h \in requested : BlockIn(blockchain', h) = BlockIn(blockchain, h)
<1> DEFINE n == Len(blockchain.blocks)
<1>1. PICK st \in TrimmedStates(tx) : blockchain' = st.blockchain
  BY DEF Accepted
<1>2. Grown(blockchain, blockchain', tx, now)
  BY <1>1, TrimmedStateFacts DEF Accepted
<1>3. requested' = requested \cup {n} /\ reply' = [kind |-> "Ok", height |-> n, tx |-> tx]
  BY DEF Accepted, chain_length, BlockReply
<1>4. n \notin requested
  <2>1. n \in Nat
    BY AppendFacts DEF Inv, ChainOK
  <2>2. \A g \in requested : g \in 0 .. n - 1
    BY ExecutedFacts DEF HeightsOf
  <2> QED BY <2>1, <2>2
<1>5. /\ \A h \in requested : BlockIn(blockchain', h) = BlockIn(blockchain, h)
      /\ BlockIn(blockchain', n).transaction = tx
  BY <1>2, ExecutedFacts DEF Grown
<1> QED BY <1>3, <1>4, <1>5

\* No step takes back what was executed.
LEMMA HistoryKept ==
  ASSUME Inv, [Next]_vars
  PROVE  \A h \in requested : h \in requested' /\ BlockIn(blockchain', h) = BlockIn(blockchain, h)
<1>1. ASSUME NEW tx \in Transaction, apply_transaction(tx), ~ Accepted(tx)
      PROVE  blockchain' = blockchain /\ requested' = requested
  BY <1>1 DEF apply_transaction, TxThrottled, TxTooOld, TxCreatedInFuture, TxDuplicate,
              InsufficientFunds, Trapped, Rejected, ledger
<1>2. Tick \/ UNCHANGED vars => blockchain' = blockchain /\ requested' = requested
  BY DEF Tick, vars, ledger
<1> QED BY <1>1, <1>2, AcceptedFacts DEF Next

\* If the answer to a call names a block, then that of its transaction.
LEMMA AnswerOfCall ==
  ASSUME Inv, NEW tx \in Transaction, apply_transaction(tx),
         reply'.kind \in {"Ok", "TxDuplicate"}
  PROVE  /\ reply'.tx = tx /\ reply'.height \in requested'
         /\ BlockIn(blockchain', reply'.height).transaction = tx
<1>1. CASE Accepted(tx)
  <2>1. reply'.tx = tx
    BY <1>1 DEF Accepted, BlockReply
  <2> QED BY <1>1, <2>1, AcceptedFacts
<1>2. CASE TxDuplicate(tx)
  <2>1. /\ reply'.height = KeptByHash[tx_hash(tx)] /\ reply'.tx = tx
        /\ blockchain' = blockchain /\ requested' = requested
    BY <1>2 DEF TxDuplicate, Rejected, BlockReply
  <2>2. KeptByHash[tx_hash(tx)] \in requested /\ Executed[KeptByHash[tx_hash(tx)]] = tx
    BY <1>2, KnownIffExecuted DEF TxDuplicate, IsDuplicate
  <2> QED BY <2>1, <2>2, ExecutedFacts
<1>3. Accepted(tx) \/ TxDuplicate(tx)
  <2>1. \A kind : Refusal(kind, tx).kind = kind
    BY DEF Refusal
  <2>2. ~ TxThrottled(tx) /\ ~ TxTooOld(tx) /\ ~ TxCreatedInFuture(tx) /\ ~ InsufficientFunds(tx)
    BY <2>1 DEF TxThrottled, TxTooOld, TxCreatedInFuture, InsufficientFunds, Rejected
  <2>3. ASSUME NEW cause PROVE reply' # [kind |-> "trap", cause |-> cause]
    OBVIOUS
  <2> QED BY <2>2, <2>3 DEF apply_transaction, Trapped
<1> QED BY <1>1, <1>2, <1>3

LEMMA AnswersInit == Init => AnswersNameTheirBlock
<1> SUFFICES ASSUME Init PROVE AnswersNameTheirBlock
  OBVIOUS
<1>1. reply.kind = "none"
  BY DEF Init
<1> QED BY <1>1 DEF AnswersNameTheirBlock

LEMMA AnswersNext == Inv /\ AnswersNameTheirBlock /\ [Next]_vars => AnswersNameTheirBlock'
<1> SUFFICES ASSUME Inv, AnswersNameTheirBlock, [Next]_vars,
                    reply'.kind \in {"Ok", "TxDuplicate"}
             PROVE  /\ reply'.height \in requested'
                    /\ BlockIn(blockchain', reply'.height).transaction = reply'.tx
  BY DEF AnswersNameTheirBlock, TxAt, BlockAt, BlockIn
<1>1. CASE Tick \/ UNCHANGED vars
  <2>1. reply' = reply
    BY <1>1 DEF Tick, vars
  <2>2. reply.height \in requested /\ BlockIn(blockchain, reply.height).transaction = reply.tx
    BY <2>1 DEF AnswersNameTheirBlock, TxAt, BlockAt, BlockIn
  <2> QED BY <2>1, <2>2, HistoryKept
<1> QED BY <1>1, AnswerOfCall DEF Next

\* An answer that names a block names the block of the transaction it answers, whether
\* that was executed now or long ago, and however many accounts were trimmed after it.
THEOREM AnswersAreTrue == Spec => []AnswersNameTheirBlock
BY AnswersInit, AnswersNext, Invariance, PTL DEF Spec
=============================================================================
