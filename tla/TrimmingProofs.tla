--------------------------- MODULE TrimmingProofs ---------------------------
(***************************************************************************)
(* Lemmas about the operators of Ledger: adding a block, trimming the      *)
(* accounts, and the arithmetic of Max over an interval that the purge     *)
(* relies on.  No state is mentioned here; LedgerProofs is about states.   *)
(***************************************************************************)
EXTENDS Ledger, BalanceBookProofs, SequenceTheorems

\* Max of a nonempty set of naturals below a bound is a member and bounds the others.
LEMMA MaxFacts ==
  ASSUME NEW L \in Nat, NEW S \in SUBSET (0 .. L), S # {}
  PROVE  Max(S) \in S /\ \A y \in S : Max(S) >= y
<1> DEFINE Good == {m \in 0 .. L : \/ \A y \in S : y > m
                                   \/ \E x \in S : x <= m /\ \A y \in S : y <= m => x >= y}
<1>1. 0 \in Good
  OBVIOUS
<1>2. ASSUME NEW m \in 0 .. L, m \in Good, m + 1 <= L PROVE m + 1 \in Good
  <2>1. CASE m + 1 \in S
    BY <2>1, <1>2
  <2>2. CASE m + 1 \notin S
    <3>1. \A y \in S : y <= m + 1 => y <= m
      BY <2>2
    <3> QED BY <3>1, <1>2
  <2> QED BY <2>1, <2>2
<1>3. Good = 0 .. L
  <2> HIDE DEF Good
  <2>1. Good \in SUBSET (0 .. L)
    BY DEF Good
  <2> QED BY <1>1, <1>2, <2>1, UpToInduction
<1>4. (\A y \in S : y > L) \/ \E x \in S : x <= L /\ \A y \in S : y <= L => x >= y
  BY <1>3
<1>5. \A y \in S : y <= L /\ ~ (y > L)
  OBVIOUS
<1> HIDE DEF Good
<1>6. \E x \in S : \A y \in S : x >= y
  BY <1>4, <1>5
<1> QED BY <1>6 DEF Max
-----------------------------------------------------------------------------
(* Sequences of blocks. *)

IsSequence(s) == s \in Seq(Range(s))

\* Append to a sequence of anything.
LEMMA AppendFacts ==
  ASSUME NEW s, IsSequence(s), NEW e
  PROVE  /\ IsSequence(Append(s, e))
         /\ Len(s) \in Nat
         /\ Len(Append(s, e)) = Len(s) + 1
         /\ \A i \in 1 .. Len(s) : Append(s, e)[i] = s[i]
         /\ Append(s, e)[Len(s) + 1] = e
<1> DEFINE S == Range(s) \cup {e}
<1>1. s \in Seq(S) /\ e \in S
  BY SeqMonotonic DEF IsSequence
<1> HIDE DEF S
<1>2. /\ Append(s, e) \in Seq(S)
      /\ Len(Append(s, e)) = Len(s) + 1
      /\ \A i \in 1 .. Len(s) : Append(s, e)[i] = s[i]
      /\ Append(s, e)[Len(s) + 1] = e
  BY <1>1, AppendProperties
<1>3. Len(s) \in Nat
  BY <1>1, LenProperties
<1>4. IsSequence(Append(s, e))
  BY <1>2, RangeOfSeq, SeqOfRange DEF IsSequence
<1> QED BY <1>2, <1>3, <1>4

\* Chain d continues chain c: it has all its blocks at their heights.
Continues(d, c) ==
  /\ Len(c.blocks) <= Len(d.blocks)
  /\ \A i \in 1 .. Len(c.blocks) : d.blocks[i] = c.blocks[i]

\* Blockchain::add_block puts one block on top and moves the tip to it.
LEMMA AddBlockFacts ==
  ASSUME NEW c, IsSequence(c.blocks), NEW tx, NEW t
  PROVE  /\ IsSequence(Extended(c, tx, t).blocks)
         /\ Len(c.blocks) \in Nat
         /\ Len(Extended(c, tx, t).blocks) = Len(c.blocks) + 1
         /\ \A i \in 1 .. Len(c.blocks) : Extended(c, tx, t).blocks[i] = c.blocks[i]
         /\ decode(Extended(c, tx, t).blocks[Len(c.blocks) + 1]).transaction = tx
         /\ decode(Extended(c, tx, t).blocks[Len(c.blocks) + 1]).timestamp = t
         /\ Extended(c, tx, t).last_timestamp = t
<1> DEFINE b == from_transaction(c.last_hash, tx, t)
<1>1. Extended(c, tx, t).blocks = Append(c.blocks, encode(b))
  BY DEF Extended, add_block
<1>2. decode(encode(b)).transaction = tx /\ decode(encode(b)).timestamp = t
  BY DEF encode, decode, from_transaction
<1>3. Extended(c, tx, t).last_timestamp = t
  BY DEF Extended, add_block, from_transaction
<1> HIDE DEF b
<1> QED BY <1>1, <1>2, <1>3, AppendFacts
-----------------------------------------------------------------------------
(* What a chain says: its hashes, and the book it accounts for. *)

\* Every block names its predecessor, and the tip is that of the last block.
HashesOK(c) ==
  /\ \A i \in 1 .. Len(c.blocks) :
       decode(c.blocks[i]).parent_hash = IF i = 1 THEN None ELSE block_hash(c.blocks[i - 1])
  /\ c.last_hash = IF Len(c.blocks) = 0 THEN None ELSE block_hash(c.blocks[Len(c.blocks)])
  /\ Len(c.blocks) > 0 => c.last_timestamp = decode(c.blocks[Len(c.blocks)]).timestamp

\* A block that is added as the code adds it names its predecessor.
LEMMA ExtendedHashes ==
  ASSUME NEW c, IsSequence(c.blocks), HashesOK(c), NEW tx, NEW t
  PROVE  HashesOK(Extended(c, tx, t))
<1> DEFINE d == Extended(c, tx, t)
           n == Len(c.blocks)
<1>1. /\ n \in Nat /\ Len(d.blocks) = n + 1
      /\ \A i \in 1 .. n : d.blocks[i] = c.blocks[i]
      /\ decode(d.blocks[n + 1]).timestamp = t /\ d.last_timestamp = t
  BY AddBlockFacts
<1>2. d.blocks = Append(c.blocks, encode(from_transaction(c.last_hash, tx, t)))
  BY DEF Extended, add_block
<1>3. d.blocks[n + 1] = encode(from_transaction(c.last_hash, tx, t))
  BY <1>2, AppendFacts
<1>4. decode(d.blocks[n + 1]).parent_hash = c.last_hash
  BY <1>3 DEF encode, decode, from_transaction
<1>5. d.last_hash = block_hash(d.blocks[n + 1])
  BY <1>3 DEF Extended, add_block
<1> HIDE DEF d, n
<1>6. ASSUME NEW i \in 1 .. n + 1
      PROVE  decode(d.blocks[i]).parent_hash = IF i = 1 THEN None ELSE block_hash(d.blocks[i - 1])
  <2>1. CASE i \in 1 .. n
    <3>1. i # 1 => i - 1 \in 1 .. n
      BY <1>1, <2>1
    <3> QED BY <1>1, <2>1, <3>1 DEF HashesOK, n
  <2>2. CASE i = n + 1
    <3>1. n # 0 => n \in 1 .. n /\ i - 1 = n /\ i # 1
      BY <1>1, <2>2
    <3>2. n = 0 => i = 1
      BY <2>2
    <3> QED BY <1>1, <1>4, <2>2, <3>1, <3>2 DEF HashesOK, n
  <2> QED BY <1>1, <2>1, <2>2
<1>7. n + 1 # 0 /\ n + 1 > 0
  BY <1>1
<1>8. HashesOK(d)
  BY <1>1, <1>5, <1>6, <1>7 DEF HashesOK
<1> QED BY <1>8 DEF d

\* The books that the blocks of c lead to, one after the other, from a new one...
ReplayRun(c, f) ==
  f = [n \in 0 .. Len(c.blocks) |->
         IF n = 0 THEN NewBook
                  ELSE Applied(f[n - 1], decode(c.blocks[n]).transaction.operation)]

\* ...and the last of them.
Replays(c, book) == \E f : ReplayRun(c, f) /\ f[Len(c.blocks)] = book

\* There is at most one such sequence of books.
LEMMA ReplayUnique ==
  ASSUME NEW c, Len(c.blocks) \in Nat, NEW f, NEW g, ReplayRun(c, f), ReplayRun(c, g)
  PROVE  f = g
<1> DEFINE L           == Len(c.blocks)
           After(b, n) == Applied(b, decode(c.blocks[n]).transaction.operation)
           Same        == {n \in 0 .. L : f[n] = g[n]}
<1>1. /\ f = [n \in 0 .. L |-> IF n = 0 THEN NewBook ELSE After(f[n - 1], n)]
      /\ g = [n \in 0 .. L |-> IF n = 0 THEN NewBook ELSE After(g[n - 1], n)]
      /\ L \in Nat
  BY DEF ReplayRun
<1> HIDE DEF L, After
<1>2. 0 \in Same
  BY <1>1
<1>3. ASSUME NEW n \in 0 .. L, n \in Same, n + 1 <= L PROVE n + 1 \in Same
  <2>1. n + 1 \in 0 .. L /\ n + 1 # 0 /\ n + 1 - 1 = n
    BY <1>1, <1>3
  <2>2. f[n + 1] = After(f[n], n + 1) /\ g[n + 1] = After(g[n], n + 1)
    <3>1. \A i \in 0 .. L : i # 0 => f[i] = After(f[i - 1], i) /\ g[i] = After(g[i - 1], i)
      BY <1>1
    <3> QED BY <2>1, <3>1
  <2> QED BY <1>3, <2>1, <2>2
<1>4. Same \in SUBSET (0 .. L)
  OBVIOUS
<1> HIDE DEF Same
<1>5. Same = 0 .. L
  BY <1>1, <1>2, <1>3, <1>4, UpToInduction
<1>6. \A n \in 0 .. L : f[n] = g[n]
  BY <1>5 DEF Same
<1>7. DOMAIN f = 0 .. L /\ DOMAIN g = 0 .. L
  BY <1>1
<1>8. f = [n \in 0 .. L |-> f[n]] /\ g = [n \in 0 .. L |-> g[n]]
  BY <1>1
<1> QED BY <1>6, <1>7, <1>8

\* With one block more, the chain accounts for the book after its operation.
LEMMA ExtendedReplays ==
  ASSUME NEW c, IsSequence(c.blocks), NEW book, Replays(c, book), NEW tx, NEW t
  PROVE  Replays(Extended(c, tx, t), Applied(book, tx.operation))
<1> DEFINE d == Extended(c, tx, t)
           n == Len(c.blocks)
           Op(e, i) == decode(e.blocks[i]).transaction.operation
<1>1. /\ n \in Nat /\ Len(d.blocks) = n + 1
      /\ \A i \in 1 .. n : d.blocks[i] = c.blocks[i]
      /\ decode(d.blocks[n + 1]).transaction = tx
  BY AddBlockFacts
<1>2. PICK f : ReplayRun(c, f) /\ f[n] = book
  BY DEF Replays
<1> DEFINE g == [i \in 0 .. n + 1 |-> IF i <= n THEN f[i] ELSE Applied(book, tx.operation)]
<1>3. \A i \in 0 .. n : f[i] = IF i = 0 THEN NewBook ELSE Applied(f[i - 1], Op(c, i))
  BY <1>2 DEF ReplayRun
<1>4. (\A i \in 1 .. n : Op(d, i) = Op(c, i)) /\ Op(d, n + 1) = tx.operation
  BY <1>1
<1> HIDE DEF d, n, Op
<1>5. ASSUME NEW i \in 0 .. n + 1
      PROVE  g[i] = IF i = 0 THEN NewBook ELSE Applied(g[i - 1], Op(d, i))
  <2>1. CASE i = 0
    BY <1>1, <1>3, <2>1
  <2>2. CASE i # 0 /\ i <= n
    <3>1. i \in 0 .. n /\ i \in 1 .. n /\ i - 1 \in 0 .. n + 1 /\ i - 1 <= n
      BY <1>1, <2>2
    <3>2. g[i] = f[i] /\ g[i - 1] = f[i - 1]
      BY <3>1
    <3> QED BY <1>3, <1>4, <2>2, <3>1, <3>2
  <2>3. CASE i = n + 1
    <3>1. n \in 0 .. n + 1 /\ n <= n /\ ~ (n + 1 <= n) /\ i - 1 = n /\ i # 0
      BY <1>1, <2>3
    <3>2. g[i] = Applied(book, tx.operation) /\ g[i - 1] = book
      BY <1>2, <2>3, <3>1
    <3> QED BY <1>4, <2>3, <3>1, <3>2
  <2> QED BY <1>1, <2>1, <2>2, <2>3
<1>6. g = [i \in 0 .. n + 1 |-> g[i]] /\ g[n + 1] = Applied(book, tx.operation)
  BY <1>1
<1> HIDE DEF g
<1>7. g = [i \in 0 .. n + 1 |-> IF i = 0 THEN NewBook ELSE Applied(g[i - 1], Op(d, i))]
  BY <1>5, <1>6
<1>8. ReplayRun(d, g)
  BY <1>1, <1>7 DEF ReplayRun, Op
<1>9. Replays(d, Applied(book, tx.operation))
  BY <1>1, <1>6, <1>8 DEF Replays
<1> QED BY <1>9 DEF d
-----------------------------------------------------------------------------
(* The books that occur, and what trimming does to one. *)

GoodBook(book) ==
  /\ book \in Book /\ Conserved(book)
  /\ HasNoZeroEntry(book.store) /\ HasOneEntryEach(book.store)

\* Such a book has finitely many entries.
LEMMA GoodBookFinite ==
  ASSUME NEW book, GoodBook(book)
  PROVE  IsFiniteSet(DOMAIN book.store) /\ Cardinality(DOMAIN book.store) \in Nat
<1>1. DOMAIN book.store \in SUBSET Account
  BY StoreFacts DEF GoodBook, Book
<1> QED BY <1>1, AccountAssumption, FS_Subset, FS_CardinalityType

\* Executing an operation on a good book gives a good book, without an overflow.
LEMMA AppliedGood ==
  ASSUME NEW book, GoodBook(book), NEW o \in Operation,
         ~ Refused(book, o), ~ SupplyExceeded(book, o)
  PROVE  GoodBook(Applied(book, o)) /\ ~ Overflows(book, o)
BY AppliedConserves, AppliedEntries DEF GoodBook

\* Burning all that an account holds is never refused and removes just its entry.
LEMMA BurnAll ==
  ASSUME NEW book, GoodBook(book), NEW a \in DOMAIN book.store
  PROVE  /\ BurnOp(a, book.store[a]) \in Burn
         /\ ~ Refused(book, BurnOp(a, book.store[a]))
         /\ ~ Overflows(book, BurnOp(a, book.store[a]))
         /\ GoodBook(burn(book, a, book.store[a]))
         /\ Applied(book, BurnOp(a, book.store[a])) = burn(book, a, book.store[a])
         /\ DOMAIN burn(book, a, book.store[a]).store = DOMAIN book.store \ {a}
         /\ \A x \in DOMAIN book.store \ {a} :
              burn(book, a, book.store[a]).store[x] = book.store[x]
<1> DEFINE store  == book.store
           amount == store[a]
           o      == BurnOp(a, amount)
<1>1. store \in Store /\ a \in Account /\ amount \in Token /\ MaxTokens \in Nat
  BY StoreFacts, MaxTokensAssumption DEF GoodBook, Book
<1>2. Slot(store, a) = a
  BY DEF Slot, SameAccount, GoodBook, HasOneEntryEach
<1>3. account_balance(store, a) = amount
  BY <1>2 DEF account_balance
<1>4. CanDebit(store, a, amount) /\ amount - amount = 0
  BY <1>1, <1>2, <1>3 DEF CanDebit, SubUnderflows, Token
<1>5. debit(store, a, amount) = update(store, a, 0)
  BY <1>3, <1>4 DEF debit
<1>6. /\ DOMAIN debit(store, a, amount) = DOMAIN store \ {a}
      /\ \A x \in DOMAIN store \ {a} : debit(store, a, amount)[x] = store[x]
  BY <1>2, <1>5 DEF update
<1>7. o \in Burn /\ o.op = "burn" /\ o.from = a /\ o.amount = amount
  BY <1>1 DEF BurnOp, Burn
<1>8. ~ Refused(book, o) /\ ~ SupplyExceeded(book, o)
  BY <1>4, <1>7 DEF Refused, SupplyExceeded
<1>9. Applied(book, o) = burn(book, a, amount)
  BY <1>7 DEF Applied
<1>10. burn(book, a, amount).store = debit(store, a, amount)
  BY DEF burn
<1> HIDE DEF o, amount, store
<1>11. GoodBook(burn(book, a, amount)) /\ ~ Overflows(book, o)
  BY <1>7, <1>8, <1>9, AppliedGood DEF Operation
<1> QED BY <1>6, <1>7, <1>8, <1>9, <1>10, <1>11 DEF o, amount, store
-----------------------------------------------------------------------------
(* The trimming loop. *)

\* The function that Trimmed recurses through.
TrimRun(book, chain, victims, t, run) ==
  run = [n \in 0 .. Len(victims) |->
           IF n = 0 THEN [balances |-> book, blockchain |-> chain, failed |-> FALSE]
                    ELSE TrimOne(run[n - 1], victims[n], book.store[victims[n]], t)]

\* Trimmed is the last state of that function.
LEMMA TrimmedIsRun ==
  ASSUME NEW book, NEW chain, NEW victims, NEW t
  PROVE  Trimmed(book, chain, victims, t)
           = (CHOOSE run : TrimRun(book, chain, victims, t, run))[Len(victims)]
BY DEF Trimmed, TrimRun

\* The loop terminates: such a function exists.
LEMMA TrimRunExists ==
  ASSUME NEW book, NEW chain, NEW victims, NEW t, Len(victims) \in Nat
  PROVE  \E run : TrimRun(book, chain, victims, t, run)
<1> DEFINE L == Len(victims)
           start == [balances |-> book, blockchain |-> chain, failed |-> FALSE]
           Turn(st, n) == TrimOne(st, victims[n], book.store[victims[n]], t)
           RunTo(m, g) == g = [n \in 0 .. m |-> IF n = 0 THEN start ELSE Turn(g[n - 1], n)]
           Good == {m \in 0 .. L : \E g : RunTo(m, g)}
<1>1. 0 \in Good
  <2> DEFINE h == [n \in 0 .. 0 |-> start]
  <2> HIDE DEF start, Turn
  <2>1. \A n \in 0 .. 0 : h[n] = IF n = 0 THEN start ELSE Turn(h[n - 1], n)
    OBVIOUS
  <2>2. RunTo(0, h)
    BY <2>1
  <2> HIDE DEF h, RunTo
  <2> QED BY <2>2
<1>2. ASSUME NEW m \in 0 .. L, m \in Good, m + 1 <= L PROVE m + 1 \in Good
  <2>1. PICK g : RunTo(m, g)
    BY <1>2
  <2> DEFINE h == [n \in 0 .. m + 1 |-> IF n <= m THEN g[n] ELSE Turn(g[m], m + 1)]
  <2> HIDE DEF start, Turn
  <2>2. ASSUME NEW n \in 0 .. m + 1
        PROVE  h[n] = IF n = 0 THEN start ELSE Turn(h[n - 1], n)
    <3>1. CASE n = 0
      BY <2>1, <3>1
    <3>2. CASE n # 0 /\ n <= m
      BY <2>1, <3>2
    <3>3. CASE n = m + 1
      BY <3>3
    <3> QED BY <3>1, <3>2, <3>3
  <2>3. RunTo(m + 1, h)
    BY <2>2
  <2> HIDE DEF h, RunTo
  <2> QED BY <2>3, <1>2
<1>3. Good = 0 .. L
  <2> HIDE DEF Good, L
  <2>1. Good \in SUBSET (0 .. L) /\ L \in Nat
    BY DEF Good, L
  <2> QED BY <1>1, <1>2, <2>1, UpToInduction
<1>4. \E g : RunTo(L, g)
  <2> HIDE DEF RunTo
  <2> QED BY <1>3
<1> QED BY <1>4 DEF TrimRun

\* The book after m turns of the loop: the first m victims and no others are gone.
TrimmedBook(left, m, book, victims) ==
  /\ GoodBook(left)
  /\ DOMAIN left.store = DOMAIN book.store \ {victims[i] : i \in 1 .. m}
  /\ Cardinality(DOMAIN left.store) + m = Cardinality(DOMAIN book.store)
  /\ \A a \in DOMAIN left.store : left.store[a] = book.store[a]

\* The chain d after m turns: what was written since are trimming burns of time t, each
\* of all that one of these victims held, and one for each of them.
TrimmedChain(d, m, book, chain, victims, t) ==
  /\ IsSequence(d.blocks)
  /\ Continues(d, chain)
  /\ Len(d.blocks) = Len(chain.blocks) + m
  /\ d.last_timestamp = t
  /\ \A i \in Len(chain.blocks) + 1 .. Len(d.blocks) :
       /\ decode(d.blocks[i]).transaction \in TrimBurns
       /\ decode(d.blocks[i]).timestamp = t
       /\ \E j \in 1 .. m : decode(d.blocks[i]).transaction
                            = TrimBurn(victims[j], book.store[victims[j]], t)
  /\ \A j \in 1 .. m : \E i \in Len(chain.blocks) + 1 .. Len(d.blocks) :
       decode(d.blocks[i]).transaction = TrimBurn(victims[j], book.store[victims[j]], t)

\* The state st of the loop after m turns.  If the chain was right before the loop, with
\* its hashes and as an account of the book, it still is.
TrimmedSoFar(st, m, book, chain, victims, t) ==
  /\ st.failed = FALSE
  /\ TrimmedBook(st.balances, m, book, victims)
  /\ TrimmedChain(st.blockchain, m, book, chain, victims, t)
  /\ HashesOK(chain) => HashesOK(st.blockchain)
  /\ Replays(chain, book) => Replays(st.blockchain, st.balances)

\* One turn of the loop: the next victim's entry is all there, so its burn succeeds.
LEMMA TrimOneFacts ==
  ASSUME NEW book, NEW chain, NEW victims, NEW t \in TimeStamp, NEW st, NEW m \in Nat,
         Len(chain.blocks) \in Nat, GoodBook(book),
         victims[m + 1] \in DOMAIN book.store,
         \A i \in 1 .. m : victims[i] # victims[m + 1],
         TrimmedSoFar(st, m, book, chain, victims, t)
  PROVE  TrimmedSoFar(TrimOne(st, victims[m + 1], book.store[victims[m + 1]], t), m + 1,
                      book, chain, victims, t)
<1> DEFINE a      == victims[m + 1]
           amount == book.store[a]
           next   == TrimOne(st, a, amount, t)
           grown  == Extended(st.blockchain, TrimBurn(a, amount, t), t)
<1>0. /\ IsSequence(st.blockchain.blocks)
      /\ HashesOK(chain) => HashesOK(st.blockchain)
      /\ Replays(chain, book) => Replays(st.blockchain, st.balances)
  BY DEF TrimmedSoFar, TrimmedChain
<1>1. a \in DOMAIN st.balances.store /\ st.balances.store[a] = amount /\ GoodBook(st.balances)
  BY DEF TrimmedSoFar, TrimmedBook
<1>2. /\ BurnOp(a, amount) \in Burn
      /\ ~ Refused(st.balances, BurnOp(a, amount))
      /\ ~ Overflows(st.balances, BurnOp(a, amount))
      /\ GoodBook(burn(st.balances, a, amount))
      /\ Applied(st.balances, BurnOp(a, amount)) = burn(st.balances, a, amount)
      /\ DOMAIN burn(st.balances, a, amount).store = DOMAIN st.balances.store \ {a}
      /\ \A x \in DOMAIN st.balances.store \ {a} :
           burn(st.balances, a, amount).store[x] = st.balances.store[x]
  BY <1>1, BurnAll
<1>3. TrimBurn(a, amount, t) \in TrimBurns
  BY <1>2 DEF TrimBurn, TrimBurns, TransactionOf
<1> HIDE DEF amount, next, grown
<1>4. /\ next.balances = burn(st.balances, a, amount)
      /\ next.blockchain = grown
      /\ next.failed = (\/ st.failed
                         \/ Refused(st.balances, BurnOp(a, amount))
                         \/ Overflows(st.balances, BurnOp(a, amount))
                         \/ t < st.blockchain.last_timestamp)
  BY DEF next, TrimOne, grown
<1>5. next.failed = FALSE
  <2>1. st.failed = FALSE /\ ~ (t < st.blockchain.last_timestamp)
    BY DEF TrimmedSoFar, TrimmedChain, TimeStamp
  <2> QED BY <2>1, <1>2, <1>4
<1>6. /\ GoodBook(next.balances)
      /\ DOMAIN next.balances.store = DOMAIN book.store \ {victims[i] : i \in 1 .. m + 1}
      /\ \A x \in DOMAIN next.balances.store : next.balances.store[x] = book.store[x]
  <2>1. {victims[i] : i \in 1 .. m + 1} = {victims[i] : i \in 1 .. m} \cup {a}
    OBVIOUS
  <2> QED BY <2>1, <1>2, <1>4 DEF TrimmedSoFar, TrimmedBook
<1>7. /\ IsSequence(grown.blocks)
      /\ Len(st.blockchain.blocks) \in Nat
      /\ Len(grown.blocks) = Len(st.blockchain.blocks) + 1
      /\ \A i \in 1 .. Len(st.blockchain.blocks) : grown.blocks[i] = st.blockchain.blocks[i]
      /\ decode(grown.blocks[Len(st.blockchain.blocks) + 1]).transaction = TrimBurn(a, amount, t)
      /\ decode(grown.blocks[Len(st.blockchain.blocks) + 1]).timestamp = t
      /\ grown.last_timestamp = t
  BY <1>0, AddBlockFacts DEF grown
<1>8. Continues(grown, chain)
  BY <1>7 DEF Continues, TrimmedSoFar, TrimmedChain
<1>9. \A i \in Len(chain.blocks) + 1 .. Len(grown.blocks) :
        /\ decode(grown.blocks[i]).transaction \in TrimBurns
        /\ decode(grown.blocks[i]).timestamp = t
        /\ \E j \in 1 .. m + 1 : decode(grown.blocks[i]).transaction
                                 = TrimBurn(victims[j], book.store[victims[j]], t)
  <2> DEFINE blocks == st.blockchain.blocks
             Burnt(b, k) == /\ decode(b).transaction \in TrimBurns /\ decode(b).timestamp = t
                            /\ \E j \in 1 .. k : decode(b).transaction
                                                  = TrimBurn(victims[j], book.store[victims[j]], t)
  <2>1. \A i \in Len(chain.blocks) + 1 .. Len(blocks) : Burnt(blocks[i], m)
    BY DEF TrimmedSoFar, TrimmedChain
  <2>2. /\ Len(blocks) \in Nat /\ Len(grown.blocks) = Len(blocks) + 1
        /\ \A i \in 1 .. Len(blocks) : grown.blocks[i] = blocks[i]
    BY <1>7
  <2>3. Burnt(grown.blocks[Len(blocks) + 1], m + 1)
    BY <1>3, <1>7 DEF amount
  <2>4. \A b : Burnt(b, m) => Burnt(b, m + 1)
    OBVIOUS
  <2> HIDE DEF blocks, Burnt
  <2>5. \A i \in Len(chain.blocks) + 1 .. Len(grown.blocks) : Burnt(grown.blocks[i], m + 1)
    BY <2>1, <2>2, <2>3, <2>4
  <2> QED BY <2>5 DEF Burnt
<1>10. HashesOK(chain) => HashesOK(next.blockchain)
  BY <1>0, <1>4, ExtendedHashes DEF grown
<1>11. Replays(chain, book) => Replays(next.blockchain, next.balances)
  <2>1. TrimBurn(a, amount, t).operation = BurnOp(a, amount)
    BY DEF TrimBurn
  <2>2. Replays(chain, book) =>
          Replays(grown, Applied(st.balances, TrimBurn(a, amount, t).operation))
    BY <1>0, ExtendedReplays DEF grown
  <2> QED BY <1>2, <1>4, <2>1, <2>2
<1>12. Cardinality(DOMAIN next.balances.store) + (m + 1) = Cardinality(DOMAIN book.store)
  <2>1. IsFiniteSet(DOMAIN st.balances.store)
    BY <1>1, GoodBookFinite
  <2>2. /\ Cardinality(DOMAIN st.balances.store) \in Nat
        /\ Cardinality(DOMAIN next.balances.store) = Cardinality(DOMAIN st.balances.store) - 1
    BY <1>1, <1>2, <1>4, <2>1, FS_CardinalityType, FS_RemoveElement
  <2>3. Cardinality(DOMAIN st.balances.store) + m = Cardinality(DOMAIN book.store)
    BY DEF TrimmedSoFar, TrimmedBook
  <2> QED BY <2>2, <2>3
<1>13. \A j \in 1 .. m + 1 : \E i \in Len(chain.blocks) + 1 .. Len(grown.blocks) :
         decode(grown.blocks[i]).transaction = TrimBurn(victims[j], book.store[victims[j]], t)
  <2> DEFINE blocks == st.blockchain.blocks
             For(b, j) == decode(b).transaction = TrimBurn(victims[j], book.store[victims[j]], t)
  <2>1. \A j \in 1 .. m : \E i \in Len(chain.blocks) + 1 .. Len(blocks) : For(blocks[i], j)
    BY DEF TrimmedSoFar, TrimmedChain
  <2>2. /\ Len(blocks) \in Nat /\ Len(grown.blocks) = Len(blocks) + 1
        /\ Len(chain.blocks) <= Len(blocks)
        /\ \A i \in 1 .. Len(blocks) : grown.blocks[i] = blocks[i]
    BY <1>7 DEF TrimmedSoFar, TrimmedChain, Continues
  <2>3. For(grown.blocks[Len(blocks) + 1], m + 1)
    BY <1>7 DEF amount
  <2>4. \A j \in 1 .. m + 1 : j \in 1 .. m \/ j = m + 1
    OBVIOUS
  <2> HIDE DEF blocks, For
  <2>5. ASSUME NEW j \in 1 .. m
        PROVE  \E i \in Len(chain.blocks) + 1 .. Len(grown.blocks) : For(grown.blocks[i], j)
    <3>1. PICK i \in Len(chain.blocks) + 1 .. Len(blocks) : For(blocks[i], j)
      BY <2>1
    <3>2. i \in Len(chain.blocks) + 1 .. Len(grown.blocks) /\ grown.blocks[i] = blocks[i]
      BY <2>2, <3>1
    <3> QED BY <3>1, <3>2
  <2>6. Len(blocks) + 1 \in Len(chain.blocks) + 1 .. Len(grown.blocks)
    BY <2>2
  <2>7. \A j \in 1 .. m + 1 :
          \E i \in Len(chain.blocks) + 1 .. Len(grown.blocks) : For(grown.blocks[i], j)
    BY <2>3, <2>4, <2>5, <2>6
  <2> QED BY <2>7 DEF For
<1>14. TrimmedBook(next.balances, m + 1, book, victims)
  BY <1>6, <1>12 DEF TrimmedBook
<1>15. TrimmedChain(next.blockchain, m + 1, book, chain, victims, t)
  <2>1. Len(grown.blocks) = Len(chain.blocks) + (m + 1)
    <3>1. Len(st.blockchain.blocks) = Len(chain.blocks) + m
      BY DEF TrimmedSoFar, TrimmedChain
    <3> QED BY <1>7, <3>1
  <2> QED BY <1>4, <1>7, <1>8, <1>9, <1>13, <2>1 DEF TrimmedChain
<1>16. TrimmedSoFar(next, m + 1, book, chain, victims, t)
  BY <1>5, <1>10, <1>11, <1>14, <1>15 DEF TrimmedSoFar
<1> QED BY <1>16 DEF next, amount

\* What is selected: nothing, or different accounts that are in the map.
LEMMA ToTrimFacts ==
  ASSUME NEW store \in Store, NEW victims \in ToTrim(store)
  PROVE  /\ Len(victims) \in Nat
         /\ \A i \in 1 .. Len(victims) : victims[i] \in DOMAIN store
         /\ \A i, j \in 1 .. Len(victims) : victims[i] = victims[j] => i = j
<1>1. CASE victims = << >>
  BY <1>1
<1>2. CASE victims \in select_accounts_to_trim(store)
  <2> DEFINE n == NumberToTrim(store)
  <2>1. n \in Nat
    <3>1. IsFiniteSet(DOMAIN store)
      BY StoreFacts, AccountAssumption, FS_Subset
    <3>2. Cardinality(DOMAIN store) \in Nat /\ AccountsOverflowTrimQuantity \in Nat
      BY <3>1, FS_CardinalityType, TrimQuantityAssumption
    <3> QED BY <3>2 DEF NumberToTrim, Min
  <2>2. victims \in [1 .. n -> DOMAIN store] /\ IsInjective(victims)
    BY <1>2 DEF select_accounts_to_trim
  <2> HIDE DEF n
  <2>3. victims \in Seq(DOMAIN store)
    BY <2>1, <2>2, SeqDef
  <2>4. Len(victims) \in Nat /\ DOMAIN victims = 1 .. Len(victims)
    BY <2>3, LenProperties
  <2> QED BY <2>2, <2>3, <2>4, ElementOfSeq DEF IsInjective
<1> QED BY <1>1, <1>2 DEF ToTrim

\* How many are selected, and that nobody poorer is left.
LEMMA ToTrimCount ==
  ASSUME NEW book, GoodBook(book), NEW victims \in ToTrim(book.store)
  PROVE  /\ MustTrim(book.store) =>
              /\ Len(victims) = AccountsOverflowTrimQuantity
              /\ \A i \in 1 .. Len(victims) :
                   \A a \in DOMAIN book.store \ {victims[j] : j \in 1 .. Len(victims)} :
                     book.store[victims[i]] <= book.store[a]
         /\ ~ MustTrim(book.store) => Len(victims) = 0
<1> DEFINE store == book.store
           n     == NumberToTrim(store)
           q     == AccountsOverflowTrimQuantity
<1>1. CASE MustTrim(store)
  <2>1. n = q
    <3>1. q \in Nat /\ Cardinality(DOMAIN store) \in Nat /\ MaxNumberOfAccounts \in Nat
      BY GoodBookFinite, TrimQuantityAssumption, LimitsAssumption
    <3>2. q <= Cardinality(DOMAIN store)
      BY <1>1, <3>1 DEF MustTrim
    <3> DEFINE S == {q, Cardinality(DOMAIN store)}
    <3>3. q \in S /\ \A x \in S : q <= x
      BY <3>1, <3>2
    <3>4. \A x \in S : (\A y \in S : x <= y) => x = q
      BY <3>1, <3>2
    <3>5. n = CHOOSE x \in S : \A y \in S : x <= y
      BY DEF NumberToTrim, Min
    <3> HIDE DEF S, n
    <3> QED BY <3>3, <3>4, <3>5
  <2>2. victims \in [1 .. n -> DOMAIN store] /\ Poorest(store, Range(victims))
    BY <1>1 DEF ToTrim, select_accounts_to_trim
  <2> HIDE DEF n
  <2>3. q \in Nat /\ victims \in Seq(DOMAIN store)
    BY <2>1, <2>2, TrimQuantityAssumption, SeqDef
  <2>4. Len(victims) = q /\ DOMAIN victims = 1 .. q
    BY <2>1, <2>2, <2>3, LenProperties
  <2>5. Range(victims) = {victims[j] : j \in 1 .. Len(victims)}
    BY <2>4 DEF Range
  <2> QED BY <1>1, <2>2, <2>4, <2>5 DEF Poorest
<1>2. CASE ~ MustTrim(store)
  BY <1>2 DEF ToTrim
<1> QED BY <1>1, <1>2

\* The trimming that follows a payment: no burn in it fails, the book stays good,
\* and it only adds trimming burns to the chain, with the time of the message.
THEOREM TrimmedFacts ==
  ASSUME NEW book, GoodBook(book), NEW chain, IsSequence(chain.blocks),
         NEW t \in TimeStamp, chain.last_timestamp = t,
         NEW victims \in ToTrim(book.store)
  PROVE  TrimmedSoFar(Trimmed(book, chain, victims, t), Len(victims), book, chain, victims, t)
<1> DEFINE L == Len(victims)
           Good(run) == {m \in 0 .. L : TrimmedSoFar(run[m], m, book, chain, victims, t)}
<1>1. /\ L \in Nat
      /\ \A i \in 1 .. L : victims[i] \in DOMAIN book.store
      /\ \A i, j \in 1 .. L : victims[i] = victims[j] => i = j
  BY ToTrimFacts DEF GoodBook, Book
<1>2. Len(chain.blocks) \in Nat
  BY AppendFacts
<1>3. PICK run : TrimRun(book, chain, victims, t, run)
                 /\ Trimmed(book, chain, victims, t) = run[L]
  BY <1>1, TrimRunExists, TrimmedIsRun
<1>4. 0 \in Good(run)
  <2>1. run[0] = [balances |-> book, blockchain |-> chain, failed |-> FALSE]
    BY <1>1, <1>3 DEF TrimRun
  <2>2. /\ Continues(chain, chain)
        /\ \A i : i \notin Len(chain.blocks) + 1 .. Len(chain.blocks)
    BY <1>2 DEF Continues
  <2>3. /\ Cardinality(DOMAIN book.store) + 0 = Cardinality(DOMAIN book.store)
        /\ DOMAIN book.store = DOMAIN book.store \ {victims[i] : i \in 1 .. 0}
    BY GoodBookFinite
  <2>4. /\ run[0].balances = book /\ run[0].blockchain = chain /\ run[0].failed = FALSE
    BY <2>1
  <2>5. TrimmedSoFar(run[0], 0, book, chain, victims, t)
    BY <2>2, <2>3, <2>4 DEF TrimmedSoFar, TrimmedBook, TrimmedChain
  <2> QED BY <1>1, <2>5
<1>5. ASSUME NEW m \in 0 .. L, m \in Good(run), m + 1 <= L PROVE m + 1 \in Good(run)
  <2>1. m \in Nat /\ m + 1 \in 1 .. L /\ m + 1 \in 0 .. L
    BY <1>1, <1>5
  <2>2. run[m + 1] = TrimOne(run[m], victims[m + 1], book.store[victims[m + 1]], t)
    <3>1. \A n \in 0 .. L :
            n # 0 => run[n] = TrimOne(run[n - 1], victims[n], book.store[victims[n]], t)
      BY <1>3 DEF TrimRun
    <3>2. m + 1 # 0 /\ (m + 1) - 1 = m
      BY <2>1
    <3> QED BY <2>1, <3>1, <3>2
  <2>3. /\ victims[m + 1] \in DOMAIN book.store
        /\ \A i \in 1 .. m : victims[i] # victims[m + 1]
    BY <1>1, <2>1
  <2>4. TrimmedSoFar(run[m + 1], m + 1, book, chain, victims, t)
    BY <1>2, <1>5, <2>1, <2>2, <2>3, TrimOneFacts
  <2> QED BY <2>1, <2>4
<1>6. Good(run) = 0 .. L
  <2>1. Good(run) \in SUBSET (0 .. L)
    OBVIOUS
  <2> HIDE DEF Good, L
  <2> QED BY <1>1, <1>4, <1>5, <2>1, UpToInduction
<1> QED BY <1>1, <1>3, <1>6
=============================================================================
