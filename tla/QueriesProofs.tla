--------------------------- MODULE QueriesProofs ---------------------------
(***************************************************************************)
(* Theorems on the queries, for all widths and page sizes: a range that    *)
(* is there is answered with what was asked for, and the auditor, who      *)
(* reads the chain page by page while it grows, is never refused and ends  *)
(* with the balances of the ledger.                                        *)
(***************************************************************************)
EXTENDS Queries, LedgerProofs

\* The auditor is not ahead of what he was told, nor that of the chain; the chain has
\* not outgrown the bound; and his book is the one that the blocks he has seen lead to.
AuditOK(c, s, t, book, fails) ==
  /\ s \in Nat /\ t \in Nat /\ s <= t /\ t <= Len(c.blocks)
  /\ Len(c.blocks) <= MaxBlocks + AccountsOverflowTrimQuantity
  /\ fails = FALSE
  /\ \E f : ReplayRun(c, f) /\ f[s] = book

AuditInv == AuditOK(blockchain, seen, told, audited, failed)

QueryInv == Inv /\ ChainInv /\ AuditInv
-----------------------------------------------------------------------------
(* The widths. *)

\* A number that fits is not changed by its width.
LEMMA ModuloFacts ==
  ASSUME NEW m \in Nat \ {0}, NEW n \in 0 .. m - 1
  PROVE  n % m = n
OBVIOUS

LEMMA WidthFacts ==
  /\ Usize \in Nat \ {0} /\ U64 \in Nat \ {0} /\ Usize < U64
  /\ PageSize \in Nat /\ PageSize >= 1
  /\ MaxBlocks + AccountsOverflowTrimQuantity \in Nat
  /\ MaxBlocks + AccountsOverflowTrimQuantity < Usize
BY WidthAssumption, LimitsAssumption, TrimQuantityAssumption

\* A range that fits a usize is taken for what it is.
LEMMA RangeFacts ==
  ASSUME NEW start \in Nat, NEW length \in Nat, start + length < Usize
  PROVE  /\ ~ IsTooLarge(start, length)
         /\ first(start) = start
         /\ end(start, length) = start + length
<1>1. start \in 0 .. Usize - 1 /\ length \in 0 .. Usize - 1
      /\ start + length \in 0 .. Usize - 1 /\ start + length \in 0 .. U64 - 1
      /\ start < U64 /\ length < U64
  BY WidthFacts
<1>2. start % Usize = start /\ length % Usize = length /\ (start + length) % Usize = start + length
  BY <1>1, WidthFacts, ModuloFacts
<1>3. (start + length) % U64 = start + length
  BY <1>1, WidthFacts, ModuloFacts
<1>4. ~ IsTooLarge(start, length)
  BY <1>1, WidthFacts DEF IsTooLarge
<1>5. first(start) = start
  BY <1>2 DEF first, as_usize
<1>6. end(start, length) = start + length
  BY <1>2, <1>3 DEF end, as_usize
<1> QED BY <1>4, <1>5, <1>6

\* So its query traps exactly when it reaches beyond the chain...
LEMMA TrapFacts ==
  ASSUME NEW start \in Nat, NEW length \in Nat, start + length < Usize, chain_length \in Nat
  PROVE  Traps(start, length) <=> start + length > chain_length
BY RangeFacts DEF Traps, SliceFails

\* ...and is answered with its blocks.
LEMMA AnswerFacts ==
  ASSUME NEW start \in Nat, NEW length \in Nat, start + length < Usize
  PROVE  LET txs == get_transactions(start, length).transactions
         IN  /\ txs = [i \in 1 .. length |-> Shown(BlockAt(start + i - 1))]
             /\ Len(txs) = length
<1> DEFINE txs  == get_transactions(start, length).transactions
           page == [i \in 1 .. length |-> Shown(BlockAt(start + i - 1))]
<1>1. first(start) = start /\ end(start, length) - first(start) = length
  BY RangeFacts
<1>2. txs = page
  BY <1>1 DEF get_transactions
<1> DEFINE S == {Shown(BlockAt(start + i - 1)) : i \in 1 .. length}
<1>3. page \in [1 .. length -> S]
  OBVIOUS
<1> HIDE DEF page, S
<1>4. page \in Seq(S)
  BY <1>3, SeqDef
<1>5. Len(page) = length
  BY <1>3, <1>4, LenProperties
<1> QED BY <1>2, <1>5 DEF page

\* What is answered is what was asked: as many blocks, and those.
LEMMA QueryInvAnswers == QueryInv => AnswersTheRange
<1> SUFFICES ASSUME QueryInv, NEW start \in 0 .. Usize - 1, NEW length \in 0 .. Usize - 1,
                    start + length < Usize
             PROVE  /\ ~Traps(start, length) <=> start + length <= chain_length
                    /\ LET txs == get_transactions(start, length).transactions
                       IN  /\ Len(txs) = length
                           /\ \A i \in 1 .. length :
                                txs[i].timestamp = BlockAt(start + i - 1).timestamp
                                /\ txs[i].body = TxAt(start + i - 1).operation
  BY DEF AnswersTheRange
<1>1. start \in Nat /\ length \in Nat /\ chain_length \in Nat
  BY AppendFacts DEF QueryInv, Inv, ChainOK, chain_length
<1>2. ~Traps(start, length) <=> start + length <= chain_length
  BY <1>1, TrapFacts
<1> DEFINE txs == get_transactions(start, length).transactions
<1>3. /\ txs = [i \in 1 .. length |-> Shown(BlockAt(start + i - 1))]
      /\ Len(txs) = length
  BY <1>1, AnswerFacts
<1> HIDE DEF txs
<1>4. \A i \in 1 .. length : txs[i] = Shown(BlockAt(start + i - 1))
  BY <1>3
<1>5. \A b : Shown(b).timestamp = b.timestamp /\ Shown(b).body = b.transaction.operation
  BY DEF Shown
<1> QED BY <1>2, <1>3, <1>4, <1>5 DEF txs, TxAt
-----------------------------------------------------------------------------
(* The books of the auditor. *)

\* A chain that continues another leads to the same books as far as that goes.
LEMMA SameBooks ==
  ASSUME NEW c, NEW d, Len(c.blocks) \in Nat, Len(d.blocks) \in Nat, Continues(d, c),
         NEW f, NEW g, ReplayRun(c, f), ReplayRun(d, g)
  PROVE  \A n \in 0 .. Len(c.blocks) : f[n] = g[n]
<1> DEFINE L    == Len(c.blocks)
           M    == Len(d.blocks)
           After(b, e) == Applied(b, decode(e).transaction.operation)
           Same == {n \in 0 .. L : f[n] = g[n]}
<1>1. /\ f = [n \in 0 .. L |-> IF n = 0 THEN NewBook ELSE After(f[n - 1], c.blocks[n])]
      /\ g = [n \in 0 .. M |-> IF n = 0 THEN NewBook ELSE After(g[n - 1], d.blocks[n])]
  BY DEF ReplayRun
<1>2. /\ L \in Nat /\ M \in Nat /\ L <= M
      /\ \A n \in 1 .. L : d.blocks[n] = c.blocks[n]
  BY DEF Continues
<1> HIDE DEF L, M, After
<1>3. 0 \in Same
  BY <1>1, <1>2
<1>4. ASSUME NEW n \in 0 .. L, n \in Same, n + 1 <= L PROVE n + 1 \in Same
  <2>1. /\ n + 1 \in 0 .. L /\ n + 1 \in 0 .. M /\ n + 1 \in 1 .. L
        /\ n + 1 # 0 /\ (n + 1) - 1 = n
    BY <1>2, <1>4
  <2>2. f[n + 1] = After(f[n], c.blocks[n + 1]) /\ g[n + 1] = After(g[n], d.blocks[n + 1])
    <3>1. /\ \A i \in 0 .. L : i # 0 => f[i] = After(f[i - 1], c.blocks[i])
          /\ \A i \in 0 .. M : i # 0 => g[i] = After(g[i - 1], d.blocks[i])
      BY <1>1
    <3> QED BY <2>1, <3>1
  <2> QED BY <1>2, <1>4, <2>1, <2>2
<1>5. Same \in SUBSET (0 .. L)
  OBVIOUS
<1> HIDE DEF Same
<1>6. Same = 0 .. L
  BY <1>2, <1>3, <1>4, <1>5, UpToInduction
<1> QED BY <1>6 DEF Same, L

\* page shows l blocks of the chain c from height s on.
Shows(page, c, s, l) ==
  Len(page) = l /\ \A i \in 1 .. l : page[i].body = decode(c.blocks[s + i]).transaction.operation

\* From the book after s blocks, a page of the chain leads to the book after its last.
LEMMA PageReplayed ==
  ASSUME NEW c, NEW f, ReplayRun(c, f), Len(c.blocks) \in Nat,
         NEW s \in Nat, NEW l \in Nat, s + l <= Len(c.blocks), NEW page, Shows(page, c, s, l)
  PROVE  Replay(f[s], page) = f[s + l]
<1> DEFINE R(g) == g = [n \in 0 .. l |-> IF n = 0 THEN f[s] ELSE Applied(g[n - 1], page[n].body)]
           h    == [n \in 0 .. l |-> f[s + n]]
           k    == CHOOSE g : R(g)
           Op(i) == decode(c.blocks[i]).transaction.operation
           Same == {n \in 0 .. l : k[n] = h[n]}
<1>1. Len(page) = l /\ \A i \in 1 .. l : page[i].body = Op(s + i)
  BY DEF Shows
<1>2. Replay(f[s], page) = k[l]
  BY <1>1 DEF Replay
<1> DEFINE L == Len(c.blocks)
<1>3. \A n \in 0 .. L : n # 0 => f[n] = Applied(f[n - 1], Op(n))
  BY DEF ReplayRun
<1> HIDE DEF Op, L
<1>4. ASSUME NEW n \in 0 .. l
      PROVE  h[n] = IF n = 0 THEN f[s] ELSE Applied(h[n - 1], page[n].body)
  <2>1. CASE n = 0
    BY <2>1
  <2>2. CASE n # 0
    <3>1. /\ s + n \in 0 .. L /\ s + n # 0 /\ (s + n) - 1 = s + (n - 1)
          /\ n \in 1 .. l /\ n - 1 \in 0 .. l
      BY <2>2 DEF L
    <3>2. h[n] = f[s + n] /\ h[n - 1] = f[s + (n - 1)]
      BY <3>1
    <3> QED BY <1>1, <1>3, <2>2, <3>1, <3>2
  <2> QED BY <2>1, <2>2
<1>5. h = [n \in 0 .. l |-> h[n]] /\ h[l] = f[s + l]
  OBVIOUS
<1> HIDE DEF h
<1>6. R(h)
  BY <1>4, <1>5
<1>7. R(k)
  <2> HIDE DEF R
  <2>1. R(CHOOSE g : R(g))
    BY <1>6
  <2> QED BY <2>1 DEF k
<1> HIDE DEF k
<1>8. 0 \in Same
  BY <1>6, <1>7
<1>9. ASSUME NEW n \in 0 .. l, n \in Same, n + 1 <= l PROVE n + 1 \in Same
  <2>1. n + 1 \in 0 .. l /\ n + 1 # 0 /\ (n + 1) - 1 = n
    BY <1>9
  <2>2. \A i \in 0 .. l : i # 0 => /\ k[i] = Applied(k[i - 1], page[i].body)
                                  /\ h[i] = Applied(h[i - 1], page[i].body)
    BY <1>6, <1>7
  <2> QED BY <1>9, <2>1, <2>2
<1>10. Same \in SUBSET (0 .. l)
  OBVIOUS
<1> HIDE DEF Same
<1>11. Same = 0 .. l
  BY <1>8, <1>9, <1>10, UpToInduction
<1>12. l \in Same
  BY <1>11
<1> QED BY <1>2, <1>5, <1>12 DEF Same
-----------------------------------------------------------------------------
(* The invariant. *)

\* A step of the ledger only appends to the chain, and not beyond the bound.
LEMMA ChainContinues ==
  ASSUME Inv, [Next]_vars
  PROVE  /\ Len(blockchain.blocks) \in Nat /\ Len(blockchain'.blocks) \in Nat
         /\ Continues(blockchain', blockchain)
         /\ \/ blockchain' = blockchain
            \/ Len(blockchain'.blocks) <= MaxBlocks + AccountsOverflowTrimQuantity
<1>1. Len(blockchain.blocks) \in Nat
  BY AppendFacts DEF Inv, ChainOK
<1>2. CASE \A tx \in Transaction : ~ Accepted(tx)
  <2>1. blockchain' = blockchain
    BY <1>2, OthersKeepBook
  <2> QED BY <1>1, <2>1 DEF Continues
<1>3. ASSUME NEW tx \in Transaction, Accepted(tx)
      PROVE  /\ Len(blockchain'.blocks) \in Nat
             /\ Continues(blockchain', blockchain)
             /\ Len(blockchain'.blocks) <= MaxBlocks + AccountsOverflowTrimQuantity
  <2> DEFINE n == Len(blockchain.blocks)
             d == PaidChain(tx)
  <2>1. PICK victims \in ToTrim(PaidBook(tx).store), st \in TrimmedStates(tx) :
          /\ blockchain' = st.blockchain
          /\ TrimmedSoFar(st, Len(victims), PaidBook(tx), d, victims, now)
    BY <1>3, AcceptedTrims
  <2>2. /\ Len(d.blocks) = n + 1
        /\ \A i \in 1 .. n : d.blocks[i] = blockchain.blocks[i]
    BY AddBlockFacts DEF PaidChain, Inv, ChainOK
  <2>3. /\ IsSequence(blockchain'.blocks) /\ Continues(blockchain', d)
        /\ Len(blockchain'.blocks) = Len(d.blocks) + Len(victims)
    BY <2>1 DEF TrimmedSoFar, TrimmedChain
  <2>4. Len(blockchain'.blocks) \in Nat
    BY <2>3, AppendFacts
  <2>5. Len(victims) \in Nat /\ Len(victims) <= AccountsOverflowTrimQuantity
    BY <1>3, AcceptedTrims, ToTrimCount, TrimQuantityAssumption
  <2>6. n < MaxBlocks
    BY <1>3 DEF Accepted, chain_length
  <2> HIDE DEF n, d
  <2>7. Continues(blockchain', blockchain)
    BY <1>1, <2>2, <2>3, <2>4 DEF Continues, n
  <2> QED BY <1>1, <2>2, <2>3, <2>4, <2>5, <2>6, <2>7, LimitsAssumption, TrimQuantityAssumption DEF n
<1> QED BY <1>1, <1>2, <1>3

LEMMA AuditInvInit == QueryInit => AuditInv
<1> SUFFICES ASSUME QueryInit PROVE AuditInv
  OBVIOUS
<1>1. /\ blockchain.blocks = << >> /\ balances = NewBook
      /\ seen = 0 /\ told = 0 /\ audited = NewBook /\ failed = FALSE
  BY DEF QueryInit, Init, NewChain, AuditInit
<1>2. Len(blockchain.blocks) = 0
  BY <1>1
<1>3. ChainInv
  BY ChainInvInit DEF QueryInit
<1>4. PICK f : ReplayRun(blockchain, f) /\ f[0] = NewBook
  BY <1>1, <1>2, <1>3 DEF ChainInv, Replays
<1> QED BY <1>1, <1>2, <1>4, WidthFacts DEF AuditInv, AuditOK

\* A message changes nothing of what the auditor has read.
LEMMA AuditInvMessage ==
  ASSUME QueryInv, [Next]_vars, UNCHANGED audit
  PROVE  AuditInv'
<1> DEFINE n == Len(blockchain.blocks)
           m == Len(blockchain'.blocks)
           bound == MaxBlocks + AccountsOverflowTrimQuantity
<1>1. seen' = seen /\ told' = told /\ audited' = audited /\ failed' = failed
  BY DEF audit
<1>2. /\ seen \in Nat /\ told \in Nat /\ seen <= told /\ told <= n /\ n <= bound
      /\ failed = FALSE
  BY DEF QueryInv, AuditInv, AuditOK
<1>3. n \in Nat /\ m \in Nat /\ Continues(blockchain', blockchain)
      /\ (blockchain' = blockchain \/ m <= bound)
  BY ChainContinues DEF QueryInv
<1>4. n <= m /\ (blockchain' = blockchain => m = n)
  BY <1>3 DEF Continues
<1>5. PICK f : ReplayRun(blockchain, f) /\ f[seen] = audited
  BY DEF QueryInv, AuditInv, AuditOK
<1>6. PICK g : ReplayRun(blockchain', g)
  <2>1. ChainInv'
    BY ChainInvNext DEF QueryInv
  <2> QED BY <2>1 DEF ChainInv, Replays
<1>7. g[seen] = audited
  <2>1. seen \in 0 .. n
    BY <1>2, <1>3
  <2> QED BY <1>3, <1>5, <1>6, <2>1, SameBooks
<1> HIDE DEF n, m, bound
<1>8. /\ told <= m /\ m <= bound
  BY <1>2, <1>3, <1>4, WidthFacts DEF bound
<1> QED BY <1>1, <1>2, <1>6, <1>7, <1>8 DEF AuditInv, AuditOK, m, bound

\* How much is asked for is there.
LEMMA NextLengthFacts ==
  ASSUME QueryInv
  PROVE  /\ NextLength \in Nat
         /\ seen + NextLength <= told
<1>1. seen \in Nat /\ told \in Nat /\ seen <= told
  BY DEF QueryInv, AuditInv, AuditOK
<1>2. told - seen \in Nat /\ PageSize \in Nat
  BY <1>1, WidthFacts
<1> DEFINE S == {PageSize, told - seen}
<1>3. NextLength = CHOOSE x \in S : \A y \in S : x <= y
  BY DEF NextLength, Min
<1>4. \E x \in S : \A y \in S : x <= y
  BY <1>2
<1> HIDE DEF NextLength
<1>5. NextLength \in S /\ \A y \in S : NextLength <= y
  <2> HIDE DEF S
  <2> QED BY <1>3, <1>4
<1>6. NextLength \in Nat /\ NextLength <= told - seen
  BY <1>2, <1>5
<1> QED BY <1>1, <1>6

\* His next page is answered, and his book takes it in.
LEMMA AuditInvPage ==
  ASSUME QueryInv, ReadPage
  PROVE  AuditInv'
<1> DEFINE n    == Len(blockchain.blocks)
           l    == NextLength
           page == get_transactions(seen, l).transactions
<1>1. /\ seen \in Nat /\ told \in Nat /\ seen <= told /\ told <= n
      /\ n <= MaxBlocks + AccountsOverflowTrimQuantity
      /\ failed = FALSE
  BY DEF QueryInv, AuditInv, AuditOK
<1>2. n \in Nat /\ chain_length = n
  BY AppendFacts DEF QueryInv, Inv, ChainOK, chain_length
<1>3. l \in Nat /\ seen + l <= n
  <2>1. l \in Nat /\ seen + l <= told
    BY NextLengthFacts
  <2> QED BY <1>1, <1>2, <2>1
<1> HIDE DEF n, l
<1>4. seen + l < Usize
  BY <1>1, <1>2, <1>3, WidthFacts
<1>5. ~ Traps(seen, l)
  BY <1>1, <1>2, <1>3, <1>4, TrapFacts
<1>6. /\ page = [i \in 1 .. l |-> Shown(BlockAt(seen + i - 1))]
      /\ Len(page) = l
  BY <1>1, <1>3, <1>4, AnswerFacts
<1>7. /\ blockchain' = blockchain
      /\ seen' = seen + Len(page) /\ told' = n
      /\ audited' = Replay(audited, page)
      /\ failed' = failed
  <2>1. get_transactions(seen, l).log_length = chain_length
    BY DEF get_transactions
  <2>2. ReadPage => /\ UNCHANGED vars
                    /\ seen' = seen + Len(page)
                    /\ told' = get_transactions(seen, l).log_length
                    /\ audited' = Replay(audited, page)
                    /\ UNCHANGED failed
    BY <1>5 DEF ReadPage, l
  <2> QED BY <1>2, <2>1, <2>2 DEF vars, ledger
<1> HIDE DEF page
<1>8. Shows(page, blockchain, seen, l)
  <2>1. ASSUME NEW i \in 1 .. l
        PROVE  page[i].body = decode(blockchain.blocks[seen + i]).transaction.operation
    <3>1. page[i] = Shown(BlockAt(seen + i - 1)) /\ (seen + i - 1) + 1 = seen + i
      BY <1>1, <1>3, <1>6
    <3>2. BlockAt(seen + i - 1) = decode(blockchain.blocks[seen + i])
      BY <3>1 DEF BlockAt
    <3> QED BY <3>1, <3>2 DEF Shown
  <2> QED BY <1>6, <2>1 DEF Shows
<1>9. PICK f : ReplayRun(blockchain, f) /\ f[seen] = audited
  BY DEF QueryInv, AuditInv, AuditOK
<1>10. audited' = f[seen + l]
  BY <1>1, <1>2, <1>3, <1>7, <1>8, <1>9, PageReplayed DEF n
<1>11. /\ seen' \in Nat /\ told' \in Nat /\ seen' <= told' /\ told' <= n
       /\ f[seen'] = audited' /\ failed' = FALSE
  BY <1>1, <1>2, <1>3, <1>6, <1>7, <1>10
<1> QED BY <1>1, <1>7, <1>9, <1>11 DEF AuditInv, AuditOK, n

LEMMA QueryInvInit == QueryInit => QueryInv
BY InvInit, ChainInvInit, AuditInvInit DEF QueryInit, QueryInv

LEMMA QueryInvNext == QueryInv /\ [QueryNext]_query_vars => QueryInv'
<1> SUFFICES ASSUME QueryInv, [QueryNext]_query_vars PROVE QueryInv'
  OBVIOUS
<1>1. CASE [Next]_vars /\ UNCHANGED audit
  BY <1>1, AuditInvMessage, InvNext, ChainInvNext DEF QueryInv
<1>2. CASE ReadPage
  <2>1. [Next]_vars
    BY <1>2 DEF ReadPage
  <2> QED BY <1>2, <2>1, AuditInvPage, InvNext, ChainInvNext DEF QueryInv
<1> QED BY <1>1, <1>2 DEF QueryNext, query_vars

LEMMA QueryInvariance == QuerySpec => []QueryInv
BY QueryInvInit, QueryInvNext, PTL DEF QuerySpec
-----------------------------------------------------------------------------
(* The theorems. *)

\* A range whose end fits a usize is answered if and only if all of it is in the chain, and
\* then with exactly its blocks, in order.  There is no limit to what may be asked for, and
\* a range that reaches beyond the end of the chain traps.
THEOREM RangesAreAnswered == QuerySpec => []AnswersTheRange
BY QueryInvariance, QueryInvAnswers, PTL

\* What he was told to be there is there for ever: no page of the auditor's is refused.
THEOREM PagesAreAnswered == QuerySpec => []AuditorNeverRefused
<1>1. QueryInv => AuditorNeverRefused
  BY DEF QueryInv, AuditInv, AuditOK, AuditorNeverRefused
<1> QED BY QueryInvariance, <1>1, PTL

\* However messages come between his pages, once the auditor has read to the end of the
\* chain his book is the ledger's: the answers leave out nothing that it depends on.
THEOREM AuditsAgree == QuerySpec => []AuditorAgrees
<1>1. QueryInv => AuditorAgrees
  <2> SUFFICES ASSUME QueryInv, seen = Len(blockchain.blocks) PROVE audited = balances
    BY DEF AuditorAgrees, chain_length
  <2>1. PICK f : ReplayRun(blockchain, f) /\ f[seen] = audited
    BY DEF QueryInv, AuditInv, AuditOK
  <2>2. PICK g : ReplayRun(blockchain, g) /\ g[seen] = balances
    BY DEF QueryInv, ChainInv, Replays
  <2>3. Len(blockchain.blocks) \in Nat
    BY AppendFacts DEF QueryInv, Inv, ChainOK
  <2> QED BY <2>1, <2>2, <2>3, ReplayUnique
<1> QED BY QueryInvariance, <1>1, PTL
=============================================================================
