--------------------------- MODULE CanisterProofs ---------------------------
(***************************************************************************)
(* Theorems on the canister, for all installation arguments, calls and     *)
(* limits: its ledger is the one of module Ledger, so that what is proved  *)
(* of that holds across upgrades too; a call is accepted at most once; and *)
(* what clients hold to be paid is paid.                                   *)
(***************************************************************************)
EXTENDS Client, LedgerProofs

\* The transaction of a call.
TxOf(cfg, q) == TransactionFor(cfg, q.caller, q.arg)

\* A call that passes the endpoint's own checks, but for that of the least amount of a
\* burn, which depends on the balance.
Admissible(cfg, q) ==
  /\ q \in Request /\ ~ TooMuch(q.arg)
  /\ q.arg.fee \in {None, expected_fee(cfg, q.caller, q.arg)}
  /\ ToMinter(cfg, q.arg) => q.arg.amount # 0

\* What was accepted is in the chain, as the transaction of its call.
AcceptedOK(calls_at, cfg, chain, heights) ==
  \A h \in DOMAIN calls_at :
    /\ h \in heights
    /\ Admissible(cfg, calls_at[h])
    /\ BlockIn(chain, h).transaction = TxOf(cfg, calls_at[h])

\* The inductive invariant: that of the ledger, and the canister's own state.
CanisterInv ==
  /\ Inv
  /\ config \in InitArgs
  /\ minted \in Nat
  /\ phase = "installing" => minted + 1 \in 1 .. Len(config.initial_balances)
  /\ accepted = [h \in DOMAIN accepted |-> accepted[h]]
  /\ AcceptedOK(accepted, config, blockchain, requested)
-----------------------------------------------------------------------------
\* A map that is written as its entries and read back is the same map.
LEMMA PairsRoundTrip ==
  ASSUME NEW f, f = [k \in DOMAIN f |-> f[k]]
  PROVE  FromPairs(Pairs(f)) = f
<1>1. {p[1] : p \in Pairs(f)} = DOMAIN f
  <2>1. \A p \in Pairs(f) : p[1] \in DOMAIN f
    BY DEF Pairs
  <2>2. \A k \in DOMAIN f : <<k, f[k]>> \in Pairs(f) /\ <<k, f[k]>>[1] = k
    BY DEF Pairs
  <2> QED BY <2>1, <2>2
<1>2. ASSUME NEW k \in DOMAIN f PROVE (CHOOSE p \in Pairs(f) : p[1] = k)[2] = f[k]
  <2>1. <<k, f[k]>> \in Pairs(f) /\ <<k, f[k]>>[1] = k
    BY DEF Pairs
  <2>2. \A p \in Pairs(f) : p[1] = k => p[2] = f[k]
    BY DEF Pairs
  <2> QED BY <2>1, <2>2
<1>3. FromPairs(Pairs(f)) = [k \in DOMAIN f |-> (CHOOSE p \in Pairs(f) : p[1] = k)[2]]
  BY <1>1 DEF FromPairs
<1> QED BY <1>2, <1>3

\* An upgrade restores the ledger as it was.
LEMMA UpgradeFacts ==
  ASSUME Inv, upgrade
  PROVE  UNCHANGED vars /\ UNCHANGED <<phase, minted, config, calls>>
<1>1. balances = [store |-> balances.store, token_pool |-> balances.token_pool]
      /\ balances.store = [k \in DOMAIN balances.store |-> balances.store[k]]
  BY DEF Inv, GoodBook, Book, Store
<1>2. transactions_by_hash = [k \in DOMAIN transactions_by_hash |-> transactions_by_hash[k]]
  BY DEF Inv, DedupOK, Linked
<1>3. /\ Image.store = Pairs(balances.store) /\ Image.token_pool = balances.token_pool
      /\ Image.blockchain = blockchain /\ Image.config = config
      /\ Image.transactions_by_hash = Pairs(transactions_by_hash)
      /\ Image.transactions_by_height = transactions_by_height
  BY DEF Image
<1>4. FromPairs(Image.store) = balances.store
      /\ FromPairs(Image.transactions_by_hash) = transactions_by_hash
  BY <1>1, <1>2, <1>3, PairsRoundTrip
<1>5. balances' = balances /\ transactions_by_hash' = transactions_by_hash
  BY <1>1, <1>3, <1>4 DEF upgrade
<1>6. blockchain' = blockchain /\ config' = config /\ transactions_by_height' = transactions_by_height
  BY <1>3 DEF upgrade
<1>7. UNCHANGED <<now, reply, requested, phase, minted, calls>>
  BY DEF upgrade
<1> QED BY <1>5, <1>6, <1>7 DEF vars, ledger, tables
-----------------------------------------------------------------------------
(* The canister implements the ledger. *)

LEMMA StepOfLedger == CanisterInv /\ [CanisterNext]_canister_vars => [Next]_vars
<1> SUFFICES ASSUME CanisterInv, [CanisterNext]_canister_vars PROVE [Next]_vars
  OBVIOUS
<1> USE DEF CanisterInv
<1>1. CASE mint_initial_balance
  <2>1. InitialMint(config, minted + 1) \in Transaction
    <3>1. minted + 1 \in DOMAIN config.initial_balances
      BY <1>1, RequestsAreTransactions, LenProperties DEF mint_initial_balance
    <3> QED BY <3>1, RequestsAreTransactions
  <2> QED BY <1>1, <2>1 DEF mint_initial_balance, Next
<1>2. ASSUME NEW q \in Request, icrc1_transfer(q.caller, q.arg) PROVE [Next]_vars
  <2>1. CASE Submit(q.caller, q.arg)
    BY <2>1, RequestsAreTransactions DEF Submit, Next
  <2>2. CASE ~ Submit(q.caller, q.arg)
    BY <1>2, <2>2 DEF icrc1_transfer, AmountTooLarge, WrongFee, SmallBurn, RefuseEarly
  <2> QED BY <2>1, <2>2
<1>3. CASE upgrade
  BY <1>3, UpgradeFacts
<1>4. CASE Pass
  BY <1>4 DEF Pass, Next
<1>5. CASE UNCHANGED canister_vars
  BY <1>5 DEF canister_vars
<1> QED BY <1>1, <1>2, <1>3, <1>4, <1>5 DEF CanisterNext

LEMMA CanisterInvInit == CanisterInit => CanisterInv
<1> SUFFICES ASSUME CanisterInit PROVE CanisterInv
  OBVIOUS
<1>1. Inv /\ config \in InitArgs /\ minted = 0
  BY InvInit DEF CanisterInit
<1>2. Len(config.initial_balances) \in Nat
  BY <1>1, RequestsAreTransactions, LenProperties
<1>3. phase = "installing" => minted + 1 \in 1 .. Len(config.initial_balances)
  BY <1>1, <1>2 DEF CanisterInit, PhaseAfter
<1>4. accepted = << >> /\ DOMAIN accepted = {}
  BY DEF CanisterInit
<1> QED BY <1>1, <1>3, <1>4 DEF CanisterInv, AcceptedOK

\* A step that leaves the calls and the arguments alone leaves what was accepted alone.
LEMMA AcceptedKept ==
  ASSUME CanisterInv, [Next]_vars, accepted' = accepted, config' = config
  PROVE  AcceptedOK(accepted', config', blockchain', requested')
BY HistoryKept DEF CanisterInv, AcceptedOK

LEMMA CanisterInvNext == CanisterInv /\ [CanisterNext]_canister_vars => CanisterInv'
<1> SUFFICES ASSUME CanisterInv, [CanisterNext]_canister_vars PROVE CanisterInv'
  OBVIOUS
<1>1. [Next]_vars
  BY StepOfLedger
<1>2. Inv'
  BY <1>1, InvNext DEF CanisterInv
<1>3. Len(config.initial_balances) \in Nat
  BY RequestsAreTransactions, LenProperties DEF CanisterInv
<1>4. CASE mint_initial_balance
  <2>1. config' = config /\ accepted' = accepted
    BY <1>4 DEF mint_initial_balance, calls
  <2>2. minted' \in Nat /\ (phase' = "installing" => minted' + 1 \in 1 .. Len(config.initial_balances))
    BY <1>3, <1>4 DEF mint_initial_balance, PhaseAfter, CanisterInv
  <2> QED BY <1>1, <1>2, <2>1, <2>2, AcceptedKept DEF CanisterInv
<1>5. ASSUME NEW q \in Request, icrc1_transfer(q.caller, q.arg) PROVE CanisterInv'
  <2>1. /\ phase' = phase /\ minted' = minted /\ config' = config
        /\ request' = [caller |-> q.caller, arg |-> q.arg] /\ request' = q
    BY <1>5, RequestAssumption DEF icrc1_transfer
  <2>2. CASE accepted' = accepted
    BY <1>1, <1>2, <2>1, <2>2, AcceptedKept DEF CanisterInv
  <2>3. CASE accepted' # accepted
    <3> DEFINE n == reply'.height
    <3>1. /\ Submit(q.caller, q.arg) /\ reply'.kind = "Ok"
          /\ accepted' = [h \in DOMAIN accepted \cup {n} |-> IF h = n THEN q ELSE accepted[h]]
      BY <1>5, <2>1, <2>3 DEF icrc1_transfer, AmountTooLarge, WrongFee, SmallBurn, RefuseEarly, Submit
    <3> DEFINE tx == TxOf(config, q)
    <3>2. tx \in Transaction /\ apply_transaction(tx) /\ Admissible(config, q)
      BY <3>1, RequestsAreTransactions
         DEF Submit, BadFee, BadBurn, Admissible, TxOf, CanisterInv
    <3> HIDE DEF tx
    <3>3. Accepted(tx)
      BY <3>1, <3>2, OnlyAcceptedIsOk
    <3>4. /\ n \notin requested /\ requested' = requested \cup {n}
          /\ BlockIn(blockchain', n).transaction = tx
          /\ \A h \in requested : BlockIn(blockchain', h) = BlockIn(blockchain, h)
      BY <3>2, <3>3, AcceptedFacts DEF CanisterInv
    <3> HIDE DEF n
    <3>5. AcceptedOK(accepted, config, blockchain, requested)
      BY DEF CanisterInv
    <3>6. DOMAIN accepted' = DOMAIN accepted \cup {n}
          /\ accepted'[n] = q
          /\ \A h \in DOMAIN accepted : h # n => accepted'[h] = accepted[h]
      BY <3>1
    <3>7. \A h \in DOMAIN accepted : h \in requested /\ h # n
      BY <3>4, <3>5 DEF AcceptedOK
    <3>8. ASSUME NEW h \in DOMAIN accepted'
          PROVE  /\ h \in requested'
                 /\ Admissible(config', accepted'[h])
                 /\ BlockIn(blockchain', h).transaction = TxOf(config', accepted'[h])
      <4>1. CASE h = n
        BY <2>1, <3>2, <3>4, <3>6, <4>1 DEF tx
      <4>2. CASE h \in DOMAIN accepted
        <5>1. h \in requested /\ h # n /\ accepted'[h] = accepted[h]
          BY <3>6, <3>7, <4>2
        <5>2. /\ Admissible(config, accepted[h])
              /\ BlockIn(blockchain, h).transaction = TxOf(config, accepted[h])
          BY <3>5, <4>2 DEF AcceptedOK
        <5>3. h \in requested' /\ BlockIn(blockchain', h) = BlockIn(blockchain, h)
          BY <3>4, <5>1
        <5> QED BY <2>1, <5>1, <5>2, <5>3
      <4> QED BY <3>6, <4>1, <4>2
    <3>9. AcceptedOK(accepted', config', blockchain', requested')
      BY <3>8 DEF AcceptedOK
    <3> QED BY <1>2, <2>1, <3>1, <3>6, <3>9 DEF CanisterInv
  <2> QED BY <2>2, <2>3
<1>6. CASE upgrade \/ Pass \/ UNCHANGED canister_vars
  <2>1. UNCHANGED <<phase, minted, config, calls>>
    BY <1>6, UpgradeFacts DEF Pass, canister_vars, CanisterInv
  <2> QED BY <1>1, <1>2, <2>1, AcceptedKept DEF CanisterInv, calls
<1> QED BY <1>4, <1>5, <1>6 DEF CanisterNext

LEMMA CanisterInvariance == CanisterSpec => []CanisterInv
BY CanisterInvInit, CanisterInvNext, PTL DEF CanisterSpec

\* Whatever the canister does, its ledger does what the module Ledger says: upgrades do
\* not show in it, and calls that the endpoint refuses do not reach it.
THEOREM CanisterImplementsLedger == CanisterSpec => IsALedger
<1>1. CanisterInit => Init
  BY DEF CanisterInit
<1> QED BY <1>1, CanisterInvariance, StepOfLedger, PTL DEF CanisterSpec, IsALedger, Spec

\* So what is proved of the ledger holds of the canister, across upgrades.
COROLLARY CanisterLedgerFacts ==
  CanisterSpec => /\ []NoDoubleExecution /\ []RememberedWhileAcceptable
                  /\ []TablesAgree /\ []OnlyCallersTrap /\ []Conservation
                  /\ []ChainLinked /\ []BalancesMatchChain /\ []StoreBounded
                  /\ []AnswersNameTheirBlock /\ NeverForgets /\ TrimsThePoorest
BY CanisterImplementsLedger, AtMostOnce, RememberedLongEnough, TablesInStep, BugsUnreachable,
   LedgerConserves, HashesLink, ChainTellsAll, MapBounded, AnswersAreTrue, LedgerNeverForgets,
   PoorestAreTrimmed, PTL DEF IsALedger
-----------------------------------------------------------------------------
(* Calls. *)

\* Two calls that differ at most in whether they name the fee are one transaction.
LEMMA SameTransaction ==
  ASSUME NEW q \in Request, NEW r \in Request, SameRequest(q, r)
  PROVE  (\A cfg : TxOf(cfg, q) = TxOf(cfg, r)) /\ q.arg.created_at_time = r.arg.created_at_time
<1>1. /\ q.caller = r.caller
      /\ \A f \in {"from_subaccount", "to", "amount", "created_at_time", "memo"} : q.arg[f] = r.arg[f]
  <2>1. q.arg \in TransferArg /\ r.arg \in TransferArg
    BY RequestAssumption
  <2> QED BY <2>1 DEF SameRequest, TransferArg
<1>2. /\ q.arg.from_subaccount = r.arg.from_subaccount /\ q.arg.to = r.arg.to
      /\ q.arg.amount = r.arg.amount
      /\ q.arg.created_at_time = r.arg.created_at_time /\ q.arg.memo = r.arg.memo
  BY <1>1
<1>3. from_account(q.caller, q.arg) = from_account(r.caller, r.arg)
  BY <1>1, <1>2 DEF from_account
<1>4. \A cfg : OperationOf(cfg, q.caller, q.arg) = OperationOf(cfg, r.caller, r.arg)
  BY <1>2, <1>3 DEF OperationOf, ToMinter, FromMinter, expected_fee
<1> QED BY <1>2, <1>4 DEF TxOf, TransactionFor

\* A call with a time of creation is accepted at most once, whatever upgrades lie between
\* its repetitions, and whether or not they name the fee.
THEOREM AcceptedOnce == CanisterSpec => []OncePerRequest
<1>1. CanisterInv => OncePerRequest
  <2> SUFFICES ASSUME CanisterInv,
                      NEW g \in DOMAIN accepted, NEW h \in DOMAIN accepted,
                      SameRequest(accepted[g], accepted[h]),
                      accepted[g].arg.created_at_time # None
               PROVE  g = h
    BY DEF OncePerRequest
  <2> DEFINE tx == BlockIn(blockchain, g).transaction
  <2>1. tx = TxOf(config, accepted[g]) /\ BlockIn(blockchain, h).transaction = tx
        /\ g \in requested /\ h \in requested
    BY SameTransaction DEF CanisterInv, AcceptedOK, Admissible
  <2>2. Deduplicates(tx)
    BY <2>1 DEF Deduplicates, TxOf, TransactionFor
  <2>3. g \in Requests(blockchain, requested) /\ h \in Requests(blockchain, requested)
    BY <2>1, <2>2 DEF Requests
  <2> QED BY <2>1, <2>3 DEF CanisterInv, Inv, DedupOK, Once
<1> QED BY CanisterInvariance, <1>1, PTL
-----------------------------------------------------------------------------
(* Repetitions. *)

\* However an account is written, it holds a natural number of tokens.
LEMMA EveryBalance ==
  ASSUME Inv
  PROVE  \A a : account_balance(balances.store, a) \in Nat
<1>1. balances.store \in Store
  BY DEF Inv, GoodBook, Book
<1>2. Token \subseteq Nat /\ \A k \in DOMAIN balances.store : balances.store[k] \in Token
  BY <1>1, StoreFacts, MaxTokensAssumption DEF Token
<1> QED BY <1>2 DEF account_balance

\* A transaction that was executed at h and comes again before it is too old is
\* throttled or answered with h.
LEMMA RepetitionFacts ==
  ASSUME Inv, NEW tx \in Transaction, Deduplicates(tx), apply_transaction(tx),
         now <= tx.created_at_time + TransactionWindow,
         NEW h \in requested, BlockIn(blockchain, h).transaction = tx
  PROVE  \/ reply'.kind = "TxThrottled"
         \/ reply'.kind = "TxDuplicate" /\ reply'.height = h
<1>1. /\ h \in Requests(blockchain, requested)
      /\ tx.created_at_time <= BlockIn(blockchain, h).timestamp + PermittedDrift
  BY DEF Requests, Inv, DedupOK, RequestsOK
<1>2. /\ now \in Nat /\ now <= MaxNow /\ tx.created_at_time \in Nat
      /\ BlockIn(blockchain, h).timestamp \in Nat
      /\ BlockIn(blockchain, h).timestamp <= now
  <2>1. now \in Nat /\ now <= MaxNow /\ tx.created_at_time \in Nat
    <3>1. now \in StartTime .. MaxNow /\ StartTime \in Nat /\ MaxNow \in Nat
      BY TimeAssumption DEF Inv
    <3>2. tx.created_at_time \in TimeStamp /\ TimeStamp \subseteq Nat
      BY TimeFacts
    <3>3. now \in Nat /\ now <= MaxNow
      BY <3>1
    <3>4. tx.created_at_time \in Nat
      BY <3>2
    <3> QED BY <3>3, <3>4
  <2>2. /\ BlockIn(blockchain, h).timestamp \in 0 .. blockchain.last_timestamp
        /\ blockchain.last_timestamp \in Nat /\ blockchain.last_timestamp <= now
    BY TimeFacts DEF Inv, ChainOK, DedupOK, RequestsOK
  <2> QED BY <2>1, <2>2
<1>3. ~ TooOld(tx) /\ ~ InFuture(tx) /\ ~ TimeOverflows(tx)
  BY <1>1, <1>2, TimeAssumption DEF TooOld, InFuture, TimeOverflows
<1>4. /\ IsDuplicate(tx)
      /\ KeptByHash[tx_hash(tx)] \in requested
      /\ BlockIn(blockchain, KeptByHash[tx_hash(tx)]).transaction = tx
  BY <1>3, KnownIffExecuted, ExecutedFacts
<1>5. KeptByHash[tx_hash(tx)] = h
  BY <1>1, <1>4 DEF Requests, Inv, DedupOK, Once
<1>6. ~ TxTooOld(tx) /\ ~ TxCreatedInFuture(tx)
  BY <1>3 DEF TxTooOld, TxCreatedInFuture
<1>7. ~ InsufficientFunds(tx) /\ ~ Accepted(tx)
  BY <1>4 DEF InsufficientFunds, Accepted, Pays, Vetted
<1>8. ~ Trapped(tx)
  BY <1>3, <1>4, PurgeFacts DEF Trapped, TrapCause, Pays, Vetted
<1>9. TxThrottled(tx) => reply'.kind = "TxThrottled"
  BY DEF TxThrottled, Rejected, Refusal
<1>10. TxDuplicate(tx) => reply'.kind = "TxDuplicate" /\ reply'.height = h
  BY <1>5 DEF TxDuplicate, Rejected, BlockReply
<1> QED BY <1>6, <1>7, <1>8, <1>9, <1>10 DEF apply_transaction

\* The least amount of a burn is the fee, or all that the account holds.
LEMMA MinBurnFacts ==
  ASSUME CanisterInv, NEW q \in Request
  PROVE  LET least == min_burn_amount(q.caller, q.arg)
             b     == BalanceOf(from_account(q.caller, q.arg))
             fee   == config.transfer_fee
         IN  /\ b \in Nat /\ fee \in Nat /\ least \in Nat
             /\ least \in {fee, b} /\ least <= fee
<1> DEFINE b    == BalanceOf(from_account(q.caller, q.arg))
           fee  == config.transfer_fee
           both == {fee, b}
<1>1. fee \in Nat
  <2>1. Token \subseteq Nat
    BY MaxTokensAssumption DEF Token
  <2> QED BY <2>1, RequestsAreTransactions DEF CanisterInv
<1>2. b \in Nat
  BY EveryBalance DEF CanisterInv, BalanceOf
<1>3. min_burn_amount(q.caller, q.arg) = CHOOSE x \in both : \A y \in both : x <= y
  BY DEF min_burn_amount, Min
<1> HIDE DEF b, fee
<1>4. \E x \in both : \A y \in both : x <= y
  BY <1>1, <1>2
<1>5. min_burn_amount(q.caller, q.arg) \in both /\ min_burn_amount(q.caller, q.arg) <= fee
  <2> DEFINE x0 == CHOOSE x \in both : \A y \in both : x <= y
  <2>1. x0 \in both /\ \A y \in both : x0 <= y
    BY <1>4
  <2> QED BY <1>3, <2>1
<1> QED BY <1>1, <1>2, <1>5 DEF b, fee

\* The endpoint lets a repetition through to the ledger, unless it is a small burn.
LEMMA RepetitionSubmitted ==
  ASSUME CanisterInv, NEW q, Admissible(config, q), icrc1_transfer(q.caller, q.arg),
         ToMinter(config, q.arg) => q.arg.amount >= config.transfer_fee
  PROVE  Submit(q.caller, q.arg)
<1>1. ~ AmountTooLarge(q.caller, q.arg) /\ ~ WrongFee(q.caller, q.arg)
  BY DEF Admissible, AmountTooLarge, WrongFee, BadFee
<1>2. ~ BadBurn(q.caller, q.arg)
  <2> SUFFICES ASSUME ToMinter(config, q.arg),
                      q.arg.amount < min_burn_amount(q.caller, q.arg)
               PROVE  FALSE
    BY DEF BadBurn, Admissible
  <2>1. q \in Request
    BY DEF Admissible
  <2>2. q.arg.amount \in Nat
    BY <2>1, RequestAssumption DEF TransferArg
  <2> QED BY <2>1, <2>2, MinBurnFacts
<1> QED BY <1>1, <1>2 DEF icrc1_transfer, SmallBurn

\* A call that was accepted and is repeated while its window lasts is never executed again
\* and never refused for another reason: the answer is the height of its block, or to try
\* again.  Upgrades and whatever was purged, trimmed or spent in between do not change that.
THEOREM RepetitionsRecognised == CanisterSpec => RepeatsAreRecognised
<1> DEFINE Right(h) ==
             LET q == accepted[h]
             IN  /\ request' = q /\ calls' # calls
                 /\ q.arg.created_at_time # None
                 /\ now <= q.arg.created_at_time + TransactionWindow
                 /\ ToMinter(config, q.arg) => q.arg.amount >= config.transfer_fee
                 => answer' \in {[kind |-> "Duplicate", height |-> h],
                                 [kind |-> "TemporarilyUnavailable"]}
<1>1. ASSUME CanisterInv, [CanisterNext]_canister_vars, NEW h \in DOMAIN accepted PROVE Right(h)
  <2> DEFINE q  == accepted[h]
             tx == TxOf(config, q)
  <2> SUFFICES ASSUME request' = q, calls' # calls,
                      q.arg.created_at_time # None,
                      now <= q.arg.created_at_time + TransactionWindow,
                      ToMinter(config, q.arg) => q.arg.amount >= config.transfer_fee
               PROVE  answer' \in {[kind |-> "Duplicate", height |-> h],
                                   [kind |-> "TemporarilyUnavailable"]}
    OBVIOUS
  <2>1. /\ h \in requested /\ Admissible(config, q)
        /\ BlockIn(blockchain, h).transaction = tx
    BY <1>1 DEF CanisterInv, AcceptedOK
  <2>2. icrc1_transfer(q.caller, q.arg)
    <3>1. PICK r \in Request : icrc1_transfer(r.caller, r.arg)
      BY <1>1, UpgradeFacts
         DEF CanisterNext, mint_initial_balance, Pass, canister_vars, CanisterInv
    <3>2. request' = [caller |-> r.caller, arg |-> r.arg]
      BY <3>1 DEF icrc1_transfer
    <3> HIDE DEF q
    <3>3. r.caller = q.caller /\ r.arg = q.arg
      BY <3>2
    <3> QED BY <3>1, <3>3
  <2>3. Submit(q.caller, q.arg)
    BY <1>1, <2>1, <2>2, RepetitionSubmitted
  <2>4. tx \in Transaction /\ apply_transaction(tx)
    BY <1>1, <2>1, <2>3, RequestsAreTransactions DEF Submit, TxOf, Admissible, CanisterInv
  <2>5. Deduplicates(tx) /\ now <= tx.created_at_time + TransactionWindow
    BY DEF Deduplicates, TxOf, TransactionFor
  <2> HIDE DEF q, tx
  <2>6. \/ reply'.kind = "TxThrottled"
        \/ reply'.kind = "TxDuplicate" /\ reply'.height = h
    BY <1>1, <2>1, <2>4, <2>5, RepetitionFacts DEF CanisterInv
  <2>7. PICK balance : answer' = Converted(reply', balance)
    BY <2>3 DEF Submit
  <2>8. ASSUME reply'.kind = "TxThrottled"
        PROVE  answer' = [kind |-> "TemporarilyUnavailable"]
    BY <2>7, <2>8, Zenon DEF Converted
  <2>9. ASSUME reply'.kind = "TxDuplicate", reply'.height = h
        PROVE  answer' = [kind |-> "Duplicate", height |-> h]
    BY <2>7, <2>9, Zenon DEF Converted
  <2> QED BY <2>6, <2>8, <2>9
<1>2. CanisterInv /\ [CanisterNext]_canister_vars => [\A h \in DOMAIN accepted : Right(h)]_canister_vars
  <2> HIDE DEF Right
  <2> QED BY <1>1
<1> HIDE DEF Right
<1> QED BY <1>2, CanisterInvariance, PTL DEF CanisterSpec, RepeatsAreRecognised, Right
-----------------------------------------------------------------------------
(* Money. *)

\* What an account holds after an accepted transaction: what its operation leaves it,
\* or nothing, if it is then trimmed.
LEMMA AcceptedBalances ==
  ASSUME Inv, NEW tx \in Transaction, Accepted(tx), NEW b \in Account
  PROVE  \/ account_balance(balances'.store, b) = account_balance(PaidBook(tx).store, b)
         \/ /\ account_balance(balances'.store, b) = 0
            /\ \E h \in NewTrims : SameAccount(b, TxAt(h)'.operation.from)
<1> DEFINE n    == Len(blockchain.blocks)
           l    == Len(blockchain'.blocks)
           book == PaidBook(tx)
<1>1. GoodBook(book) /\ Len(PaidChain(tx).blocks) = n + 1
  BY AcceptedTrims
<1>2. PICK victims \in ToTrim(book.store), st \in TrimmedStates(tx) :
         /\ balances' = st.balances /\ blockchain' = st.blockchain
         /\ TrimmedSoFar(st, Len(victims), book, PaidChain(tx), victims, now)
  BY AcceptedTrims
<1>3. n \in Nat /\ l \in Nat /\ \A h \in requested : h < n
  <2>1. n \in Nat /\ l \in Nat
    BY <1>2, AppendFacts DEF Inv, ChainOK, TrimmedSoFar, TrimmedChain
  <2>2. \A g \in requested : g \in 0 .. n - 1
    BY ExecutedFacts DEF HeightsOf
  <2> QED BY <2>1, <2>2
<1>4. requested' = requested \cup {n} /\ Heights = 0 .. n - 1
  BY DEF Accepted, chain_length, Heights
<1> DEFINE gone == {victims[i] : i \in 1 .. Len(victims)}
           left == balances'.store
<1>5. /\ DOMAIN left = DOMAIN book.store \ gone
      /\ \A x \in DOMAIN left : left[x] = book.store[x]
      /\ left \in Store /\ book.store \in Store /\ HasOneEntryEach(book.store)
  BY <1>1, <1>2 DEF TrimmedSoFar, TrimmedBook, GoodBook, Book
<1>6. ASSUME NEW j \in 1 .. Len(victims), SameAccount(b, victims[j])
      PROVE  \E h \in NewTrims : SameAccount(b, TxAt(h)'.operation.from)
  <2>1. PICK i \in (n + 1) + 1 .. l :
           decode(blockchain'.blocks[i]).transaction
             = TrimBurn(victims[j], book.store[victims[j]], now)
    BY <1>1, <1>2 DEF TrimmedSoFar, TrimmedChain
  <2>2. i - 1 \in 0 .. l - 1 /\ i - 1 \notin Heights /\ i - 1 \notin requested' /\ (i - 1) + 1 = i
    BY <1>3, <1>4, <2>1
  <2>3. i - 1 \in NewTrims
    BY <2>2 DEF NewTrims, chain_length
  <2> HIDE DEF book
  <2>4. TxAt(i - 1)' = TrimBurn(victims[j], book.store[victims[j]], now)
    BY <2>1, <2>2 DEF TxAt, BlockAt
  <2>5. TxAt(i - 1)'.operation.from = victims[j]
    BY <2>4 DEF TrimBurn, BurnOp
  <2> QED BY <1>6, <2>3, <2>5
<1> HIDE DEF left, book
<1>7. \/ account_balance(left, b) = account_balance(book.store, b)
      \/ account_balance(left, b) = 0 /\ \E x \in gone : SameAccount(b, x)
  <2> HIDE DEF gone
  <2> QED BY <1>5, RemovalBalances
<1> QED BY <1>6, <1>7 DEF left, book

\* A step of a running canister changes no balance unless it is an accepted call.
LEMMA PaymentStep ==
  ASSUME CanisterInv, [CanisterNext]_canister_vars, phase = "running",
         ~ (balances' = balances /\ accepted' = accepted)
  PROVE  \E q \in Request :
           /\ request' = q /\ config' = config
           /\ Admissible(config, q) /\ ~ BadBurn(q.caller, q.arg)
           /\ TxOf(config, q) \in Transaction /\ Accepted(TxOf(config, q))
           /\ answer'.kind = "Ok"
           /\ \A h \in DOMAIN accepted' \ DOMAIN accepted : accepted'[h] = q
<1>1. PICK q \in Request : icrc1_transfer(q.caller, q.arg)
  BY UpgradeFacts
     DEF CanisterNext, mint_initial_balance, Pass, Tick, canister_vars, CanisterInv, calls, ledger, vars
<1>2. request' = q /\ config' = config
  BY <1>1, RequestAssumption DEF icrc1_transfer
<1>3. Submit(q.caller, q.arg)
  BY <1>1 DEF icrc1_transfer, AmountTooLarge, WrongFee, SmallBurn, RefuseEarly, vars, ledger
<1> DEFINE tx == TxOf(config, q)
<1>4. tx \in Transaction /\ apply_transaction(tx) /\ Admissible(config, q) /\ ~ BadBurn(q.caller, q.arg)
  BY <1>3, RequestsAreTransactions DEF Submit, BadFee, BadBurn, Admissible, TxOf, CanisterInv
<1> HIDE DEF tx
<1>5. Accepted(tx)
  <2>1. CASE reply'.kind = "Ok"
    BY <1>4, <2>1, OnlyAcceptedIsOk
  <2>2. CASE reply'.kind # "Ok"
    <3>1. accepted' = accepted
      BY <1>3, <2>2 DEF Submit
    <3>2. ASSUME ~ Accepted(tx) PROVE balances' = balances
      BY <1>4, <3>2 DEF apply_transaction, TxThrottled, TxTooOld, TxCreatedInFuture, TxDuplicate,
                        InsufficientFunds, Trapped, Rejected, ledger
    <3> QED BY <3>1, <3>2
  <2> QED BY <2>1, <2>2
<1>6. reply'.kind = "Ok"
  BY <1>5 DEF Accepted, BlockReply
<1>7. answer'.kind = "Ok"
  <2>1. PICK balance : answer' = Converted(reply', balance)
    BY <1>3 DEF Submit
  <2>2. Converted(reply', balance) = [kind |-> "Ok", height |-> reply'.height]
    BY <1>6, Zenon DEF Converted
  <2> QED BY <2>1, <2>2
<1>8. \A h \in DOMAIN accepted' \ DOMAIN accepted : accepted'[h] = q
  BY <1>2, <1>3, <1>6 DEF Submit
<1> QED BY <1>2, <1>4, <1>5, <1>7, <1>8 DEF tx

\* What the operation of an accepted call does to the balance of an account.
LEMMA CallBalances ==
  ASSUME CanisterInv, NEW q \in Request, TxOf(config, q) \in Transaction,
         Accepted(TxOf(config, q)), NEW b \in Account
  PROVE  LET before == BalanceOf(b)
             paid   == account_balance(PaidBook(TxOf(config, q)).store, b)
             from   == from_account(q.caller, q.arg)
             to     == q.arg.to
             amount == q.arg.amount
             fee    == expected_fee(config, q.caller, q.arg)
         IN  /\ before \in Nat /\ paid \in Nat
             /\ ToMinter(config, q.arg) =>
                  /\ from \in Account /\ amount \in Nat /\ fee = 0
                  /\ paid = before - Share(from, b, amount)
                  /\ amount <= BalanceOf(from)
             /\ ~ ToMinter(config, q.arg) /\ FromMinter(config, q.caller, q.arg) =>
                  /\ to \in Account /\ amount \in Nat
                  /\ paid = before + Share(to, b, amount)
             /\ ~ ToMinter(config, q.arg) /\ ~ FromMinter(config, q.caller, q.arg) =>
                  /\ from \in Account /\ to \in Account /\ amount \in Nat /\ fee \in Nat
                  /\ paid = before - Share(from, b, amount + fee) + Share(to, b, amount)
<1> DEFINE o    == OperationOf(config, q.caller, q.arg)
           from == from_account(q.caller, q.arg)
           fee  == expected_fee(config, q.caller, q.arg)
           before == BalanceOf(b)
           paid   == account_balance(PaidBook(TxOf(config, q)).store, b)
<1>1. TxOf(config, q).operation = o
  BY DEF TxOf, TransactionFor
<1>2. o \in Operation
  BY <1>1, HashFacts
<1>3. ~ Refused(balances, o) /\ ~ SupplyExceeded(balances, o)
  BY <1>1 DEF Accepted, Pays
<1>4. Token \subseteq Nat
  BY MaxTokensAssumption DEF Token
<1>5. GoodBook(balances)
  BY DEF CanisterInv, Inv
<1> HIDE DEF o
<1>6. /\ before \in Nat /\ paid \in Nat
      /\ o.op = "burn" => paid = before - Share(o.from, b, o.amount)
      /\ o.op = "mint" => paid = before + Share(o.to, b, o.amount)
      /\ o.op = "xfer" => paid = before - Share(o.from, b, o.amount + o.fee)
                                        + Share(o.to, b, o.amount)
  BY <1>1, <1>2, <1>3, <1>5, AppliedBalances DEF GoodBook, BalanceOf, PaidBook
<1> HIDE DEF before, paid, from, fee
<1>7. CASE ToMinter(config, q.arg)
  <2>1. o = BurnOp(from, q.arg.amount) /\ fee = 0
    BY <1>7 DEF o, OperationOf, from, fee, expected_fee
  <2>2. o.op = "burn" /\ o.from = from /\ o.amount = q.arg.amount
    BY <2>1 DEF BurnOp
  <2>3. from \in Account /\ q.arg.amount \in Nat
    BY <1>2, <1>4, <2>2, OperationFacts
  <2>4. BalanceOf(from) \in Nat
    BY EveryBalance DEF CanisterInv, BalanceOf
  <2>5. q.arg.amount <= BalanceOf(from)
    BY <1>3, <2>2, <2>3, <2>4 DEF Refused, CanDebit, SubUnderflows, BalanceOf
  <2> QED BY <1>6, <1>7, <2>1, <2>2, <2>3, <2>5 DEF before, paid, from, fee
<1>8. CASE ~ ToMinter(config, q.arg) /\ FromMinter(config, q.caller, q.arg)
  <2>1. o = MintOp(q.arg.to, q.arg.amount)
    BY <1>8 DEF o, OperationOf
  <2>2. o.op = "mint" /\ o.to = q.arg.to /\ o.amount = q.arg.amount
    BY <2>1 DEF MintOp
  <2>3. q.arg.to \in Account /\ q.arg.amount \in Nat
    BY <1>2, <1>4, <2>2, OperationFacts
  <2> QED BY <1>6, <1>8, <2>2, <2>3 DEF before, paid
<1>9. CASE ~ ToMinter(config, q.arg) /\ ~ FromMinter(config, q.caller, q.arg)
  <2>1. o = TransferOp(from, q.arg.to, q.arg.amount, fee)
    BY <1>9 DEF o, OperationOf, from, fee
  <2>2. o.op = "xfer" /\ o.from = from /\ o.to = q.arg.to /\ o.amount = q.arg.amount /\ o.fee = fee
    BY <2>1 DEF TransferOp
  <2>3. from \in Account /\ q.arg.to \in Account /\ q.arg.amount \in Nat /\ fee \in Nat
    BY <1>2, <1>4, <2>2, OperationFacts
  <2> QED BY <1>6, <1>9, <2>2, <2>3 DEF before, paid, from, fee
<1> QED BY <1>6, <1>7, <1>8, <1>9 DEF before, paid

\* BalanceOf in the next state.
LEMMA NextBalance == \A a : BalanceOf(a)' = account_balance(balances'.store, a)
BY DEF BalanceOf, account_balance, Slot

\* An account loses tokens only by a call of its owner, and then exactly the amount and
\* the fee that were agreed; or by being trimmed, and then the chain says so.
THEOREM OwnersPay == CanisterSpec => PaysWhatWasAgreed
<1> DEFINE Right(a) ==
             \/ Loss(a) <= 0
             \/ /\ answer'.kind = "Ok"
                /\ SameAccount(a, from_account(request'.caller, request'.arg))
                /\ Loss(a) = Agreed(a)
             \/ BalanceOf(a)' = 0 /\ \E h \in NewTrims : SameAccount(a, TxAt(h)'.operation.from)
<1>1. ASSUME CanisterInv, [CanisterNext]_canister_vars, phase = "running", NEW a \in Account
      PROVE  Right(a)
  <2> DEFINE before == BalanceOf(a)
             after  == account_balance(balances'.store, a)
  <2>1. Loss(a) = before - after /\ BalanceOf(a)' = after /\ before \in Nat
    BY <1>1, NextBalance, EveryBalance DEF Loss, BalanceOf, CanisterInv
  <2>2. CASE balances' = balances
    <3>1. after = before
      BY <2>2 DEF BalanceOf
    <3> HIDE DEF before, after
    <3>2. Loss(a) <= 0
      BY <2>1, <3>1
    <3> QED BY <3>2
  <2>3. CASE balances' # balances
    <3>1. PICK q \in Request :
             /\ request' = q /\ Admissible(config, q) /\ answer'.kind = "Ok"
             /\ TxOf(config, q) \in Transaction /\ Accepted(TxOf(config, q))
      BY <1>1, <2>3, PaymentStep
    <3> DEFINE paid == account_balance(PaidBook(TxOf(config, q)).store, a)
               from == from_account(q.caller, q.arg)
               to   == q.arg.to
               amount == q.arg.amount
               fee    == expected_fee(config, q.caller, q.arg)
    <3>2. /\ paid \in Nat
          /\ ToMinter(config, q.arg) =>
               /\ amount \in Nat /\ fee = 0
               /\ paid = before - Share(from, a, amount)
          /\ ~ ToMinter(config, q.arg) /\ FromMinter(config, q.caller, q.arg) =>
               amount \in Nat /\ paid = before + Share(to, a, amount)
          /\ ~ ToMinter(config, q.arg) /\ ~ FromMinter(config, q.caller, q.arg) =>
               /\ amount \in Nat /\ fee \in Nat
               /\ paid = before - Share(from, a, amount + fee) + Share(to, a, amount)
      BY <1>1, <3>1, CallBalances
    <3>3. \/ after = paid
          \/ after = 0 /\ \E h \in NewTrims : SameAccount(a, TxAt(h)'.operation.from)
      BY <1>1, <3>1, AcceptedBalances DEF CanisterInv
    <3>4. Agreed(a) = IF SameAccount(to, a) /\ ~ ToMinter(config, q.arg) THEN fee ELSE amount + fee
      <4>1. q.arg.fee # None => q.arg.fee = fee
        BY <3>1 DEF Admissible
      <4>2. (IF q.arg.fee # None THEN q.arg.fee ELSE fee) = fee
        BY <4>1
      <4> QED BY <3>1, <4>2 DEF Agreed
    <3>5. SameAccount(from, a) <=> SameAccount(a, from_account(request'.caller, request'.arg))
      BY <3>1 DEF SameAccount
    <3> HIDE DEF before, after, paid, from, to, amount, fee
    <3>6. CASE after = paid
      <4>1. Loss(a) <= 0 \/ (SameAccount(from, a) /\ Loss(a) = Agreed(a))
        BY <2>1, <3>2, <3>4, <3>6 DEF Share
      <4> QED BY <3>1, <3>5, <4>1
    <3> QED BY <2>1, <3>3, <3>6
  <2> QED BY <2>2, <2>3
<1>2. CanisterInv /\ [CanisterNext]_canister_vars
        => [phase = "running" => \A a \in Account : Right(a)]_canister_vars
  <2> HIDE DEF Right
  <2> QED BY <1>1
<1> HIDE DEF Right
<1> QED BY <1>2, CanisterInvariance, PTL DEF CanisterSpec, PaysWhatWasAgreed, Right

\* Nothing is credited to the minting account, in whatever way a call writes it.
THEOREM MinterIsNeverCredited == CanisterSpec => MintingBalanceNeverGrows
<1>1. ASSUME CanisterInv, [CanisterNext]_canister_vars, phase = "running"
      PROVE  BalanceOf(config.minting_account)' <= BalanceOf(config.minting_account)
  <2> DEFINE m      == config.minting_account
             before == BalanceOf(m)
             after  == account_balance(balances'.store, m)
  <2>1. config' = config
    BY <1>1, UpgradeFacts
       DEF CanisterNext, mint_initial_balance, icrc1_transfer, Pass, canister_vars, CanisterInv
  <2>2. /\ BalanceOf(config.minting_account)' = after
        /\ BalanceOf(config.minting_account) = before /\ before \in Nat
    BY <1>1, <2>1, EveryBalance DEF BalanceOf, account_balance, Slot, CanisterInv
  <2>3. m \in Account
    BY <1>1, RequestsAreTransactions DEF CanisterInv
  <2>4. CASE balances' = balances
    <3>1. after = before
      BY <2>4 DEF BalanceOf
    <3> HIDE DEF before, after
    <3> QED BY <2>2, <3>1
  <2>5. CASE balances' # balances
    <3>1. PICK q \in Request : TxOf(config, q) \in Transaction /\ Accepted(TxOf(config, q))
      BY <1>1, <2>5, PaymentStep
    <3> DEFINE paid == account_balance(PaidBook(TxOf(config, q)).store, m)
               from == from_account(q.caller, q.arg)
               to   == q.arg.to
               amount == q.arg.amount
               fee    == expected_fee(config, q.caller, q.arg)
    <3>2. /\ paid \in Nat
          /\ ToMinter(config, q.arg) =>
               amount \in Nat /\ paid = before - Share(from, m, amount)
          /\ ~ ToMinter(config, q.arg) /\ FromMinter(config, q.caller, q.arg) =>
               amount \in Nat /\ paid = before + Share(to, m, amount)
          /\ ~ ToMinter(config, q.arg) /\ ~ FromMinter(config, q.caller, q.arg) =>
               /\ amount \in Nat /\ fee \in Nat
               /\ paid = before - Share(from, m, amount + fee) + Share(to, m, amount)
      BY <1>1, <2>3, <3>1, CallBalances
    <3>3. after = paid \/ after = 0
      BY <1>1, <2>3, <3>1, AcceptedBalances DEF CanisterInv
    <3>4. SameAccount(to, m) <=> ToMinter(config, q.arg)
      BY DEF ToMinter
    <3> HIDE DEF before, after, paid, from, to, amount, fee
    <3>5. paid <= before
      BY <2>2, <3>2, <3>4 DEF Share
    <3> QED BY <2>2, <3>2, <3>3, <3>5
  <2> QED BY <2>4, <2>5
<1>2. CanisterInv /\ [CanisterNext]_canister_vars
        => [phase = "running" =>
              BalanceOf(config.minting_account)' <= BalanceOf(config.minting_account)]_canister_vars
  BY <1>1
<1> QED BY <1>2, CanisterInvariance, PTL DEF CanisterSpec, MintingBalanceNeverGrows

\* A burn of less than a fee that is accepted leaves nothing behind.
THEOREM SmallBurnsLeaveNothing == CanisterSpec => SmallBurnsDrain
<1> DEFINE Right(h) ==
             LET q == accepted'[h]
             IN  ToMinter(config, q.arg) /\ q.arg.amount < config.transfer_fee
                   => account_balance(balances'.store, from_account(q.caller, q.arg)) = 0
<1>1. ASSUME CanisterInv, [CanisterNext]_canister_vars,
             NEW h \in DOMAIN accepted' \ DOMAIN accepted
      PROVE  Right(h)
  <2>1. ~ (balances' = balances /\ accepted' = accepted)
    BY <1>1
  <2>2. phase = "running"
    <3>1. CASE phase # "running"
      BY <1>1, <3>1, UpgradeFacts
         DEF CanisterNext, mint_initial_balance, icrc1_transfer, upgrade, Pass, canister_vars, calls
    <3> QED BY <3>1
  <2>3. PICK q \in Request :
           /\ Admissible(config, q) /\ ~ BadBurn(q.caller, q.arg)
           /\ TxOf(config, q) \in Transaction /\ Accepted(TxOf(config, q))
           /\ accepted'[h] = q
    BY <1>1, <2>1, <2>2, PaymentStep
  <2> DEFINE from   == from_account(q.caller, q.arg)
             amount == q.arg.amount
             fee    == config.transfer_fee
             after  == account_balance(balances'.store, from)
             paid   == account_balance(PaidBook(TxOf(config, q)).store, from)
             before == BalanceOf(from)
             least  == min_burn_amount(q.caller, q.arg)
  <2>4. ASSUME ToMinter(config, q.arg), amount < fee PROVE after = 0
    <3>1. before \in Nat /\ fee \in Nat /\ least \in Nat /\ least \in {fee, before} /\ least <= fee
      BY <1>1, MinBurnFacts
    <3>2. ~ (amount < least)
      BY <2>3, <2>4 DEF BadBurn
    <3>3. from \in Account /\ amount \in Nat /\ amount <= before
      <4>1. \E b \in Account : TRUE
        BY <1>1, RequestsAreTransactions DEF CanisterInv
      <4> QED BY <1>1, <2>3, <2>4, <4>1, CallBalances
    <3>4. paid = before - Share(from, from, amount)
      BY <1>1, <2>3, <2>4, <3>3, CallBalances
    <3>5. Share(from, from, amount) = amount
      BY DEF Share, SameAccount
    <3>6. after = paid \/ after = 0
      BY <1>1, <2>3, <3>3, AcceptedBalances DEF CanisterInv
    <3> HIDE DEF before, after, paid, from, amount, fee, least
    <3>7. amount = before
      BY <2>4, <3>1, <3>2, <3>3
    <3> QED BY <3>1, <3>3, <3>4, <3>5, <3>6, <3>7
  <2> QED BY <2>3, <2>4
<1>2. CanisterInv /\ [CanisterNext]_canister_vars
        => [\A h \in DOMAIN accepted' \ DOMAIN accepted : Right(h)]_canister_vars
  <2> HIDE DEF Right
  <2> QED BY <1>1
<1> HIDE DEF Right
<1> QED BY <1>2, CanisterInvariance, PTL DEF CanisterSpec, SmallBurnsDrain, Right
-----------------------------------------------------------------------------
(* Installation. *)

\* What the first k initial balances entitle account a to.
Promised(cfg, k, a) ==
  SumFunctionOnSet([i \in DOMAIN cfg.initial_balances |-> cfg.initial_balances[i].balance],
                   {i \in 1 .. k : SameAccount(a, cfg.initial_balances[i].account)})

\* Account a was trimmed: chain c has a burn of it that no caller asked for.
WasTrimmed(a, c, R) ==
  \E h \in HeightsOf(c) \ R : SameAccount(a, BlockIn(c, h).transaction.operation.from)

\* An account that was not trimmed holds what the balances minted so far say.
HoldsPromised ==
  \A a \in Account :
    \/ account_balance(balances.store, a) = Promised(config, minted, a)
    \/ WasTrimmed(a, blockchain, requested)

InstallInv == phase = "installing" => HoldsPromised

\* One more initial balance counts for its account, however that is written.
LEMMA PromisedGrows ==
  ASSUME NEW cfg \in InitArgs, NEW k \in Nat, k + 1 \in 1 .. Len(cfg.initial_balances), NEW a
  PROVE  /\ Promised(cfg, 0, a) = 0
         /\ Promised(cfg, k + 1, a) = Promised(cfg, k, a)
              + Share(cfg.initial_balances[k + 1].account, a, cfg.initial_balances[k + 1].balance)
         /\ Promised(cfg, k, a) \in Nat
<1> DEFINE ib == cfg.initial_balances
           S  == DOMAIN ib
           f  == [i \in S |-> ib[i].balance]
           Of(j) == {i \in 1 .. j : SameAccount(a, ib[i].account)}
<1>1. ib \in Seq([account : Account, balance : Token])
  BY RequestsAreTransactions
<1>2. /\ Len(ib) \in Nat /\ S = 1 .. Len(ib)
      /\ \A i \in S : ib[i] \in [account : Account, balance : Token]
  BY <1>1, LenProperties, ElementOfSeq
<1>3. Token \subseteq Nat
  BY MaxTokensAssumption DEF Token
<1>4. IsFiniteSet(S) /\ f \in [S -> Nat]
  <2>1. \A i \in S : ib[i].balance \in Nat
    BY <1>2, <1>3
  <2>2. IsFiniteSet(1 .. Len(ib))
    BY <1>2, FS_Interval
  <2>3. f \in [S -> Nat]
    BY <2>1
  <2> HIDE DEF S, f
  <2> QED BY <1>2, <2>2, <2>3
<1>5. k + 1 \in S /\ f[k + 1] = ib[k + 1].balance /\ f[k + 1] \in Nat
  BY <1>2, <1>4
<1>6. Of(0) = {} /\ Of(k) \in SUBSET S /\ k + 1 \notin Of(k)
  BY <1>2
<1>7. Of(k + 1) = IF SameAccount(a, ib[k + 1].account) THEN Of(k) \cup {k + 1} ELSE Of(k)
  <2>1. \A i : i \in 1 .. k + 1 <=> i \in 1 .. k \/ i = k + 1
    OBVIOUS
  <2> QED BY <2>1
<1>8. \A j : Promised(cfg, j, a) = SumFunctionOnSet(f, Of(j))
  BY DEF Promised
<1> HIDE DEF f, Of, S, ib
<1>9. /\ SumFunctionOnSet(f, {}) = 0
      /\ SumFunctionOnSet(f, Of(k)) \in Nat
      /\ SumFunctionOnSet(f, Of(k) \cup {k + 1}) = SumFunctionOnSet(f, Of(k)) + f[k + 1]
  BY <1>4, <1>5, <1>6, SumOnSetGrows
<1>10. SameAccount(a, ib[k + 1].account) <=> SameAccount(ib[k + 1].account, a)
  BY DEF SameAccount
<1>11. SumFunctionOnSet(f, Of(k + 1))
         = SumFunctionOnSet(f, Of(k)) + Share(ib[k + 1].account, a, ib[k + 1].balance)
  <2>1. CASE SameAccount(a, ib[k + 1].account)
    BY <1>5, <1>7, <1>9, <1>10, <2>1 DEF Share
  <2>2. CASE ~ SameAccount(a, ib[k + 1].account)
    BY <1>7, <1>9, <1>10, <2>2 DEF Share
  <2> QED BY <2>1, <2>2
<1> QED BY <1>6, <1>8, <1>9, <1>11 DEF ib

\* One more initial balance has been minted.
LEMMA MintedAsPromised ==
  ASSUME CanisterInv, InstallInv, mint_initial_balance, phase' # "failed"
  PROVE  minted' = minted + 1 /\ config' = config /\ HoldsPromised'
<1> DEFINE tx == InitialMint(config, minted + 1)
           init == config.initial_balances[minted + 1]
<1>1. /\ reply'.kind = "Ok" /\ minted' = minted + 1 /\ config' = config
      /\ phase = "installing" /\ apply_transaction(tx)
  BY DEF mint_initial_balance
<1>2. minted \in Nat /\ minted + 1 \in 1 .. Len(config.initial_balances) /\ config \in InitArgs
  BY <1>1 DEF CanisterInv
<1>3. tx \in Transaction
  <2>1. minted + 1 \in DOMAIN config.initial_balances
    BY <1>2, RequestsAreTransactions, LenProperties
  <2> QED BY <1>2, <2>1, RequestsAreTransactions
<1>4. tx.operation = MintOp(init.account, init.balance)
  BY DEF InitialMint
<1> HIDE DEF tx, init
<1>5. Accepted(tx)
  BY <1>1, OnlyAcceptedIsOk
<1>6. ASSUME NEW a \in Account, ~ WasTrimmed(a, blockchain', requested')
      PROVE  account_balance(balances'.store, a) = Promised(config, minted + 1, a)
  <2>1. ~ WasTrimmed(a, blockchain, requested)
    <3>1. /\ \A h \in HeightsOf(blockchain) : BlockIn(blockchain', h) = BlockIn(blockchain, h)
          /\ requested' = requested \cup {Len(blockchain.blocks)}
          /\ Len(blockchain.blocks) + 1 <= Len(blockchain'.blocks)
      BY <1>3, <1>5, AcceptedRequest DEF CanisterInv, Grown
    <3>2. Len(blockchain.blocks) \in Nat /\ Len(blockchain'.blocks) \in Nat
      BY <1>3, <1>5, AcceptedRequest, AppendFacts DEF CanisterInv, Inv, ChainOK, Grown
    <3>3. \A h \in HeightsOf(blockchain) : h \in HeightsOf(blockchain') /\ h # Len(blockchain.blocks)
      BY <3>1, <3>2 DEF HeightsOf
    <3> QED BY <1>6, <3>1, <3>3 DEF WasTrimmed
  <2>2. account_balance(balances.store, a) = Promised(config, minted, a)
    BY <1>1, <2>1 DEF InstallInv, HoldsPromised
  <2>3. account_balance(balances'.store, a) = account_balance(PaidBook(tx).store, a)
    <3>1. \A h \in NewTrims : h \in HeightsOf(blockchain') \ requested'
      BY DEF NewTrims, HeightsOf, chain_length
    <3>2. \A h \in NewTrims : ~ SameAccount(a, TxAt(h)'.operation.from)
      BY <1>6, <3>1 DEF WasTrimmed, TxAt, BlockAt, BlockIn
    <3> QED BY <1>3, <1>5, <3>2, AcceptedBalances DEF CanisterInv
  <2>4. tx.operation.op = "mint" /\ tx.operation.to = init.account /\ tx.operation.amount = init.balance
    BY <1>4 DEF MintOp
  <2>5. account_balance(PaidBook(tx).store, a)
          = account_balance(balances.store, a) + Share(init.account, a, init.balance)
    <3>1. GoodBook(balances) /\ tx.operation \in Operation
          /\ ~ Refused(balances, tx.operation) /\ ~ SupplyExceeded(balances, tx.operation)
      BY <1>3, <1>5, HashFacts DEF CanisterInv, Inv, Accepted, Pays
    <3> QED BY <2>4, <3>1, AppliedBalances DEF GoodBook, PaidBook
  <2>6. Promised(config, minted + 1, a) = Promised(config, minted, a) + Share(init.account, a, init.balance)
    BY <1>2, PromisedGrows DEF init
  <2> QED BY <2>2, <2>3, <2>5, <2>6
<1>7. HoldsPromised'
  <2>1. SUFFICES ASSUME NEW a \in Account, ~ WasTrimmed(a, blockchain', requested')
                 PROVE  account_balance(balances'.store, a) = Promised(config', minted', a)
    BY DEF HoldsPromised, WasTrimmed, HeightsOf, BlockIn
  <2> QED BY <1>1, <1>6, <2>1
<1> QED BY <1>1, <1>7

LEMMA InstallInvInit == CanisterInit => InstallInv
<1> SUFFICES ASSUME CanisterInit, phase = "installing", NEW a \in Account
             PROVE  account_balance(balances.store, a) = Promised(config, minted, a)
  BY DEF InstallInv, HoldsPromised
<1>1. balances.store = << >> /\ DOMAIN balances.store = {} /\ minted = 0 /\ config \in InitArgs
  BY DEF CanisterInit, Init, NewBook
<1>2. account_balance(balances.store, a) = 0
  BY <1>1 DEF account_balance
<1>3. 0 + 1 \in 1 .. Len(config.initial_balances)
  BY CanisterInvInit, <1>1 DEF CanisterInv
<1>4. Promised(config, 0, a) = 0
  BY <1>1, <1>3, PromisedGrows
<1> QED BY <1>1, <1>2, <1>4

LEMMA InstallInvNext == CanisterInv /\ InstallInv /\ [CanisterNext]_canister_vars => InstallInv'
<1> SUFFICES ASSUME CanisterInv, InstallInv, [CanisterNext]_canister_vars, phase' = "installing"
             PROVE  HoldsPromised'
  BY DEF InstallInv
<1>1. CASE mint_initial_balance
  BY <1>1, MintedAsPromised
<1>2. CASE UNCHANGED canister_vars
  BY <1>2 DEF canister_vars, vars, ledger, HoldsPromised, InstallInv, WasTrimmed, HeightsOf, BlockIn
<1>3. phase' = "installing" => mint_initial_balance \/ UNCHANGED canister_vars
  BY DEF CanisterNext, icrc1_transfer, upgrade, Pass
<1> QED BY <1>1, <1>2, <1>3

\* A canister that starts gives every account exactly what its arguments say, also if
\* several entries are for one account in different ways of writing, and only those
\* accounts may be short of it that were trimmed on the way, of which the chain tells.
THEOREM InstallationIsComplete == CanisterSpec => InstalledInFull
<1> DEFINE Done == phase = "installing" /\ phase' = "running" =>
                     \A a \in Account :
                       \/ BalanceOf(a)' = Entitled(a)
                       \/ \E h \in Heights' \ requested' : SameAccount(a, TxAt(h)'.operation.from)
<1>1. ASSUME CanisterInv, InstallInv, [CanisterNext]_canister_vars PROVE Done
  <2> SUFFICES ASSUME phase = "installing", phase' = "running", NEW a \in Account,
                      \A h \in Heights' \ requested' : ~ SameAccount(a, TxAt(h)'.operation.from)
               PROVE  BalanceOf(a)' = Entitled(a)
    OBVIOUS
  <2>1. mint_initial_balance
    BY <1>1 DEF CanisterNext, icrc1_transfer, upgrade, Pass, canister_vars
  <2>2. minted' = minted + 1 /\ config' = config /\ HoldsPromised'
    BY <1>1, <2>1, MintedAsPromised
  <2>3. minted' = Len(config.initial_balances)
    BY <2>1 DEF mint_initial_balance, PhaseAfter
  <2>4. DOMAIN config.initial_balances = 1 .. Len(config.initial_balances)
    BY <1>1, RequestsAreTransactions, LenProperties DEF CanisterInv
  <2>5. Promised(config, Len(config.initial_balances), a) = Entitled(a)
    BY <2>4 DEF Promised, Entitled
  <2>6. account_balance(balances'.store, a) = Promised(config, Len(config.initial_balances), a)
    <3>1. ~ WasTrimmed(a, blockchain', requested')
      BY DEF WasTrimmed, HeightsOf, Heights, chain_length, TxAt, BlockAt, BlockIn
    <3> QED BY <2>2, <2>3, <3>1 DEF HoldsPromised, WasTrimmed, HeightsOf, BlockIn
  <2> QED BY <2>5, <2>6, NextBalance
<1> HIDE DEF Done
<1>2. CanisterInv /\ InstallInv /\ [CanisterNext]_canister_vars => [Done]_canister_vars
  BY <1>1
<1>3. CanisterSpec => [](CanisterInv /\ InstallInv)
  BY CanisterInvInit, CanisterInvNext, InstallInvInit, InstallInvNext, PTL DEF CanisterSpec
<1> QED BY <1>2, <1>3, PTL DEF CanisterSpec, InstalledInFull, Done
-----------------------------------------------------------------------------
(* Clients. *)

\* An answer r to the call q is true at time t: a block that it names is one of the
\* call's transaction, and if it says that the call is too old, then it is.
Truthful(r, q, cfg, chain, heights, t) ==
  /\ r.kind \in {"Ok", "Duplicate"} =>
       r.height \in heights /\ BlockIn(chain, r.height).transaction = TxOf(cfg, q)
  /\ r.kind = "TooOld" => q.arg.created_at_time + TransactionWindow < t

\* What clients know and what is on its way to them is true, and every copy that is on
\* its way is one that the canister may be sent.
NetworkOK(orders, calls_of, results, under_way, replies, cfg, chain, heights, t) ==
  /\ DOMAIN calls_of = orders /\ DOMAIN results = orders
  /\ under_way \subseteq orders
  /\ \A o \in orders :
       /\ calls_of[o] \in Request /\ calls_of[o].arg.created_at_time \in TimeStamp
       /\ Truthful(results[o], calls_of[o], cfg, chain, heights, t)
  /\ \A m \in replies :
       m.order \in orders /\ Truthful(m.answer, calls_of[m.order], cfg, chain, heights, t)

ClientInv ==
  /\ CanisterInv
  /\ NetworkOK(DOMAIN stamped, stamped, outcome, copies, answers,
               config, blockchain, requested, now)

\* The world of clients makes no step in the canister that it may not make.
LEMMA StepOfCanister ==
  ClientInv /\ [ClientNext]_client_vars => [CanisterNext]_canister_vars
<1> SUFFICES ASSUME ClientInv, [ClientNext]_client_vars PROVE [CanisterNext]_canister_vars
  OBVIOUS
<1>1. ASSUME NEW o \in Order, Deliver(o) PROVE CanisterNext
  BY <1>1 DEF Deliver, ClientInv, NetworkOK, CanisterNext
<1>2. ASSUME NEW o \in Order, Place(o) \/ Resend(o) PROVE UNCHANGED canister_vars
  BY <1>2 DEF Place, Resend
<1>3. ASSUME NEW m \in answers, Receive(m) PROVE UNCHANGED canister_vars
  BY <1>3 DEF Receive
<1>4. Lose => UNCHANGED canister_vars
  BY DEF Lose
<1>5. Alone => CanisterNext
  BY DEF Alone, CanisterNext
<1>6. Others => CanisterNext
  BY ClientAssumption DEF Others, CanisterNext
<1>7. UNCHANGED client_vars => UNCHANGED canister_vars
  BY DEF client_vars
<1> QED BY <1>1, <1>2, <1>3, <1>4, <1>5, <1>6, <1>7 DEF ClientNext

\* Only those replies become an Ok, a Duplicate or a TooOld that should.
LEMMA ConvertedFacts ==
  ASSUME NEW r, NEW balance,
         r.kind \in {"Ok", "TxDuplicate", "TxTooOld", "TxCreatedInFuture", "TxThrottled",
                     "InsufficientFunds", "trap"}
  PROVE  /\ Converted(r, balance).kind \in {"Ok", "Duplicate"} =>
              r.kind \in {"Ok", "TxDuplicate"} /\ Converted(r, balance).height = r.height
         /\ Converted(r, balance).kind = "TooOld" => r.kind = "TxTooOld"
<1>1. CASE r.kind = "Ok"
  <2>1. Converted(r, balance) = [kind |-> "Ok", height |-> r.height]
    BY <1>1, Zenon DEF Converted
  <2> QED BY <1>1, <2>1
<1>2. CASE r.kind = "TxDuplicate"
  <2>1. Converted(r, balance) = [kind |-> "Duplicate", height |-> r.height]
    BY <1>2, Zenon DEF Converted
  <2> QED BY <1>2, <2>1
<1>3. CASE r.kind = "TxTooOld"
  <2>1. Converted(r, balance) = [kind |-> "TooOld"]
    BY <1>3, Zenon DEF Converted
  <2> QED BY <1>3, <2>1
<1>4. CASE r.kind = "TxCreatedInFuture"
  <2>1. Converted(r, balance) = [kind |-> "CreatedInFuture"]
    BY <1>4, Zenon DEF Converted
  <2> QED BY <2>1
<1>5. CASE r.kind = "TxThrottled"
  <2>1. Converted(r, balance) = [kind |-> "TemporarilyUnavailable"]
    BY <1>5, Zenon DEF Converted
  <2> QED BY <2>1
<1>6. CASE r.kind = "InsufficientFunds"
  <2>1. Converted(r, balance) = [kind |-> "InsufficientFunds", balance |-> balance]
    BY <1>6, Zenon DEF Converted
  <2> QED BY <2>1
<1>7. CASE r.kind = "trap"
  <2>1. Converted(r, balance) = [kind |-> "trap"]
    BY <1>7, Zenon DEF Converted
  <2> QED BY <2>1
<1> QED BY <1>1, <1>2, <1>3, <1>4, <1>5, <1>6, <1>7

\* The kinds of replies.
LEMMA ReplyKinds ==
  ASSUME NEW tx, apply_transaction(tx)
  PROVE  reply'.kind \in {"Ok", "TxDuplicate", "TxTooOld", "TxCreatedInFuture", "TxThrottled",
                          "InsufficientFunds", "trap"}
<1>1. \A kind, h : Refusal(kind, tx).kind = kind /\ BlockReply(kind, h, tx).kind = kind
  BY DEF Refusal, BlockReply
<1>2. Trapped(tx) => reply'.kind = "trap"
  <2> SUFFICES ASSUME NEW cause, reply' = [kind |-> "trap", cause |-> cause]
               PROVE  reply'.kind = "trap"
    BY DEF Trapped
  <2> QED OBVIOUS
<1>3. /\ TxThrottled(tx) => reply'.kind = "TxThrottled"
      /\ TxTooOld(tx) => reply'.kind = "TxTooOld"
      /\ TxCreatedInFuture(tx) => reply'.kind = "TxCreatedInFuture"
      /\ InsufficientFunds(tx) => reply'.kind = "InsufficientFunds"
  BY <1>1 DEF TxThrottled, TxTooOld, TxCreatedInFuture, InsufficientFunds, Rejected
<1>4. /\ TxDuplicate(tx) => reply'.kind = "TxDuplicate"
      /\ Accepted(tx) => reply'.kind = "Ok"
  BY <1>1 DEF TxDuplicate, Accepted, Rejected
<1> QED BY <1>2, <1>3, <1>4 DEF apply_transaction

\* Whoever is told that a transaction is too old is told the truth.
LEMMA TooOldReply ==
  ASSUME NEW tx, apply_transaction(tx), reply'.kind = "TxTooOld"
  PROVE  TooOld(tx) /\ now' = now
<1>1. \A kind, h : Refusal(kind, tx).kind = kind /\ BlockReply(kind, h, tx).kind = kind
  BY DEF Refusal, BlockReply
<1>2. ~ TxThrottled(tx) /\ ~ TxCreatedInFuture(tx) /\ ~ InsufficientFunds(tx)
  BY <1>1 DEF TxThrottled, TxCreatedInFuture, InsufficientFunds, Rejected
<1>3. ~ TxDuplicate(tx) /\ ~ Accepted(tx)
  BY <1>1 DEF TxDuplicate, Accepted, Rejected
<1>4. Trapped(tx) => reply'.kind = "trap"
  <2> SUFFICES ASSUME NEW cause, reply' = [kind |-> "trap", cause |-> cause]
               PROVE  reply'.kind = "trap"
    BY DEF Trapped
  <2> QED OBVIOUS
<1>5. TxTooOld(tx)
  BY <1>2, <1>3, <1>4 DEF apply_transaction
<1> QED BY <1>5 DEF TxTooOld, Rejected

\* The answers of the endpoint are true.
LEMMA AnswerToCall ==
  ASSUME CanisterInv, NEW q \in Request, icrc1_transfer(q.caller, q.arg)
  PROVE  Truthful(answer', q, config, blockchain', requested', now')
<1> SUFFICES ASSUME answer'.kind \in {"Ok", "Duplicate", "TooOld"}
             PROVE  Truthful(answer', q, config, blockchain', requested', now')
  BY DEF Truthful
<1>1. ~ AmountTooLarge(q.caller, q.arg) /\ ~ WrongFee(q.caller, q.arg) /\ ~ SmallBurn(q.caller, q.arg)
  BY DEF AmountTooLarge, WrongFee, SmallBurn, RefuseEarly
<1>2. Submit(q.caller, q.arg)
  BY <1>1 DEF icrc1_transfer
<1> DEFINE tx == TxOf(config, q)
<1>3. tx \in Transaction /\ apply_transaction(tx)
  BY <1>2, RequestsAreTransactions DEF Submit, TxOf, CanisterInv
<1>4. PICK balance : answer' = Converted(reply', balance)
  BY <1>2 DEF Submit
<1> HIDE DEF tx
<1>5. /\ answer'.kind \in {"Ok", "Duplicate"} =>
           reply'.kind \in {"Ok", "TxDuplicate"} /\ answer'.height = reply'.height
      /\ answer'.kind = "TooOld" => reply'.kind = "TxTooOld"
  BY <1>3, <1>4, ReplyKinds, ConvertedFacts
<1>6. answer'.kind \in {"Ok", "Duplicate"} =>
        answer'.height \in requested' /\ BlockIn(blockchain', answer'.height).transaction = tx
  BY <1>3, <1>5, AnswerOfCall DEF CanisterInv
<1>7. answer'.kind = "TooOld" => q.arg.created_at_time + TransactionWindow < now'
  <2>1. answer'.kind = "TooOld" => TooOld(tx) /\ now' = now
    BY <1>3, <1>5, TooOldReply
  <2>2. tx.created_at_time = q.arg.created_at_time
    BY DEF tx, TxOf, TransactionFor
  <2> QED BY <2>1, <2>2 DEF TooOld
<1> QED BY <1>6, <1>7 DEF tx, Truthful

LEMMA ClientInvInit == ClientInit => ClientInv
BY CanisterInvInit DEF ClientInit, ClientInv, NetworkOK

\* The arguments of the installation never change.
LEMMA ConfigKept == CanisterInv /\ [CanisterNext]_canister_vars => config' = config
BY UpgradeFacts DEF CanisterNext, mint_initial_balance, icrc1_transfer, Pass, canister_vars, CanisterInv

\* Time does not go back, and once over a window stays over.
LEMMA WindowsStayOver ==
  ASSUME CanisterInv, [CanisterNext]_canister_vars, NEW t \in TimeStamp,
         t + TransactionWindow < now
  PROVE  t + TransactionWindow < now'
<1>1. now' = now \/ now' = now + 1
  BY StepOfLedger DEF Next, vars, Tick, apply_transaction, TxThrottled, TxTooOld, TxCreatedInFuture,
                      TxDuplicate, InsufficientFunds, Accepted, Trapped, Rejected
<1>2. now \in Nat /\ t \in Nat
  BY TimeFacts DEF CanisterInv, Inv
<1> QED BY <1>1, <1>2, TimeFacts

LEMMA ClientInvNext == ClientInv /\ [ClientNext]_client_vars => ClientInv'
<1> SUFFICES ASSUME ClientInv, [ClientNext]_client_vars PROVE ClientInv'
  OBVIOUS
<1>1. CanisterInv' /\ [Next]_vars /\ config' = config
  BY StepOfCanister, CanisterInvNext, StepOfLedger, ConfigKept DEF ClientInv
<1>2. ASSUME NEW r, NEW q, q.arg.created_at_time \in TimeStamp,
             Truthful(r, q, config, blockchain, requested, now)
      PROVE  Truthful(r, q, config', blockchain', requested', now')
  <2>1. \A h \in requested : h \in requested' /\ BlockIn(blockchain', h) = BlockIn(blockchain, h)
    BY <1>1, HistoryKept DEF ClientInv, CanisterInv
  <2>2. r.kind = "TooOld" => q.arg.created_at_time + TransactionWindow < now'
    BY <1>2, StepOfCanister, WindowsStayOver DEF Truthful, ClientInv
  <2> QED BY <1>1, <1>2, <2>1, <2>2 DEF Truthful
<1> DEFINE Good(s, r, c, a) ==
             NetworkOK(DOMAIN s, s, r, c, a, config', blockchain', requested', now')
<1>3. Good(stamped, outcome, copies, answers)
  BY <1>2 DEF ClientInv, NetworkOK
<1>4. ASSUME NEW o \in Order, Place(o) PROVE Good(stamped', outcome', copies', answers')
  <2>1. PICK e \in ClockError : stamped' = With(stamped, o, Stamp(o, now + e))
    BY <1>4 DEF Place
  <2> DEFINE call == Stamp(o, now + e)
  <2>2. call \in Request /\ now + e \in TimeStamp
    <3>1. now \in StartTime .. LastOrder
      BY <1>4, ClientAssumption, TimeAssumption DEF Place, ClientInv, CanisterInv, Inv
    <3> QED BY <3>1, OrdersAreRequests
  <2>3. call.arg.created_at_time = now + e
    <3>1. o.arg \in TransferArg
      BY ClientAssumption
    <3>2. "created_at_time" \in DOMAIN o.arg
      BY <3>1 DEF TransferArg
    <3> QED BY <3>2 DEF Stamp
  <2> HIDE DEF call
  <2>4. /\ DOMAIN stamped' = DOMAIN stamped \cup {o}
        /\ stamped'[o] = call
        /\ \A x \in DOMAIN stamped : x # o /\ stamped'[x] = stamped[x]
    BY <1>4, <2>1 DEF With, call, Place
  <2>5. /\ DOMAIN outcome' = DOMAIN outcome \cup {o}
        /\ outcome'[o] = [kind |-> "open"]
        /\ \A x \in DOMAIN outcome : x # o => outcome'[x] = outcome[x]
    BY <1>4 DEF With, Place
  <2>6. copies' = copies \cup {o} /\ answers' = answers
    BY <1>4 DEF Place
  <2>7. Truthful([kind |-> "open"], call, config', blockchain', requested', now')
    BY DEF Truthful
  <2> QED BY <1>3, <2>2, <2>3, <2>4, <2>5, <2>6, <2>7 DEF NetworkOK
<1>5. ASSUME NEW o \in Order, Resend(o) PROVE Good(stamped', outcome', copies', answers')
  BY <1>3, <1>5 DEF Resend, Open, NetworkOK
<1>6. ASSUME NEW o \in Order, Deliver(o) PROVE Good(stamped', outcome', copies', answers')
  <2>1. o \in DOMAIN stamped /\ stamped[o] \in Request
    BY <1>6 DEF Deliver, ClientInv, NetworkOK
  <2>2. Truthful(answer', stamped[o], config, blockchain', requested', now')
    BY <1>6, <2>1, AnswerToCall DEF Deliver, ClientInv
  <2>3. /\ stamped' = stamped /\ outcome' = outcome /\ copies' \subseteq copies
        /\ answers' \subseteq answers \cup {[order |-> o, answer |-> answer']}
    BY <1>6 DEF Deliver
  <2> QED BY <1>1, <1>3, <2>1, <2>2, <2>3 DEF NetworkOK
<1>7. ASSUME NEW m \in answers, Receive(m) PROVE Good(stamped', outcome', copies', answers')
  <2>1. /\ m.order \in DOMAIN stamped
        /\ Truthful(m.answer, stamped[m.order], config', blockchain', requested', now')
    BY <1>3 DEF NetworkOK
  <2>2. /\ stamped' = stamped /\ copies' = copies /\ answers' \subseteq answers
        /\ outcome' = outcome \/ outcome' = With(outcome, m.order, m.answer)
    BY <1>7 DEF Receive
  <2>3. CASE outcome' = outcome
    BY <1>3, <2>2, <2>3 DEF NetworkOK
  <2>4. CASE outcome' = With(outcome, m.order, m.answer)
    <3>1. /\ DOMAIN outcome' = DOMAIN outcome \cup {m.order}
          /\ outcome'[m.order] = m.answer
          /\ \A x \in DOMAIN outcome : x # m.order => outcome'[x] = outcome[x]
      BY <2>4 DEF With
    <3> QED BY <1>3, <2>1, <2>2, <3>1 DEF NetworkOK
  <2> QED BY <2>2, <2>3, <2>4
<1>8. ASSUME Lose \/ Others \/ Alone \/ UNCHANGED client_vars
      PROVE  Good(stamped', outcome', copies', answers')
  <2>1. stamped' = stamped /\ outcome' = outcome /\ copies' \subseteq copies /\ answers' \subseteq answers
    <3>1. CASE Lose
      BY <3>1 DEF Lose
    <3>2. CASE Others \/ Alone \/ UNCHANGED client_vars
      BY <3>2 DEF Others, Alone, network, client_vars
    <3> QED BY <1>8, <3>1, <3>2
  <2> QED BY <1>3, <2>1 DEF NetworkOK
<1> HIDE DEF Good
<1>9. Good(stamped', outcome', copies', answers')
  BY <1>4, <1>5, <1>6, <1>7, <1>8 DEF ClientNext
<1> QED BY <1>1, <1>9 DEF ClientInv, Good

LEMMA ClientInvariance == ClientSpec => []ClientInv
BY ClientInvInit, ClientInvNext, PTL DEF ClientSpec

\* Clients may believe what they are told: an order that is held to be paid was executed
\* in the block named, whatever was lost, late, repeated, purged, trimmed or upgraded.
THEOREM PaidOrdersArePaid == ClientSpec => []PaidMeansItsBlock
<1>1. ClientInv => PaidMeansItsBlock
  BY DEF ClientInv, NetworkOK, Truthful, PaidMeansItsBlock, TxAt, BlockAt, BlockIn, TxOf
<1> QED BY ClientInvariance, <1>1, PTL

\* What a step adds to the requests is accepted in it.
LEMMA NewRequest ==
  ASSUME Inv, [Next]_vars, NEW h \in requested' \ requested
  PROVE  /\ BlockIn(blockchain', h).transaction \in Transaction
         /\ ~ TooOld(BlockIn(blockchain', h).transaction)
<1>1. ASSUME NEW tx \in Transaction, apply_transaction(tx), ~ Accepted(tx)
      PROVE  requested' = requested
  BY <1>1 DEF apply_transaction, TxThrottled, TxTooOld, TxCreatedInFuture, TxDuplicate,
              InsufficientFunds, Trapped, Rejected, ledger
<1>2. Tick \/ UNCHANGED vars => requested' = requested
  BY DEF Tick, vars, ledger
<1>3. PICK tx \in Transaction : Accepted(tx)
  BY <1>1, <1>2 DEF Next
<1>4. BlockIn(blockchain', h).transaction = tx
  BY <1>3, AcceptedFacts
<1> QED BY <1>3, <1>4 DEF Accepted, Pays, Vetted

\* An order that the ledger has answered with a block or called too old is not executed
\* any more: of the first, because it is in the chain once and no call is accepted twice;
\* of the second, because time does not go back.
THEOREM AnswersAreFinal == ClientSpec => SettledForGood
<1> DEFINE Final(o) ==
             outcome[o].kind \in {"Ok", "Duplicate", "TooOld"} =>
               \A h \in requested' \ requested :
                 TxAt(h)' # TransactionFor(config, stamped[o].caller, stamped[o].arg)
<1>1. ASSUME ClientInv, [ClientNext]_client_vars, NEW o \in DOMAIN outcome PROVE Final(o)
  <2> DEFINE call == stamped[o]
             tx   == TxOf(config, call)
  <2> SUFFICES ASSUME outcome[o].kind \in {"Ok", "Duplicate", "TooOld"},
                      NEW h \in requested' \ requested,
                      BlockIn(blockchain', h).transaction = tx
               PROVE  FALSE
    BY DEF TxAt, BlockAt, BlockIn, TxOf
  <2>1. /\ Truthful(outcome[o], call, config, blockchain, requested, now)
        /\ call.arg.created_at_time \in TimeStamp
    BY <1>1 DEF ClientInv, NetworkOK
  <2>2. Inv /\ Inv' /\ [Next]_vars
    BY <1>1, StepOfCanister, CanisterInvNext, StepOfLedger DEF ClientInv, CanisterInv
  <2>3. tx.created_at_time = call.arg.created_at_time
    BY DEF TxOf, TransactionFor
  <2> HIDE DEF call, tx
  <2>4. Deduplicates(tx)
    <3>1. \A t \in TimeStamp : t \in Int
      BY TimeFacts
    <3>2. call.arg.created_at_time # None
      BY <2>1, <3>1, TransactionAssumption
    <3> QED BY <2>3, <3>2 DEF Deduplicates
  <2>5. CASE outcome[o].kind = "TooOld"
    <3>1. ~ TooOld(tx)
      BY <2>2, NewRequest
    <3>2. tx.created_at_time + TransactionWindow < now
      BY <2>1, <2>3, <2>5 DEF Truthful
    <3> QED BY <2>4, <3>1, <3>2 DEF TooOld
  <2>6. CASE outcome[o].kind # "TooOld"
    <3> DEFINE g == outcome[o].height
    <3>1. g \in requested /\ BlockIn(blockchain, g).transaction = tx
      BY <2>1, <2>6 DEF Truthful, tx
    <3> HIDE DEF g
    <3>2. g \in requested' /\ BlockIn(blockchain', g).transaction = tx
      BY <2>2, <3>1, HistoryKept
    <3>3. {g, h} \subseteq Requests(blockchain, requested)'
      BY <2>4, <3>2 DEF Requests, BlockIn
    <3>4. g = h
      BY <2>2, <3>2, <3>3 DEF Inv, DedupOK, Once, Requests, BlockIn
    <3> QED BY <3>1, <3>4
  <2> QED BY <2>5, <2>6
<1>2. ClientInv /\ [ClientNext]_client_vars
        => [\A o \in DOMAIN outcome : Final(o)]_client_vars
  <2> HIDE DEF Final
  <2> QED BY <1>1
<1> HIDE DEF Final
<1> QED BY <1>2, ClientInvariance, PTL DEF ClientSpec, SettledForGood, Final
=============================================================================
