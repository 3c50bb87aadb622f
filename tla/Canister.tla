------------------------------ MODULE Canister ------------------------------
(***************************************************************************)
(* The canister (mini_ledger/src/main.rs and endpoints.rs) around the      *)
(* ledger: its installation, the endpoint icrc1_transfer, and upgrades.    *)
(*                                                                         *)
(* Installation is one message that calls apply_transaction for each       *)
(* initial balance; here each call is a step, and nothing else runs        *)
(* before the last.  If one of them fails, the message traps and there is  *)
(* no ledger: phase "failed", in which the other variables mean nothing.   *)
(*                                                                         *)
(* An upgrade writes the ledger to stable memory, starts the new code and  *)
(* reads the ledger back.  No message runs meanwhile, so it is one step;   *)
(* one that traps changes nothing and is no step.                          *)
(***************************************************************************)
EXTENDS Ledger, Accounts

CONSTANTS InitArgs,      \* the arguments with which the canister may be installed
          Request        \* calls of icrc1_transfer, as [caller, arg]

VARIABLES
  phase,      \* "installing", "failed" or "running"
  minted,     \* how many initial balances have been minted
  config,     \* the arguments of the installation; the ledger keeps two of them
  request,    \* history: the last call of icrc1_transfer
  answer,     \* the TransferResult of that call, or a trap
  accepted    \* history: height -> the call that was answered Ok with it

calls         == <<request, answer, accepted>>
canister_vars == <<vars, phase, minted, config, calls>>

\* The keys of the balance book are those of account.rs.
ASSUME CanisterAccounts ==
  /\ Account \subseteq WrittenAccount
  /\ KeyOf = [a \in Account |-> AccountKey(a)]
-----------------------------------------------------------------------------
(* Which transaction a call asks for. *)

from_account(caller, arg) == [owner |-> caller, subaccount |-> arg.from_subaccount]

\* No account can hold so much: the amount is no u64.
TooMuch(arg) == arg.amount > MaxTokens

\* Fault: the minting account is recognised only as it was written at installation.
ToMinter_Literal(cfg, arg) == arg.to = cfg.minting_account

ToMinter(cfg, arg) == SameAccount(arg.to, cfg.minting_account)

FromMinter(cfg, caller, arg) == SameAccount(from_account(caller, arg), cfg.minting_account)

expected_fee(cfg, caller, arg) ==
  IF ToMinter(cfg, arg) \/ FromMinter(cfg, caller, arg) THEN 0 ELSE cfg.transfer_fee

\* Fault: the fee that is charged is the one in the call, and none if there is none.
OperationOf_CallersFee(cfg, caller, arg) ==
  IF ToMinter(cfg, arg) THEN BurnOp(from_account(caller, arg), arg.amount)
  ELSE IF FromMinter(cfg, caller, arg) THEN MintOp(arg.to, arg.amount)
  ELSE TransferOp(from_account(caller, arg), arg.to, arg.amount, IF arg.fee = None THEN 0 ELSE arg.fee)

\* What goes to the minting account is burnt, what comes from it is minted.
OperationOf(cfg, caller, arg) ==
  IF ToMinter(cfg, arg) THEN BurnOp(from_account(caller, arg), arg.amount)
  ELSE IF FromMinter(cfg, caller, arg) THEN MintOp(arg.to, arg.amount)
  ELSE TransferOp(from_account(caller, arg), arg.to, arg.amount, expected_fee(cfg, caller, arg))

TransactionFor(cfg, caller, arg) ==
  [operation       |-> OperationOf(cfg, caller, arg),
   created_at_time |-> arg.created_at_time,
   memo            |-> arg.memo]

\* The mint of the i-th initial balance [account, balance].
InitialMint(cfg, i) ==
  [operation       |-> MintOp(cfg.initial_balances[i].account, cfg.initial_balances[i].balance),
   created_at_time |-> StartTime,
   memo            |-> None]

TransferArg ==
  [from_subaccount : Subaccount \cup {NoSubaccount}, to : Account, amount : Nat,
   fee : Nat \cup {None}, created_at_time : TimeStamp \cup {None}, memo : Memo]

ASSUME RequestAssumption == Request \subseteq [caller : Principal, arg : TransferArg]

\* The ledger of module Ledger is one to which these transactions may be sent.
ASSUME RequestsAreTransactions ==
  \A cfg \in InitArgs :
    /\ cfg.minting_account \in Account /\ cfg.transfer_fee \in Token
    /\ cfg.initial_balances \in Seq([account : Account, balance : Token])
    /\ \A i \in DOMAIN cfg.initial_balances : InitialMint(cfg, i) \in Transaction
    /\ \A q \in Request :
         ~TooMuch(q.arg) => TransactionFor(cfg, q.caller, q.arg) \in Transaction
-----------------------------------------------------------------------------
(* Installation: init and from_init_args. *)

PhaseAfter(n) == IF n = Len(config.initial_balances) THEN "running" ELSE "installing"

CanisterInit ==
  /\ Init
  /\ config \in InitArgs
  /\ minted = 0
  /\ phase = PhaseAfter(0)
  /\ request = None /\ answer = [kind |-> "none"]
  /\ accepted = << >>

\* Fault: an initial balance that cannot be minted is left out.
mint_initial_balance_Skips ==
  /\ phase = "installing"
  /\ apply_transaction(InitialMint(config, minted + 1))
  /\ minted' = minted + 1 /\ phase' = PhaseAfter(minted')
  /\ UNCHANGED <<config, calls>>

mint_initial_balance ==
  /\ phase = "installing"
  /\ apply_transaction(InitialMint(config, minted + 1))
  /\ IF reply'.kind = "Ok"
     THEN minted' = minted + 1 /\ phase' = PhaseAfter(minted')
     ELSE phase' = "failed" /\ UNCHANGED minted
  /\ UNCHANGED <<config, calls>>
-----------------------------------------------------------------------------
(* The endpoint. *)

BalanceOf(a) == account_balance(balances.store, a)

\* Fault: the fee that the caller names is not looked at.
BadFee_Never(caller, arg) == FALSE

BadFee(caller, arg) == arg.fee \notin {None, expected_fee(config, caller, arg)}

min_burn_amount(caller, arg) == Min({config.transfer_fee, BalanceOf(from_account(caller, arg))})

\* Fault: an account that holds less than the fee may burn a part of it.
BadBurn_OnlyZero(caller, arg) == ToMinter(config, arg) /\ arg.amount = 0

BadBurn(caller, arg) ==
  /\ ToMinter(config, arg)
  /\ arg.amount < min_burn_amount(caller, arg) \/ arg.amount = 0

\* From<CoreTransferError>: what the caller sees of the ledger's reply.
Converted(r, balance) ==
  CASE r.kind = "Ok"                -> [kind |-> "Ok", height |-> r.height]
    [] r.kind = "TxDuplicate"       -> [kind |-> "Duplicate", height |-> r.height]
    [] r.kind = "TxTooOld"          -> [kind |-> "TooOld"]
    [] r.kind = "TxCreatedInFuture" -> [kind |-> "CreatedInFuture"]
    [] r.kind = "TxThrottled"       -> [kind |-> "TemporarilyUnavailable"]
    [] r.kind = "InsufficientFunds" -> [kind |-> "InsufficientFunds", balance |-> balance]
    [] r.kind = "trap"              -> [kind |-> "trap"]

\* A TransferError of the endpoint itself: nothing changes and nothing is purged.
RefuseEarly(error) ==
  /\ answer' = error
  /\ UNCHANGED <<vars, accepted>>

\* The assertion that the balance is below the amount holds, as the balance is a u64.
AmountTooLarge(caller, arg) ==
  /\ TooMuch(arg)
  /\ RefuseEarly([kind |-> "InsufficientFunds", balance |-> BalanceOf(from_account(caller, arg))])

WrongFee(caller, arg) ==
  /\ ~TooMuch(arg) /\ BadFee(caller, arg)
  /\ RefuseEarly([kind |-> "BadFee", expected_fee |-> expected_fee(config, caller, arg)])

SmallBurn(caller, arg) ==
  /\ ~TooMuch(arg) /\ ~BadFee(caller, arg) /\ BadBurn(caller, arg)
  /\ RefuseEarly([kind |-> "BadBurn",
                  min_burn_amount |-> IF arg.amount < min_burn_amount(caller, arg)
                                      THEN min_burn_amount(caller, arg) ELSE config.transfer_fee])

\* The call gets to the ledger.
Submit(caller, arg) ==
  /\ ~TooMuch(arg) /\ ~BadFee(caller, arg) /\ ~BadBurn(caller, arg)
  /\ apply_transaction(TransactionFor(config, caller, arg))
  /\ answer' = Converted(reply', BalanceOf(from_account(caller, arg)))
  /\ accepted' = IF reply'.kind # "Ok" THEN accepted
                 ELSE [h \in DOMAIN accepted \cup {reply'.height} |->
                         IF h = reply'.height THEN request' ELSE accepted[h]]

icrc1_transfer(caller, arg) ==
  /\ phase = "running"
  /\ request' = [caller |-> caller, arg |-> arg]
  /\ \/ AmountTooLarge(caller, arg) \/ WrongFee(caller, arg) \/ SmallBurn(caller, arg)
     \/ Submit(caller, arg)
  /\ UNCHANGED <<phase, minted, config>>
-----------------------------------------------------------------------------
(* Upgrades. *)

\* A map is written as its entries.
Pairs(map)     == {<<k, map[k]>> : k \in DOMAIN map}
FromPairs(set) == [k \in {p[1] : p \in set} |-> (CHOOSE p \in set : p[1] = k)[2]]

\* Fault: the queue is left out, as if it could be had from the map.
Image_NoQueue ==
  [store |-> Pairs(balances.store), token_pool |-> balances.token_pool, blockchain |-> blockchain,
   config |-> config, transactions_by_hash |-> Pairs(transactions_by_hash),
   transactions_by_height |-> << >>]

\* Fault: the map is left out.
Image_NoMap ==
  [store |-> Pairs(balances.store), token_pool |-> balances.token_pool, blockchain |-> blockchain,
   config |-> config, transactions_by_hash |-> {},
   transactions_by_height |-> << >>]

\* What pre_upgrade writes: all the fields of the ledger.
Image ==
  [store |-> Pairs(balances.store), token_pool |-> balances.token_pool, blockchain |-> blockchain,
   config |-> config, transactions_by_hash |-> Pairs(transactions_by_hash),
   transactions_by_height |-> transactions_by_height]

upgrade ==
  /\ phase = "running"
  /\ balances' = [store |-> FromPairs(Image.store), token_pool |-> Image.token_pool]
  /\ blockchain' = Image.blockchain
  /\ config' = Image.config
  /\ transactions_by_hash' = FromPairs(Image.transactions_by_hash)
  /\ transactions_by_height' = Image.transactions_by_height
  /\ UNCHANGED <<now, reply, requested, phase, minted, calls>>
-----------------------------------------------------------------------------
Pass ==
  /\ phase = "running"
  /\ Tick
  /\ UNCHANGED <<phase, minted, config, calls>>

CanisterNext ==
  \/ mint_initial_balance
  \/ \E q \in Request : icrc1_transfer(q.caller, q.arg)
  \/ upgrade
  \/ Pass

CanisterSpec == CanisterInit /\ [][CanisterNext]_canister_vars
-----------------------------------------------------------------------------
(* Properties. *)

\* Requests that differ at most in whether they name the fee.
SameRequest(q, r) ==
  q.caller = r.caller /\ \A f \in DOMAIN q.arg \ {"fee"} : q.arg[f] = r.arg[f]

\* A call with a time of creation is accepted at most once, upgrades between the
\* repetitions included, and also if a repetition names the fee and the first did not.
OncePerRequest ==
  \A g, h \in DOMAIN accepted :
    SameRequest(accepted[g], accepted[h]) /\ accepted[g].arg.created_at_time # None => g = h

\* A call that was accepted and is repeated in time is recognised: the answer is the
\* height of its block, or to try again.  Burns below the fee are the exception: the
\* check of the least amount comes before the look at the tables, and the balance it
\* looks at has changed.
RepeatsAreRecognised ==
  [][\A h \in DOMAIN accepted :
       LET q == accepted[h]
       IN  /\ request' = q /\ calls' # calls
           /\ q.arg.created_at_time # None
           /\ now <= q.arg.created_at_time + TransactionWindow
           /\ ToMinter(config, q.arg) => q.arg.amount >= config.transfer_fee
           => answer' \in {[kind |-> "Duplicate", height |-> h], [kind |-> "TemporarilyUnavailable"]}
    ]_canister_vars

Loss(a) == BalanceOf(a) - BalanceOf(a)'

\* What the holder of an account has agreed to lose by the call that was made: its
\* amount, unless it comes back to the account, and the fee, the one it names if it
\* names one.
Agreed(a) ==
  LET arg == request'.arg
      f   == IF arg.fee # None THEN arg.fee ELSE expected_fee(config, request'.caller, arg)
  IN  IF SameAccount(arg.to, a) /\ ~ToMinter(config, arg) THEN f ELSE arg.amount + f

\* An account loses tokens only by a call of its owner for it, and then exactly what
\* was agreed, or by being trimmed, which leaves it with nothing.
PaysWhatWasAgreed ==
  [][phase = "running" =>
       \A a \in Account :
         \/ Loss(a) <= 0
         \/ /\ answer'.kind = "Ok"
            /\ SameAccount(a, from_account(request'.caller, request'.arg))
            /\ Loss(a) = Agreed(a)
         \/ BalanceOf(a)' = 0 /\ \E h \in NewTrims : SameAccount(a, TxAt(h)'.operation.from)
    ]_canister_vars

\* However it is written in a call, nothing is ever credited to the minting account:
\* what goes there goes back to the pool.
MintingBalanceNeverGrows ==
  [][phase = "running" => BalanceOf(config.minting_account)' <= BalanceOf(config.minting_account)
    ]_canister_vars

\* Whoever burns less than a fee burns all there is.
SmallBurnsDrain ==
  [][\A h \in DOMAIN accepted' \ DOMAIN accepted :
       LET q == accepted'[h]
       IN  ToMinter(config, q.arg) /\ q.arg.amount < config.transfer_fee
             => account_balance(balances'.store, from_account(q.caller, q.arg)) = 0
    ]_canister_vars

\* Whatever the canister does, its ledger does what module Ledger says: upgrades do
\* not show, and early errors do not reach it.
IsALedger == Spec

\* What the arguments of the installation say for account a, entries for it added up.
Entitled(a) ==
  SumFunctionOnSet([i \in DOMAIN config.initial_balances |-> config.initial_balances[i].balance],
                   {i \in DOMAIN config.initial_balances :
                      SameAccount(a, config.initial_balances[i].account)})

\* A ledger that starts holds for every account exactly what the arguments say, but for
\* those accounts that were trimmed on the way; with an entry that cannot be minted there
\* is no ledger.
InstalledInFull ==
  [][phase = "installing" /\ phase' = "running" =>
       \A a \in Account :
         \/ BalanceOf(a)' = Entitled(a)
         \/ \E h \in Heights' \ requested' : SameAccount(a, TxAt(h)'.operation.from)
    ]_canister_vars
=============================================================================
