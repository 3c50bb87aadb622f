---------------------------- MODULE IdealLedger ----------------------------
(***************************************************************************)
(* What the ledger promises to those who send it transactions: a ledger    *)
(* that never forgets.  Its only state is the list of all transactions it  *)
(* ever executed for callers, each at its height; there are no tables, no  *)
(* purge and no trimming.  How tokens move is not said here: a payment may *)
(* be refused for lack of funds, but never one that was executed before.   *)
(***************************************************************************)
EXTENDS Integers

CONSTANTS
  Transaction,    \* records with a field created_at_time
  None,           \* no time of creation: the caller asks for no deduplication
  Window, Drift   \* how far back and how far ahead a time of creation may lie

VARIABLES
  executed,       \* height -> the transaction executed there for a caller
  now,
  reply

vars == <<executed, now, reply>>

Init ==
  /\ executed = [h \in {} |-> None]
  /\ now \in Int
  /\ reply = [kind |-> "none"]

Dated(tx)    == tx.created_at_time # None
Stale(tx)    == Dated(tx) /\ tx.created_at_time + Window < now
Early(tx)    == Dated(tx) /\ tx.created_at_time > now + Drift
Repeated(tx) == Dated(tx) /\ \E h \in DOMAIN executed : executed[h] = tx

\* A transaction the ledger has to consider.
Due(tx) == ~Stale(tx) /\ ~Early(tx) /\ ~Repeated(tx)

\* It is executed, above all that was executed before.
Execute(tx) ==
  /\ Due(tx)
  /\ \E h \in DOMAIN executed' \ DOMAIN executed :
       /\ \A g \in DOMAIN executed : g < h
       /\ executed' = [g \in DOMAIN executed \cup {h} |-> IF g = h THEN tx ELSE executed[g]]
       /\ reply' = [kind |-> "Ok", height |-> h, tx |-> tx]
  /\ UNCHANGED now

Refuse(tx) ==
  /\ Due(tx)
  /\ reply' = [kind |-> "InsufficientFunds", tx |-> tx]
  /\ UNCHANGED <<executed, now>>

\* It was executed: the answer says where, however long ago that was.
Recall(tx) ==
  /\ ~Stale(tx) /\ ~Early(tx)
  /\ \E h \in DOMAIN executed :
       executed[h] = tx /\ reply' = [kind |-> "TxDuplicate", height |-> h, tx |-> tx]
  /\ Dated(tx)
  /\ UNCHANGED <<executed, now>>

Misdated(tx) ==
  /\ \/ Stale(tx) /\ reply' = [kind |-> "TxTooOld", tx |-> tx]
     \/ Early(tx) /\ reply' = [kind |-> "TxCreatedInFuture", tx |-> tx]
  /\ UNCHANGED <<executed, now>>

\* No answer to the question at all, now.
Unavailable ==
  /\ \/ \E tx \in Transaction : reply' = [kind |-> "TxThrottled", tx |-> tx]
     \/ \E cause \in {"timestamp overflow", "total token supply exceeded"} :
          reply' = [kind |-> "trap", cause |-> cause]
  /\ UNCHANGED <<executed, now>>

Tick == now' = now + 1 /\ UNCHANGED <<executed, reply>>

Next ==
  \/ \E tx \in Transaction : Execute(tx) \/ Refuse(tx) \/ Recall(tx) \/ Misdated(tx)
  \/ Unavailable
  \/ Tick

Spec == Init /\ [][Next]_vars
=============================================================================
