------------------------------- MODULE Client -------------------------------
(***************************************************************************)
(* The canister among its clients.  A client stamps an order with the time *)
(* of its own clock, which may be ahead or behind, and sends it until an   *)
(* answer settles it; what it sends and what it is answered may be late,   *)
(* lost, overtaken by other messages or delivered after an upgrade.        *)
(*                                                                         *)
(* No client is in the repository: this is the use that created_at_time    *)
(* and TransferError::Duplicate are there for.                             *)
(***************************************************************************)
EXTENDS Canister

CONSTANTS Order,         \* calls that clients wish to make, not yet stamped
          OtherRequest,  \* calls of others, which may compete with the orders for ever
          ClockError,    \* what the clocks of clients may be ahead (or behind, if negative)
          LastOrder      \* bound: the time after which no new order is placed

\* The clock does not stop before the window of the last order has ended.
ASSUME ClientAssumption ==
  /\ Order \subseteq [caller : Principal, arg : TransferArg]
  /\ OtherRequest \subseteq Request
  /\ ClockError \subseteq Int
  /\ LastOrder + Max(ClockError) + TransactionWindow < MaxNow

\* An order, stamped with the time t.
Stamp(o, t) == [caller |-> o.caller, arg |-> [o.arg EXCEPT !.created_at_time = t]]

ASSUME OrdersAreRequests ==
  \A o \in Order, t \in StartTime .. LastOrder, e \in ClockError :
    t + e \in TimeStamp /\ Stamp(o, t + e) \in Request

VARIABLES
  stamped,   \* order -> the call it was stamped as
  outcome,   \* order -> the answer that settled it; kind "open" before
  copies,    \* calls on their way to the canister, as orders
  answers    \* answers on their way back, as [order, answer]; those that leave the
             \* order open are left out

network     == <<stamped, outcome, copies, answers>>
client_vars == <<canister_vars, network>>

Open(o) == o \in DOMAIN stamped /\ outcome[o].kind = "open"

\* An answer after which a client does not send its order again.
Settles(r) == r.kind \in {"Ok", "Duplicate", "TooOld", "InsufficientFunds", "BadFee", "BadBurn"}

ClientInit ==
  /\ CanisterInit
  /\ stamped = << >> /\ outcome = << >>
  /\ copies = {} /\ answers = {}

With(f, o, v) == [x \in DOMAIN f \cup {o} |-> IF x = o THEN v ELSE f[x]]

Place(o) ==
  /\ phase = "running" /\ now <= LastOrder /\ o \notin DOMAIN stamped
  /\ \E e \in ClockError : stamped' = With(stamped, o, Stamp(o, now + e))
  /\ outcome' = With(outcome, o, [kind |-> "open"])
  /\ copies' = copies \cup {o}
  /\ UNCHANGED <<canister_vars, answers>>

Resend(o) ==
  /\ Open(o) /\ o \notin copies
  /\ copies' = copies \cup {o}
  /\ UNCHANGED <<canister_vars, stamped, outcome, answers>>

Deliver(o) ==
  /\ o \in copies
  /\ icrc1_transfer(stamped[o].caller, stamped[o].arg)
  /\ copies' = copies \ {o}
  /\ answers' = answers \cup (IF Settles(answer') THEN {[order |-> o, answer |-> answer']} ELSE {})
  /\ UNCHANGED <<stamped, outcome>>

Receive(m) ==
  /\ outcome' = IF Open(m.order) THEN With(outcome, m.order, m.answer) ELSE outcome
  /\ answers' = answers \ {m}
  /\ UNCHANGED <<canister_vars, stamped, copies>>

Lose ==
  /\ \/ \E o \in copies : copies' = copies \ {o} /\ UNCHANGED answers
     \/ \E m \in answers : answers' = answers \ {m} /\ UNCHANGED copies
  /\ UNCHANGED <<canister_vars, stamped, outcome>>

\* Calls of others, of which any number may come in between.
Others == (\E q \in OtherRequest : icrc1_transfer(q.caller, q.arg)) /\ UNCHANGED network

\* The canister's own steps.
Alone == (mint_initial_balance \/ upgrade \/ Pass) /\ UNCHANGED network

ClientNext ==
  \/ \E o \in Order : Place(o) \/ Resend(o) \/ Deliver(o)
  \/ \E m \in answers : Receive(m)
  \/ Lose
  \/ Others
  \/ Alone

\* Time passes; a client goes on sending; and of the messages that are sent again and
\* again some get through.  Nothing is said of Others.  (A call that is on its way can be delivered, so that the
\* third line says SF_client_vars(Deliver(o)).)
Fairness ==
  /\ WF_client_vars(Pass /\ UNCHANGED network)
  /\ \A o \in Order :
       /\ WF_client_vars(Resend(o))
       /\ []<>(o \in copies) => []<><<Deliver(o)>>_client_vars
       /\ SF_client_vars(\E m \in answers : m.order = o /\ Receive(m))

ClientSpec == ClientInit /\ [][ClientNext]_client_vars /\ Fairness
-----------------------------------------------------------------------------
(* Properties. *)

\* An order that its client holds to be paid was executed, in the block that the answer
\* names, whichever of its copies was executed, whichever was answered, and whatever was
\* trimmed or upgraded in between.
PaidMeansItsBlock ==
  \A o \in DOMAIN stamped :
    outcome[o].kind \in {"Ok", "Duplicate"} =>
      /\ outcome[o].height \in requested
      /\ TxAt(outcome[o].height) = TransactionFor(config, stamped[o].caller, stamped[o].arg)

\* An order that the ledger has answered with a block, or called too old, is not executed
\* from then on, though copies of it may still be on their way and others may have been
\* executed, purged from the tables or trimmed.  (After InsufficientFunds or BadBurn a late
\* copy may be: the balance may have changed.)
SettledForGood ==
  [][\A o \in DOMAIN outcome :
       outcome[o].kind \in {"Ok", "Duplicate", "TooOld"} =>
         \A h \in requested' \ requested :
           TxAt(h)' # TransactionFor(config, stamped[o].caller, stamped[o].arg)]_client_vars

\* Every order is settled, if only because its window ends, unless the throttle meets it
\* again and again: apply_transaction looks at the throttle before it looks at the age,
\* so that under lasting load even an order that is too old may never be told so.
EveryOrderSettles ==
  \A o \in Order :
    \/ []<><<Deliver(o) /\ answer'.kind = "TemporarilyUnavailable">>_client_vars
    \/ o \in DOMAIN stamped ~> ~Open(o)
=============================================================================
