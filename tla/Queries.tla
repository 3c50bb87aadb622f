------------------------------ MODULE Queries ------------------------------
(***************************************************************************)
(* What can be asked of the ledger: the query get_transactions (main.rs,   *)
(* endpoints.rs and lib.rs) with the widths of its numbers, and an auditor *)
(* who reads the chain in pages while it grows and keeps a balance book of *)
(* his own.  A query sees the state between two messages.                  *)
(*                                                                         *)
(* No auditor is in the repository; he does what the answers are for.      *)
(***************************************************************************)
EXTENDS Ledger

CONSTANTS Usize,     \* how many values a usize has: 2^32 on the canister's platform
          U64,       \* how many values a u64 has
          PageSize   \* how many blocks the auditor asks for at once

ASSUME WidthAssumption ==
  /\ Usize \in Nat \ {0} /\ U64 \in Nat /\ U64 > Usize /\ U64 % Usize = 0
  /\ PageSize \in Nat \ {0} /\ MaxBlocks + AccountsOverflowTrimQuantity < Usize

VARIABLES seen,    \* how many blocks the auditor has read
          told,    \* the log_length he was told last
          audited, \* his book
          failed   \* a query of his has trapped

audit      == <<seen, told, audited, failed>>
query_vars == <<vars, audit>>
-----------------------------------------------------------------------------
(* get_transactions. *)

KindShown(o) == IF o.op = "xfer" THEN "transfer" ELSE o.op

\* Fault: the fee of a transfer is not shown.
Shown_NoFee(b) ==
  LET o == b.transaction.operation
  IN  [kind            |-> KindShown(o),
       body            |-> IF o.op = "xfer" THEN [o EXCEPT !.fee = 0] ELSE o,
       created_at_time |-> b.transaction.created_at_time,
       memo            |-> b.transaction.memo,
       timestamp       |-> b.timestamp]

\* From<Block>: of the three bodies the one of the kind is there.  The hash of the
\* parent is not shown.
Shown(b) ==
  [kind            |-> KindShown(b.transaction.operation),
   body            |-> b.transaction.operation,
   created_at_time |-> b.transaction.created_at_time,
   memo            |-> b.transaction.memo,
   timestamp       |-> b.timestamp]

\* as_start_and_length traps on what is no u64, and drops the upper half of the length.
IsTooLarge(start, length) == start >= U64 \/ length >= U64

as_usize(n) == n % Usize

first(start) == as_usize(start)

\* Fault: the last block asked for is left out.
end_Short(start, length) == as_usize((start + as_usize(length)) % U64) - (IF length > 1 THEN 1 ELSE 0)

\* The sum wraps in 64 bits before its upper half is dropped.
end(start, length) == as_usize((start + as_usize(length)) % U64)

\* Fault: the block that is written next may be asked for.
SliceFails_Strict(start, length) == first(start) > end(start, length) \/ end(start, length) >= chain_length

\* The slice of block_slice panics.
SliceFails(start, length) == first(start) > end(start, length) \/ end(start, length) > chain_length

Traps(start, length) == IsTooLarge(start, length) \/ SliceFails(start, length)

get_transactions(start, length) ==
  [first_index  |-> start,
   log_length   |-> chain_length,
   transactions |-> [i \in 1 .. end(start, length) - first(start) |-> Shown(BlockAt(first(start) + i - 1))]]
-----------------------------------------------------------------------------
(* The auditor. *)

AuditInit == seen = 0 /\ told = 0 /\ audited = NewBook /\ failed = FALSE

Replay(book, page) ==
  LET run[n \in 0 .. Len(page)] == IF n = 0 THEN book ELSE Applied(run[n - 1], page[n].body)
  IN  run[Len(page)]

\* The next page, but no more than he knows to be there: nothing, if he has read that.
NextLength == Min({PageSize, told - seen})

ReadPage ==
  /\ ~failed
  /\ IF Traps(seen, NextLength)
     THEN failed' = TRUE /\ UNCHANGED <<seen, told, audited>>
     ELSE LET response == get_transactions(seen, NextLength)
          IN  /\ seen' = seen + Len(response.transactions)
              /\ told' = response.log_length
              /\ audited' = Replay(audited, response.transactions)
              /\ UNCHANGED failed
  /\ UNCHANGED vars

QueryInit == Init /\ AuditInit
QueryNext == (Next /\ UNCHANGED audit) \/ ReadPage
QuerySpec == QueryInit /\ [][QueryNext]_query_vars
-----------------------------------------------------------------------------
(* Properties. *)

\* However the chain grows between his pages, an auditor who has read to its end has
\* the balances and the pool of the ledger, trimmed accounts included.
AuditorAgrees == seen = chain_length => audited = balances

\* A range that was there once is there for ever: he is never refused.
AuditorNeverRefused == ~failed

\* A range whose end fits a usize is answered if all of it is in the chain, and then with
\* its blocks, as many as were asked for; otherwise it traps, also if it is there in part.
AnswersTheRange ==
  \A start, length \in 0 .. Usize - 1 :
    start + length < Usize =>
      /\ ~Traps(start, length) <=> start + length <= chain_length
      /\ ~Traps(start, length) =>
           LET txs == get_transactions(start, length).transactions
           IN  /\ Len(txs) = length
               /\ \A i \in 1 .. length : txs[i].timestamp = BlockAt(start + i - 1).timestamp
                                         /\ txs[i].body = TxAt(start + i - 1).operation

\* lib.rs, on block_slice: "This function panics if the specified range is not a subset
\* of locally available blocks."
PanicsOutsideTheChain ==
  \A start \in chain_length .. U64 - 1, length \in 1 .. Usize - 1 : Traps(start, length)
=============================================================================
