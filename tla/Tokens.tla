------------------------------- MODULE Tokens -------------------------------
(***************************************************************************)
(* Amounts of tokens (mini_ledger_core/src/tokens.rs).  An amount is a u64 *)
(* count of e8s; both operators are checked: `+` and `-` return an Err     *)
(* when the u64 would wrap, and `+=` and `-=` panic on it.                 *)
(***************************************************************************)
EXTENDS Integers

CONSTANT MaxTokens      \* Tokens::MAX, u64::MAX e8s in the code

ASSUME MaxTokensAssumption == MaxTokens \in Nat

Token == 0 .. MaxTokens

\* checked_add returns None: `x + y` is an Err, `x += y` panics.
AddOverflows(x, y) == x + y > MaxTokens

\* checked_sub returns None: `x - y` is an Err, `x -= y` panics.
SubUnderflows(x, y) == x < y
=============================================================================
