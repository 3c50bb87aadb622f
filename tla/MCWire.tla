------------------------------- MODULE MCWire -------------------------------
(***************************************************************************)
(* Blocks with every kind of operation between accounts that could be      *)
(* confused: owners and subaccounts that are prefixes of one another, an   *)
(* absent and an all-zero subaccount.  A byte has two bits and a digit of  *)
(* LEB128 one, so that small numbers take several bytes.                   *)
(***************************************************************************)
EXTENDS Wire

B(n) == [byte |-> n]

MCPrincipal  == {<<B(1)>>, <<B(1), B(0)>>}
MCDefault    == <<B(0)>>
MCSubaccount == {<<B(0)>>, <<B(1)>>}

MCKeyOf == [a \in Account |-> AccountKey(a)]

MCUtf8 == [w \in Word |-> <<[word |-> w]>>]

Plain(p) == [owner |-> p, subaccount |-> None]

\* Accounts of one owner in three ways of writing, and another owner's.
Parties == {a \in Account : a.owner = <<B(1)>>} \cup {Plain(<<B(1), B(0)>>)}

MCOperations ==
  {MintOp(a, n) : a \in Parties, n \in {1, 4}} \cup {BurnOp(a, n) : a \in Parties, n \in {0, 1}}
    \cup {TransferOp(a, b, 1, f) : a \in Parties, b \in {Plain(<<B(1)>>), Plain(<<B(1), B(0)>>)}, f \in {0, 1}}

MCMemos == {None, << >>, <<B(1)>>, <<B(1), B(0)>>, <<B(1), B(0), B(0)>>}

OfTransaction(o, t, m) == [operation |-> o, created_at_time |-> t, memo |-> m]

MCBlock ==
  LET txs == {OfTransaction(o, 1, None) : o \in MCOperations}
               \cup {OfTransaction(MintOp(Plain(<<B(1)>>), 1), t, m) : t \in {None, 1, 3}, m \in MCMemos}
  IN  {[parent_hash |-> None, transaction |-> tx, timestamp |-> 1] : tx \in txs}
        \cup {[parent_hash |-> sha256(p), transaction |-> OfTransaction(BurnOp(Plain(<<B(1)>>), 1), t, None),
               timestamp |-> n] : p \in {<<B(0)>>, <<B(1)>>}, t \in {None, 1}, n \in {1, 3}}
=============================================================================
