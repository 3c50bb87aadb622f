-------------------------------- MODULE Wire --------------------------------
(***************************************************************************)
(* How transactions and blocks are written and hashed: their CBOR values   *)
(* (transaction.rs and Block in lib.rs) and the representation-independent *)
(* hash of such values (hash.rs).  Module Ledger takes a digest to be the  *)
(* transaction under a constructor; here is why that is right, given that  *)
(* SHA-256 has no collisions: different transactions are different values, *)
(* and different values of this kind are different inputs of SHA-256.      *)
(*                                                                         *)
(* Bytes, and digests as pieces of 32 bytes, are records, for TLC can only *)
(* compare like with like.                                                 *)
(***************************************************************************)
EXTENDS BalanceBook, Accounts, SequencesExt

CONSTANTS None,            \* Option::None
          Byte,            \* bytes are [byte |-> n], n in Byte
          SubaccountLength, \* 32
          MaxPrincipalLength, \* 29: Principal::try_from takes no more bytes
          MaxMemoLength,   \* MAX_MEMO_LENGTH
          Radix,           \* 2^7: what a byte of LEB128 holds
          Utf8             \* text -> its bytes

ByteString == Seq([byte : Byte])

\* The names of fields and operations.
Word == {"op", "mint", "xfer", "burn", "from", "to", "amt", "fee", "ts", "memo", "tx", "phash"}

ASSUME WireAssumption ==
  /\ Radix \in Nat \ {0, 1} /\ Byte = 0 .. 2 * Radix - 1
  /\ MaxMemoLength \in Nat /\ MaxPrincipalLength \in Nat
  /\ Principal \subseteq ByteString /\ Account \subseteq WrittenAccount
  /\ \A p \in Principal : Len(p) <= MaxPrincipalLength
  /\ \A s \in Subaccount : s \in ByteString /\ Len(s) = SubaccountLength
  /\ \A v, w \in Word : Utf8[v] = Utf8[w] => v = w

\* sha256 stands for a digest of the bytes it is applied to.
sha256(bytes) == [digest |-> bytes]
-----------------------------------------------------------------------------
(* CBOR values. *)

Integer(n)     == [integer |-> n]
Bytes(b)       == [bytes |-> b]
Text(t)        == [text |-> t]
Array(items)   == [array |-> items]
Map(entries)   == [map |-> entries]
Tag(t, v)      == [tag |-> t, value |-> v]
Null           == [null |-> TRUE]

Is(value, type) == type \in DOMAIN value

\* An entry of a struct, and one that is left out when it is None.
Entry(key, v) == <<<<Text(key), v>>>>

\* Fault: None is written, as a null.
EntryIfSome_Null(key, x, v) == Entry(key, IF x = None THEN Null ELSE v)

EntryIfSome(key, x, v) == IF x = None THEN << >> ELSE Entry(key, v)

Has(value, key)   == \E e \in Range(value.map) : e[1] = Text(key)
Field(value, key) == (CHOOSE e \in Range(value.map) : e[1] = Text(key))[2]

\* Fault: a subaccount that stands for the same account as none is left out.
ser_compact_account_Effective(a) ==
  Array(<<Bytes(a.owner)>>
          \o (IF effective_subaccount(a) = DefaultSubaccount THEN << >> ELSE <<Bytes(a.subaccount)>>))

ser_compact_account(a) ==
  Array(<<Bytes(a.owner)>>
          \o (IF a.subaccount = NoSubaccount THEN << >> ELSE <<Bytes(a.subaccount)>>))

Undecodable == [error |-> "failed to decode"]

\* Fault: an owner of the greatest length is refused.
PrincipalFits_Strict(bytes) == Len(bytes) < MaxPrincipalLength

\* Principal::try_from.
PrincipalFits(bytes) == Len(bytes) <= MaxPrincipalLength

de_compact_account(v) ==
  LET n == Len(v.array)
  IN  IF \/ n \notin {1, 2}
         \/ ~PrincipalFits(v.array[1].bytes)
         \/ n = 2 /\ Len(v.array[n].bytes) # SubaccountLength
      THEN Undecodable
      ELSE [owner |-> v.array[1].bytes, subaccount |-> IF n = 1 THEN NoSubaccount ELSE v.array[2].bytes]

\* Memo::try_from, for the memo of a call and for that of a block.
MemoFits(memo) == Len(memo) <= MaxMemoLength

encode_operation(o) ==
  Entry("op", Text(o.op))
    \o (CASE o.op = "mint" -> Entry("to", ser_compact_account(o.to)) \o Entry("amt", Integer(o.amount))
          [] o.op = "xfer" -> Entry("from", ser_compact_account(o.from))
                                \o Entry("to", ser_compact_account(o.to))
                                \o Entry("amt", Integer(o.amount)) \o Entry("fee", Integer(o.fee))
          [] o.op = "burn" -> Entry("from", ser_compact_account(o.from)) \o Entry("amt", Integer(o.amount)))

encode_transaction(tx) ==
  Map(encode_operation(tx.operation)
        \o EntryIfSome("ts", tx.created_at_time, Integer(tx.created_at_time))
        \o EntryIfSome("memo", tx.memo, Bytes(tx.memo)))

\* A block names its parent by the bytes of a digest.
encode(b) ==
  Tag(55799,
      Map(EntryIfSome("phash", b.parent_hash, Bytes(<<b.parent_hash>>))
            \o Entry("tx", encode_transaction(b.transaction)) \o Entry("ts", Integer(b.timestamp))))

decode_operation(v) ==
  LET account(key) == de_compact_account(Field(v, key))
      number(key)  == Field(v, key).integer
      op           == Field(v, "op").text
  IN  CASE op = "mint" -> MintOp(account("to"), number("amt"))
        [] op = "xfer" -> TransferOp(account("from"), account("to"), number("amt"), number("fee"))
        [] op = "burn" -> BurnOp(account("from"), number("amt"))

decode_transaction(v) ==
  LET o == decode_operation(v)
  IN  IF \/ \E party \in {"from", "to"} \cap DOMAIN o : o[party] = Undecodable
         \/ Has(v, "memo") /\ ~MemoFits(Field(v, "memo").bytes)
      THEN Undecodable
      ELSE [operation       |-> o,
            created_at_time |-> IF Has(v, "ts") THEN Field(v, "ts").integer ELSE None,
            memo            |-> IF Has(v, "memo") THEN Field(v, "memo").bytes ELSE None]

decode(enc) ==
  LET v  == enc.value
      tx == decode_transaction(Field(v, "tx"))
  IN  IF enc.tag # 55799 \/ tx = Undecodable THEN Undecodable
      ELSE [parent_hash |-> IF Has(v, "phash") THEN Head(Field(v, "phash").bytes) ELSE None,
            transaction |-> tx,
            timestamp   |-> Field(v, "ts").integer]
-----------------------------------------------------------------------------
(* The hash. *)

leb128[n \in Nat] ==
  IF n < Radix THEN <<[byte |-> n]>> ELSE <<[byte |-> (n % Radix) + Radix]>> \o leb128[n \div Radix]

\* Fault: the items of an array are hashed as one string.
array_hash_Joined(hashes) == sha256(FlattenSeq([i \in DOMAIN hashes |-> hashes[i].digest]))

array_hash(hashes) == sha256(hashes)

\* Fault: the pairs are sorted by value, and the keys are left out.
map_hash_ValuesOnly(hpairs) ==
  LET sorted == SetToSeq({<<p[2], p[1]>> : p \in Range(hpairs)})
  IN  sha256([i \in DOMAIN sorted |-> sorted[i][1]])

\* Sorting makes the order of the entries irrelevant: any fixed order of the pairs
\* does, as no two entries of a struct are the same.
map_hash(hpairs) == sha256(FlattenSeq(SetToSeq(Range(hpairs))))

Undefined == [error |-> "RI hash is not defined"]

Collected(hashes, h) == IF Undefined \in Range(hashes) THEN Undefined ELSE h

\* hash_value, where part_hash is what it does with the parts of a value.
hash_with(part_hash(_), value) ==
  CASE Is(value, "integer") -> IF value.integer < 0 THEN Undefined ELSE sha256(leb128[value.integer])
    [] Is(value, "bytes")   -> sha256(value.bytes)
    [] Is(value, "text")    -> sha256(Utf8[value.text])
    [] Is(value, "tag")     -> part_hash(value.value)
    [] Is(value, "array")   ->
         LET hashes == [i \in DOMAIN value.array |-> part_hash(value.array[i])]
         IN  Collected(hashes, array_hash(hashes))
    [] Is(value, "map")     ->
         LET hpairs == [i \in DOMAIN value.map |->
                          <<part_hash(value.map[i][1]), part_hash(value.map[i][2])>>]
         IN  Collected(FlattenSeq(hpairs), map_hash(hpairs))
    [] Is(value, "null")    -> Undefined

\* hash_value of a value without parts, and of values of one, two, three and four
\* levels: an account, a transaction, a block, and a block under its tag.
hash_leaf(value)        == hash_with(LAMBDA part : Undefined, value)
hash_account(value)     == hash_with(hash_leaf, value)
hash_transaction(value) == hash_with(hash_account, value)
hash_block(value)       == hash_with(hash_transaction, value)
hash_tagged(value)      == hash_with(hash_block, value)

tx_hash(tx)     == hash_transaction(encode_transaction(tx))
block_hash(enc) == hash_tagged(enc)
-----------------------------------------------------------------------------
(* Pairs of blocks with transactions that a call can ask for. *)

CONSTANT Block

IsTransaction(tx) ==
  /\ tx = [operation |-> tx.operation, created_at_time |-> tx.created_at_time, memo |-> tx.memo]
  /\ tx.operation \in Operation
  /\ tx.created_at_time # None => tx.created_at_time \in Nat
  /\ tx.memo # None => tx.memo \in ByteString

IsBlock(b) ==
  /\ b = [parent_hash |-> b.parent_hash, transaction |-> b.transaction, timestamp |-> b.timestamp]
  /\ IsTransaction(b.transaction) /\ b.timestamp \in Nat

ASSUME BlockAssumption == \A b \in Block : IsBlock(b)

Sendable == {b \in Block : b.transaction.memo = None \/ MemoFits(b.transaction.memo)}

VARIABLES one, other

WireInit == one \in Sendable /\ other = one
WireNext == other' \in Sendable /\ UNCHANGED one
WireSpec == WireInit /\ [][WireNext]_<<one, other>>
-----------------------------------------------------------------------------
(* Properties. *)

\* The deduplication tables cannot take one transaction for another: transactions with
\* one digest are one transaction, written in the same way.
DigestIdentifies ==
  tx_hash(one.transaction) = tx_hash(other.transaction) => one.transaction = other.transaction

\* Nor can a chain be bent: blocks with one digest are one block.
BlockDigestIdentifies == block_hash(encode(one)) = block_hash(encode(other)) => one = other

\* The panics "is not hashable" cannot happen.
AlwaysHashable == Undefined \notin {tx_hash(one.transaction), block_hash(encode(one))}

\* block.rs: "Law: forall B: decode(encode(B)) == Ok(B)", also with an owner or a memo of the
\* greatest length, without a parent, and with the all-zero subaccount written out.
DecodesBack == decode(encode(one)) = one
=============================================================================
