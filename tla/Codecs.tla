------------------------------- MODULE Codecs -------------------------------
(***************************************************************************)
(* The binary formats of the node: announcements (crates/types/src/        *)
(* announcements), receipts and receipt proofs (crates/receipts), LRC20    *)
(* and Spark transactions, inventories and the messages of the peer        *)
(* protocol (crates/types).                                                *)
(*                                                                         *)
(* Every type has an encoder and a decoder that were written separately,   *)
(* field by field.  X_encode and X_decode are those two lists of fields    *)
(* in the order of the code; Encode and Decode are what the list does to   *)
(* a value and to a wire.  A wire is a sequence of chunks: what one        *)
(* primitive writer wrote, its size in bytes and the value.  A primitive   *)
(* reader that meets a chunk of another type has lost the boundaries: it   *)
(* fails, or it yields bytes that are not the value; both are Fail here.   *)
(***************************************************************************)
EXTENDS Integers, Sequences, FiniteSets, SequencesExt

Chunk(t, n, v) == [t |-> t, n |-> n, v |-> v]
Size(w) == FoldSeq(LAMBDA c, s : c.n + s, 0, w)

Ok(v, w) == [ok |-> TRUE, v |-> v, w |-> w]
Fail == [ok |-> FALSE, v |-> <<>>, w |-> <<>>]
\* One reader after another: `next' takes the value that was read and the rest of the wire.
Then(d, next(_, _)) == IF d.ok THEN next(d.v, d.w) ELSE Fail

(***************************************************************************)
(* The shapes the lists of fields are made of.  An optional value is       *)
(* <<>> or <<v>>, a map is a function, a variant is [kind, data].          *)
(***************************************************************************)
Fixed(t, n) == [s |-> "fixed", t |-> t, n |-> n]
U8 == Fixed("u8", 1)
U16 == Fixed("u16", 2)
U32 == Fixed("u32", 4)
U64 == Fixed("u64", 8)
Key == Fixed("key", 33)
Hash == Fixed("hash", 32)
Hash20 == Fixed("hash20", 20)
Bytes(t) == [s |-> "bytes", t |-> t]
Option(x) == [s |-> "option", of |-> x]
List(x) == [s |-> "list", of |-> x]
BTreeMap(x) == [s |-> "map", of |-> x]
Struct(fs) == [s |-> "struct", fields |-> fs]
Variant(flag, kind, of) == [flag |-> flag, kind |-> kind, of |-> of]
Enum(cases) == [s |-> "enum", cases |-> cases]
Metadata == [s |-> "metadata"]
AnnouncementToEnd == [s |-> "to_end"]
IssueAnnouncement == [s |-> "issue"]

(***************************************************************************)
(* Announcements: prefix, kind and data in one OP_RETURN push.  The data   *)
(* is cut by sizes and positions.                                          *)
(***************************************************************************)
ANNOUNCEMENT_PREFIX == "LRC20"
ANNOUNCEMENT_KINDS == [TokenPubkey |-> <<0, 0>>, TxFreeze |-> <<0, 1>>, Issue |-> <<0, 2>>,
                       TransferOwnership |-> <<0, 3>>, PubkeyFreeze |-> <<0, 5>>,
                       TokenLogo |-> <<0, 6>>]
ANNOUNCEMENT_MINIMAL_LENGTH == 7
ISSUE_ANNOUNCEMENT_MAX_SIZE == 49

\* Reads one value of type t and n bytes at the head of the data.
Read(t, n, w) ==
  IF w # <<>> /\ Head(w).t = t /\ Head(w).n = n THEN Ok(Head(w).v, Tail(w)) ELSE Fail

\* The bytes after the first n, when n ends a chunk.
RECURSIVE Skip(_, _)
Skip(n, w) ==
  CASE n = 0 -> Ok(<<>>, w)
    [] n > 0 /\ w # <<>> -> IF Head(w).n <= n THEN Skip(n - Head(w).n, Tail(w)) ELSE Fail
    [] OTHER -> Fail

\* Writes and reads a string after a byte of its length, a string being its length here.
Named(t, s) == <<Chunk("u8", 1, s), Chunk(t, s, s)>>
ReadNamed(t, lo, hi, w) ==
  Then(Read("u8", 1, w), LAMBDA l, rest : IF l \in lo .. hi THEN Read(t, l, rest) ELSE Fail)

TokenPubkey_to_data(a) ==
  <<Chunk("key", 33, a.token)>> \o Named("name", a.name) \o Named("symbol", a.symbol)
    \o <<Chunk("u8", 1, a.decimal), Chunk("u128le", 16, a.max_supply), Chunk("u8", 1, a.is_freezable)>>
TokenPubkey_from_data(w) ==
  IF Size(w) < 58 THEN Fail
  ELSE Then(Read("key", 33, w), LAMBDA key, w1 :
       Then(ReadNamed("name", 3, 17, w1), LAMBDA name, w2 :
       Then(ReadNamed("symbol", 3, 6, w2), LAMBDA symbol, w3 :
       Then(Read("u8", 1, w3), LAMBDA decimal, w4 :
       Then(Read("u128le", 16, w4), LAMBDA max, w5 :
       Then(Read("u8", 1, w5), LAMBDA freezable, w6 :
         Ok([kind |-> "TokenPubkey", token |-> key, name |-> name, symbol |-> symbol,
             decimal |-> decimal, max_supply |-> max, is_freezable |-> freezable], w6)))))))

TokenLogo_to_data(a) == <<Chunk("key", 33, a.token)>> \o Named("url", a.url)
TokenLogo_from_data(w) ==
  IF Size(w) < 48 THEN Fail
  ELSE Then(Read("key", 33, w), LAMBDA key, w1 :
       Then(ReadNamed("url", 15, 48, w1), LAMBDA url, w2 : Ok([kind |-> "TokenLogo", token |-> key, url |-> url], w2)))

\* Both keys are read behind the first 33 bytes: the token's key out of the new owner's script.
TransferOwnership_to_data(a) == <<Chunk("key", 33, a.token), Chunk("script", a.new_owner, a.new_owner)>>
TransferOwnership_from_data(w) ==
  IF Size(w) \notin 48 .. 81 THEN Fail
  ELSE Then(Skip(33, w), LAMBDA none, owner :
       Then(Read("key", 33, owner), LAMBDA key, w1 :
         Ok([kind |-> "TransferOwnership", token |-> key, new_owner |-> Size(owner)], <<>>)))

Issue_to_data(a) == <<Chunk("key", 33, a.token), Chunk("u128le", 16, a.amount)>>
Issue_from_data(w) ==
  IF Size(w) \notin 48 .. 49 THEN Fail
  ELSE Then(IF Size(w) = 48 THEN Read("xonly", 32, w) ELSE Read("key", 33, w), LAMBDA key, w1 :
       Then(Read("u128le", 16, w1), LAMBDA amount, w2 : Ok([kind |-> "Issue", token |-> key, amount |-> amount], w2)))

TxFreeze_to_data(a) ==
  <<Chunk("hash", 32, a.txid), Chunk("u32be", 4, a.vout), Chunk("key", 33, a.token)>>
TxFreeze_from_data(w) ==
  IF Size(w) \notin 68 .. 69 THEN Fail
  ELSE Then(Read("hash", 32, w), LAMBDA txid, w1 :
       Then(Read("u32be", 4, w1), LAMBDA vout, w2 :
       Then(IF Size(w) = 68 THEN Read("xonly", 32, w2) ELSE Read("key", 33, w2), LAMBDA key, w3 :
         Ok([kind |-> "TxFreeze", txid |-> txid, vout |-> vout, token |-> key], w3))))

PubkeyFreeze_to_data(a) == <<Chunk("key", 33, a.pubkey), Chunk("key", 33, a.token)>>
PubkeyFreeze_from_data(w) ==
  IF Size(w) # 66 THEN Fail
  ELSE Then(Read("key", 33, w), LAMBDA pubkey, w1 :
       Then(Read("key", 33, w1), LAMBDA key, w2 : Ok([kind |-> "PubkeyFreeze", pubkey |-> pubkey, token |-> key], w2)))

to_announcement_data_bytes(a) ==
  CASE a.kind = "TokenPubkey" -> TokenPubkey_to_data(a)
    [] a.kind = "TokenLogo" -> TokenLogo_to_data(a)
    [] a.kind = "TransferOwnership" -> TransferOwnership_to_data(a)
    [] a.kind = "Issue" -> Issue_to_data(a)
    [] a.kind = "TxFreeze" -> TxFreeze_to_data(a)
    [] a.kind = "PubkeyFreeze" -> PubkeyFreeze_to_data(a)

to_bytes(a) ==
  <<Chunk("prefix", 5, ANNOUNCEMENT_PREFIX), Chunk("kind", 2, ANNOUNCEMENT_KINDS[a.kind])>>
    \o to_announcement_data_bytes(a)

\* announcement_from_bytes: what follows the last field of the data is ignored.
FromData(kind, data) ==
  CASE kind = <<0, 0>> -> TokenPubkey_from_data(data)
    [] kind = <<0, 6>> -> TokenLogo_from_data(data)
    [] kind = <<0, 3>> -> TransferOwnership_from_data(data)
    [] kind = <<0, 2>> -> Issue_from_data(data)
    [] kind = <<0, 1>> -> TxFreeze_from_data(data)
    [] kind = <<0, 5>> -> PubkeyFreeze_from_data(data)
    [] OTHER -> Fail
announcement_from_bytes(w) ==
  IF Size(w) < ANNOUNCEMENT_MINIMAL_LENGTH THEN Fail
  ELSE Then(Read("prefix", 5, w), LAMBDA prefix, w1 :
       Then(Read("kind", 2, w1), LAMBDA kind, w2 :
       Then(FromData(kind, w2), LAMBDA a, rest : Ok(a, <<>>))))

\* The output script an announcement is carried by, and its reader.
to_script(a) == <<"OP_RETURN", to_bytes(a)>>
parse_op_return_script(script) ==
  IF Len(script) = 2 /\ script[1] = "OP_RETURN" /\ script[2] # <<>> /\ Head(script[2]).v = ANNOUNCEMENT_PREFIX
    THEN announcement_from_bytes(script[2])
    ELSE Fail

(***************************************************************************)
(* What a list of fields does.                                             *)
(***************************************************************************)
\* What is written before the parts of a value, and the parts with their shapes.
Keys(v) == SetToSortSeq(DOMAIN v, LAMBDA a, b : a < b)
CaseOf(x, kind) == CHOOSE c \in Range(x.cases) : c.kind = kind
Header(x, v) ==
  CASE x.s = "option" -> <<Chunk("u8", 1, Len(v))>>
    [] x.s = "list" -> <<Chunk("u32", 4, Len(v))>>
    [] x.s = "map" -> <<Chunk("u32", 4, Cardinality(DOMAIN v))>>
    [] x.s = "struct" -> <<>>
    [] x.s = "enum" -> <<Chunk("u8", 1, CaseOf(x, v.kind).flag)>>
    [] x.s = "metadata" -> <<Chunk("u32be", 4, Len(v))>>
PartsOf(x, v) ==
  CASE x.s \in {"option", "list"} -> [i \in 1 .. Len(v) |-> <<x.of, v[i]>>]
    [] x.s = "map" -> FlattenSeq([i \in 1 .. Cardinality(DOMAIN v) |-> << <<U32, Keys(v)[i]>>, <<x.of, v[Keys(v)[i]]>> >>])
    [] x.s = "struct" -> [i \in 1 .. Len(x.fields) |-> <<x.fields[i][2], v[x.fields[i][1]]>>]
    [] x.s = "enum" -> << <<CaseOf(x, v.kind).of, v.data>> >>
    [] x.s = "metadata" -> [i \in 1 .. Len(v) |-> <<Bytes("json"), v[i]>>]
EncodeParts(parts, encode(_, _)) == FlattenSeq([i \in 1 .. Len(parts) |-> encode(parts[i][1], parts[i][2])])
RECURSIVE Encode(_, _)
Encode(x, v) ==
  CASE x.s = "fixed" -> <<Chunk(x.t, x.n, v)>>
    [] x.s = "bytes" -> <<Chunk(x.t, 1, v)>>
    [] x.s \in {"to_end", "issue"} -> to_bytes(v)
    [] OTHER -> Header(x, v) \o EncodeParts(PartsOf(x, v), Encode)

\* The same for the reader: what the header says, the shapes that follow it and the value they make.
Take(t, w) == IF w # <<>> /\ Head(w).t = t THEN Ok(Head(w).v, Tail(w)) ELSE Fail
ReadHeader(x, w) ==
  CASE x.s = "option" -> Take("u8", w)
    [] x.s \in {"list", "map"} -> Take("u32", w)
    [] x.s = "struct" -> Ok(0, w)
    [] x.s = "enum" -> Then(Take("u8", w), LAMBDA flag, rest :
                         IF \E c \in Range(x.cases) : c.flag = flag THEN Ok(flag, rest) ELSE Fail)
    [] x.s = "metadata" -> Take("u32be", w)
Flagged(x, flag) == CHOOSE c \in Range(x.cases) : c.flag = flag
ShapesOf(x, n) ==
  CASE x.s = "option" -> IF n = 0 THEN <<>> ELSE <<x.of>>
    [] x.s = "list" -> [i \in 1 .. n |-> x.of]
    [] x.s = "map" -> [i \in 1 .. 2 * n |-> IF i % 2 = 1 THEN U32 ELSE x.of]
    [] x.s = "struct" -> [i \in 1 .. Len(x.fields) |-> x.fields[i][2]]
    [] x.s = "enum" -> <<Flagged(x, n).of>>
    [] x.s = "metadata" -> IF n = 0 THEN <<>> ELSE <<Bytes("json")>>
\* A key that comes twice in a map keeps its last value.
ValueOf(x, n, v) ==
  CASE x.s \in {"option", "list", "metadata"} -> v
    [] x.s = "map" -> [k \in {v[2 * i - 1] : i \in 1 .. n} |->
                         v[2 * CHOOSE i \in 1 .. n : v[2 * i - 1] = k /\ \A j \in i + 1 .. n : v[2 * j - 1] # k]]
    [] x.s = "struct" -> [f \in {x.fields[i][1] : i \in 1 .. Len(x.fields)} |->
                            v[CHOOSE i \in 1 .. Len(x.fields) : x.fields[i][1] = f]]
    [] x.s = "enum" -> [kind |-> Flagged(x, n).kind, data |-> v[1]]
\* One value of each shape after the other.
DecodeAll(xs, w, decode(_, _)) ==
  FoldLeft(LAMBDA d, x : Then(d, LAMBDA vs, rest : Then(decode(x, rest), LAMBDA v, end : Ok(Append(vs, v), end))),
           Ok(<<>>, w), xs)
RECURSIVE Decode(_, _)
Decode(x, w) ==
  CASE x.s \in {"fixed", "bytes"} -> Take(x.t, w)
    [] x.s = "to_end" -> announcement_from_bytes(w)
    [] x.s = "issue" ->
         Then(Skip(ISSUE_ANNOUNCEMENT_MAX_SIZE + ANNOUNCEMENT_MINIMAL_LENGTH, w), LAMBDA none, rest :
         Then(announcement_from_bytes(SubSeq(w, 1, Len(w) - Len(rest))), LAMBDA a, end : Ok(a, rest)))
    [] OTHER -> Then(ReadHeader(x, w), LAMBDA n, rest :
                Then(DecodeAll(ShapesOf(x, n), rest, Decode), LAMBDA vs, end : Ok(ValueOf(x, n, vs), end)))

(***************************************************************************)
(* Receipts and receipt proofs (crates/receipts).                          *)
(***************************************************************************)
Receipt_encode == Struct(<< <<"amount", Fixed("u128be", 16)>>, <<"blinding_factor", Fixed("blinding", 16)>>,
                            <<"token_pubkey", Key>> >>)
Receipt_decode == Struct(<< <<"amount", Fixed("u128be", 16)>>, <<"blinding_factor", Fixed("blinding", 16)>>,
                            <<"token_pubkey", Key>> >>)

Sig_encode == Struct(<< <<"receipt", Receipt_encode>>, <<"inner_key", Key>>, <<"metadata", Metadata>> >>)
Sig_decode == Struct(<< <<"receipt", Receipt_decode>>, <<"inner_key", Key>>, <<"metadata", Metadata>> >>)

P2TR_encode == Struct(<< <<"receipt", Receipt_encode>>, <<"inner_key", Key>>, <<"metadata", Metadata>> >>)
P2TR_decode == Struct(<< <<"receipt", Receipt_decode>>, <<"inner_key", Key>>, <<"metadata", Metadata>> >>)

P2WSH_encode == Struct(<< <<"receipt", Receipt_encode>>, <<"inner_key", Key>>, <<"script", Bytes("script")>> >>)
P2WSH_decode == Struct(<< <<"receipt", Receipt_decode>>, <<"inner_key", Key>>, <<"script", Bytes("script")>> >>)

EmptyReceipt_encode == Struct(<< <<"inner_key", Key>> >>)
EmptyReceipt_decode == Struct(<< <<"inner_key", Key>> >>)

Multisig_encode == Struct(<< <<"receipt", Receipt_encode>>, <<"inner_keys", List(Key)>>, <<"m", U8>> >>)
Multisig_decode == Struct(<< <<"receipt", Receipt_decode>>, <<"inner_keys", List(Key)>>, <<"m", U8>> >>)

Lightning_encode == Struct(<< <<"receipt", Receipt_encode>>, <<"revocation_pubkey", Key>>,
                              <<"to_self_delay", U16>>, <<"local_delayed_pubkey", Key>> >>)
Lightning_decode == Struct(<< <<"receipt", Receipt_decode>>, <<"revocation_pubkey", Key>>,
                              <<"to_self_delay", U16>>, <<"local_delayed_pubkey", Key>> >>)

HtlcScriptKind_encode == Enum(<<Variant(0, "Offered", Struct(<<>>)), Variant(1, "Received", U32)>>)
HtlcScriptKind_decode == Enum(<<Variant(0, "Offered", Struct(<<>>)), Variant(1, "Received", U32)>>)
LightningHtlc_encode ==
  Struct(<< <<"receipt", Receipt_encode>>, <<"revocation_key_hash", Hash20>>, <<"remote_htlc_key", Key>>,
            <<"local_htlc_key", Key>>, <<"payment_hash", Hash20>>, <<"kind", HtlcScriptKind_encode>> >>)
LightningHtlc_decode ==
  Struct(<< <<"receipt", Receipt_decode>>, <<"revocation_key_hash", Hash20>>, <<"remote_htlc_key", Key>>,
            <<"local_htlc_key", Key>>, <<"payment_hash", Hash20>>, <<"kind", HtlcScriptKind_decode>> >>)

SparkExit_encode == Struct(<< <<"receipt", Receipt_encode>>, <<"revocation_key", Key>>, <<"locktime", U32>>,
                              <<"delay_key", Key>>, <<"metadata", Metadata>> >>)
SparkExit_decode == Struct(<< <<"receipt", Receipt_decode>>, <<"revocation_key", Key>>, <<"locktime", U32>>,
                              <<"delay_key", Key>>, <<"metadata", Metadata>> >>)

\* The reader expects one more key after the commitment.
Bulletproof_encode ==
  Struct(<< <<"receipt", Receipt_encode>>, <<"inner_key", Key>>, <<"sender_key", Key>>,
            <<"commitment", Bytes("point")>>, <<"proof", Bytes("range_proof")>>,
            <<"signature", Fixed("sig", 64)>>, <<"token_pubkey_signature", Fixed("sig", 64)>> >>)
Bulletproof_decode ==
  Struct(<< <<"receipt", Receipt_decode>>, <<"inner_key", Key>>, <<"sender_key", Key>>,
            <<"commitment", Bytes("point")>>, <<"bytes", Key>>, <<"proof", Bytes("range_proof")>>,
            <<"signature", Fixed("sig", 64)>>, <<"token_pubkey_signature", Fixed("sig", 64)>> >>)

ReceiptProof_encode ==
  Enum(<<Variant(0, "Sig", Sig_encode), Variant(6, "P2WSH", P2WSH_encode), Variant(7, "P2TR", P2TR_encode),
         Variant(4, "Bulletproof", Bulletproof_encode), Variant(5, "EmptyReceipt", EmptyReceipt_encode),
         Variant(1, "Multisig", Multisig_encode), Variant(2, "Lightning", Lightning_encode),
         Variant(3, "LightningHtlc", LightningHtlc_encode), Variant(8, "SparkExit", SparkExit_encode)>>)
ReceiptProof_decode ==
  Enum(<<Variant(0, "Sig", Sig_decode), Variant(6, "P2WSH", P2WSH_decode), Variant(7, "P2TR", P2TR_decode),
         Variant(4, "Bulletproof", Bulletproof_decode), Variant(5, "EmptyReceipt", EmptyReceipt_decode),
         Variant(1, "Multisig", Multisig_decode), Variant(2, "Lightning", Lightning_decode),
         Variant(3, "LightningHtlc", LightningHtlc_decode), Variant(8, "SparkExit", SparkExit_decode)>>)

(***************************************************************************)
(* LRC20 transactions.  An announcement is read up to the end of the data. *)
(***************************************************************************)
Lrc20TxType_encode ==
  Enum(<<Variant(0, "Issue", Struct(<< <<"announcement", IssueAnnouncement>>,
                                       <<"output_proofs", Option(BTreeMap(ReceiptProof_encode))>> >>)),
         Variant(1, "Transfer", Struct(<< <<"input_proofs", BTreeMap(ReceiptProof_encode)>>,
                                          <<"output_proofs", BTreeMap(ReceiptProof_encode)>> >>)),
         Variant(2, "Announcement", AnnouncementToEnd),
         Variant(4, "SparkExit", BTreeMap(ReceiptProof_encode))>>)
Lrc20TxType_decode ==
  Enum(<<Variant(0, "Issue", Struct(<< <<"announcement", IssueAnnouncement>>,
                                       <<"output_proofs", Option(BTreeMap(ReceiptProof_decode))>> >>)),
         Variant(1, "Transfer", Struct(<< <<"input_proofs", BTreeMap(ReceiptProof_decode)>>,
                                          <<"output_proofs", BTreeMap(ReceiptProof_decode)>> >>)),
         Variant(2, "Announcement", AnnouncementToEnd),
         Variant(4, "SparkExit", BTreeMap(ReceiptProof_decode))>>)
Lrc20Transaction_encode == Struct(<< <<"bitcoin_tx", Bytes("tx")>>, <<"tx_type", Lrc20TxType_encode>> >>)
Lrc20Transaction_decode == Struct(<< <<"bitcoin_tx", Bytes("tx")>>, <<"tx_type", Lrc20TxType_decode>> >>)

(***************************************************************************)
(* Spark transactions, signatures and freezes.                             *)
(***************************************************************************)
SparkSignature_encode == Enum(<<Variant(0, "ECDSA", Bytes("sig")), Variant(1, "Schnorr", Bytes("sig"))>>)
SparkSignature_decode == Enum(<<Variant(0, "ECDSA", Bytes("sig")), Variant(1, "Schnorr", Bytes("sig"))>>)

\* input_index is read and never written.
OperatorSpecificOwnerSignature_encode ==
  Struct(<< <<"operator_identity_public_key", Option(Key)>>, <<"owner_signature", SparkSignature_encode>> >>)
OperatorSpecificOwnerSignature_decode ==
  Struct(<< <<"operator_identity_public_key", Option(Key)>>, <<"input_index", Option(U32)>>,
            <<"owner_signature", SparkSignature_decode>> >>)

TokenLeafToSpend_encode == Struct(<< <<"parent_output_hash", Hash>>, <<"parent_output_vout", U32>> >>)
TokenLeafToSpend_decode == Struct(<< <<"parent_output_hash", Hash>>, <<"parent_output_vout", U32>> >>)

TokenLeafOutput_encode ==
  Struct(<< <<"id", Bytes("id")>>, <<"owner_public_key", Key>>, <<"receipt", Receipt_encode>>,
            <<"revocation_public_key", Key>>, <<"withdrawal_bond_sats", U64>>, <<"withdrawal_locktime", U32>>,
            <<"is_frozen", Option(U8)>>, <<"withdraw_txid", Option(Hash)>>, <<"withdraw_tx_vout", Option(U32)>>,
            <<"withdraw_height", Option(U32)>>, <<"withdraw_block_hash", Option(Hash)>> >>)
\* Mutant: the optional fields of a withdrawal read in another order.
TokenLeafOutput_decodeSwapped ==
  Struct(<< <<"id", Bytes("id")>>, <<"owner_public_key", Key>>, <<"receipt", Receipt_decode>>,
            <<"revocation_public_key", Key>>, <<"withdrawal_bond_sats", U64>>, <<"withdrawal_locktime", U32>>,
            <<"is_frozen", Option(U8)>>, <<"withdraw_txid", Option(Hash)>>, <<"withdraw_height", Option(U32)>>,
            <<"withdraw_tx_vout", Option(U32)>>, <<"withdraw_block_hash", Option(Hash)>> >>)
TokenLeafOutput_decode ==
  Struct(<< <<"id", Bytes("id")>>, <<"owner_public_key", Key>>, <<"receipt", Receipt_decode>>,
            <<"revocation_public_key", Key>>, <<"withdrawal_bond_sats", U64>>, <<"withdrawal_locktime", U32>>,
            <<"is_frozen", Option(U8)>>, <<"withdraw_txid", Option(Hash)>>, <<"withdraw_tx_vout", Option(U32)>>,
            <<"withdraw_height", Option(U32)>>, <<"withdraw_block_hash", Option(Hash)>> >>)

TokenTransaction_encode ==
  Struct(<< <<"leaves_to_create", List(TokenLeafOutput_encode)>>,
            <<"input", Enum(<<Variant(0, "Mint", Struct(<< <<"issuer_public_key", Key>>, <<"timestamp", U64>>,
                                 <<"issuer_signature", Option(OperatorSpecificOwnerSignature_encode)>> >>)),
                              Variant(1, "Transfer", List(TokenLeafToSpend_encode))>>)>>,
            <<"operators", List(Key)>>, <<"network", Option(U32)>> >>)
TokenTransaction_decode ==
  Struct(<< <<"leaves_to_create", List(TokenLeafOutput_decode)>>,
            <<"input", Enum(<<Variant(0, "Mint", Struct(<< <<"issuer_public_key", Key>>, <<"timestamp", U64>>,
                                 <<"issuer_signature", Option(OperatorSpecificOwnerSignature_decode)>> >>)),
                              Variant(1, "Transfer", List(TokenLeafToSpend_decode))>>)>>,
            <<"operators", List(Key)>>, <<"network", Option(U32)>> >>)

SparkSignatureData_encode ==
  Struct(<< <<"token_tx_hash", Hash>>, <<"operator_pubkey", Key>>, <<"operator_signature", SparkSignature_encode>>,
            <<"owner_signature", Option(OperatorSpecificOwnerSignature_encode)>>,
            <<"outputs_to_spend_data", List(Struct(<< <<"index", U32>>, <<"secret", Option(Fixed("secret", 32))>> >>))>> >>)
SparkSignatureData_decode ==
  Struct(<< <<"token_tx_hash", Hash>>, <<"operator_pubkey", Key>>, <<"operator_signature", SparkSignature_decode>>,
            <<"owner_signature", Option(OperatorSpecificOwnerSignature_decode)>>,
            <<"outputs_to_spend_data", List(Struct(<< <<"index", U32>>, <<"secret", Option(Fixed("secret", 32))>> >>))>> >>)

TokensFreezeData_encode ==
  Struct(<< <<"issuer_signature", SparkSignature_encode>>, <<"owner_public_key", Key>>,
            <<"operator_identity_public_key", Key>>, <<"should_unfreeze", U8>>,
            <<"token_public_key", Key>>, <<"timestamp", U64>> >>)
TokensFreezeData_decode ==
  Struct(<< <<"issuer_signature", SparkSignature_decode>>, <<"owner_public_key", Key>>,
            <<"operator_identity_public_key", Key>>, <<"should_unfreeze", U8>>,
            <<"token_public_key", Key>>, <<"timestamp", U64>> >>)

(***************************************************************************)
(* Peer messages: magic, command and payload.                              *)
(***************************************************************************)
Inventory_encode == Enum(<<Variant(0, "Ltx", Hash), Variant(1, "SparkTx", Hash), Variant(2, "SparkSignatures", Hash),
                           Variant(3, "SparkFreeze", TokensFreezeData_encode)>>)
Inventory_decode == Enum(<<Variant(0, "Ltx", Hash), Variant(1, "SparkTx", Hash), Variant(2, "SparkSignatures", Hash),
                           Variant(3, "SparkFreeze", TokensFreezeData_decode)>>)

Empty == {"verack", "wtxidrelay", "ltxidrelay", "ltxidack", "getaddr"}

\* RawNetworkMessage: the payload of an unknown command is written as a vector.
RawNetworkMessage_encode(m) ==
  LET cmd == m.kind
      payload == CASE cmd \in {"inv", "getdata"} -> Encode(List(Inventory_encode), m.data)
                   [] cmd = "lrc20tx" -> Encode(List(Lrc20Transaction_encode), m.data)
                   [] cmd = "sparktx" -> Encode(List(TokenTransaction_encode), m.data)
                   [] cmd = "sparksig" -> Encode(List(SparkSignatureData_encode), m.data)
                   [] cmd \in {"ping", "pong"} -> Encode(U64, m.data)
                   [] cmd \in {"addr", "version"} -> Encode(Bytes(cmd), m.data)
                   [] cmd \in Empty -> <<>>
                   [] cmd = "unknown" -> <<Chunk("len", 1, Len(m.data))>> \o m.data
  IN [magic |-> m.magic, cmd |-> cmd, payload |-> payload]

\* ... and read back as it is.  Whatever follows the value in the payload is ignored.
RawNetworkMessage_decode(raw) ==
  LET cmd == raw.cmd
      d == CASE cmd \in {"inv", "getdata"} -> Decode(List(Inventory_decode), raw.payload)
             [] cmd = "lrc20tx" -> Decode(List(Lrc20Transaction_decode), raw.payload)
             [] cmd = "sparktx" -> Decode(List(TokenTransaction_decode), raw.payload)
             [] cmd = "sparksig" -> Decode(List(SparkSignatureData_decode), raw.payload)
             [] cmd \in {"ping", "pong"} -> Decode(U64, raw.payload)
             [] cmd \in {"addr", "version"} -> Decode(Bytes(cmd), raw.payload)
             [] cmd \in Empty -> Ok(<<>>, raw.payload)
             [] OTHER -> Ok(raw.payload, <<>>)
  IN Then(d, LAMBDA data, rest : Ok([magic |-> raw.magic, kind |-> cmd, data |-> data], <<>>))
=============================================================================
