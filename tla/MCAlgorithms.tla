---------------------------- MODULE MCAlgorithms ----------------------------
(***************************************************************************)
(* Samples for the formats (Codecs), the receipt proofs and the isolated   *)
(* checks (ReceiptProofs, IsolatedChecks), the transaction builder of the  *)
(* dev-kit (TxBuilder), the range proof (RangeProof), and the policies,    *)
(* coin selection and signing of the Bitcoin wallet (BitcoinWallet).  A    *)
(* state is one sample, or one schema of the database (Schema).            *)
(***************************************************************************)
EXTENDS TxBuilder

CONSTANTS Q, RANGE_PROOF_SIZE

C == INSTANCE Codecs
R == INSTANCE RangeProof
W == INSTANCE BitcoinWallet WITH
       TXIN_BASE_WEIGHT <- 4, SatisfactionWeight <- [External |-> 4, Internal |-> 2], HeaderWeight <- 6, OutputWeight <- 4,
       DrainLen <- 2, SizeOfChange <- 3, DustValue <- [x |-> 2, ext |-> 2, int |-> 2, op_return |-> 1], BNB_TOTAL_TRIES <- 60,
       COINBASE_MATURITY <- 2

VARIABLES sample, level, db
Populated == {"l1_transaction", "proof", "token", "spark_transaction", "spark_output", "user_signature",
              "operator_signature", "operator_pubkey"}
Repeated == {"spark_output", "operator_signature", "user_signature"}
Db == INSTANCE Schema
None == [about |-> "none"]

(***************************************************************************)
(* Messages of the peer protocol.                                          *)
(***************************************************************************)
FormReceipt == [amount |-> 5, blinding_factor |-> 0, token_pubkey |-> 2]
Variant(kind, data) == [kind |-> kind, data |-> data]
FormProofs ==
  {Variant("Sig", [receipt |-> FormReceipt, inner_key |-> 3, metadata |-> m]) : m \in {<<>>, <<9>>}}
  \cup {Variant("P2TR", [receipt |-> FormReceipt, inner_key |-> 3, metadata |-> <<9>>]),
        Variant("P2WSH", [receipt |-> FormReceipt, inner_key |-> 3, script |-> 4]),
        Variant("EmptyReceipt", [inner_key |-> 3]),
        Variant("Multisig", [receipt |-> FormReceipt, inner_keys |-> <<3, 4, 5>>, m |-> 2]),
        Variant("Lightning", [receipt |-> FormReceipt, revocation_pubkey |-> 3, to_self_delay |-> 7,
                              local_delayed_pubkey |-> 4]),
        Variant("SparkExit", [receipt |-> FormReceipt, revocation_key |-> 3, locktime |-> 7, delay_key |-> 4,
                              metadata |-> <<>>]),
        Variant("Bulletproof", [receipt |-> FormReceipt, inner_key |-> 3, sender_key |-> 4, commitment |-> 5,
                                proof |-> 6, signature |-> 7, token_pubkey_signature |-> 8])}
  \cup {Variant("LightningHtlc", [receipt |-> FormReceipt, revocation_key_hash |-> 1, remote_htlc_key |-> 3,
                                  local_htlc_key |-> 4, payment_hash |-> 5, kind |-> k]) :
          k \in {Variant("Offered", <<>>), Variant("Received", 6)}}
FormAnnouncements ==
  {[kind |-> "TokenPubkey", token |-> 2, name |-> n, symbol |-> s, decimal |-> 8, max_supply |-> 100,
    is_freezable |-> 1] : n \in {2, 3, 17}, s \in {3, 6}}
  \cup {[kind |-> "TokenLogo", token |-> 2, url |-> u] : u \in {14, 15, 48, 49}}
  \cup {[kind |-> "TransferOwnership", token |-> 2, new_owner |-> s] : s \in {22, 25, 34}}
  \cup {[kind |-> "Issue", token |-> 2, amount |-> 5],
        [kind |-> "TxFreeze", txid |-> 1, vout |-> 0, token |-> 2],
        [kind |-> "PubkeyFreeze", pubkey |-> 3, token |-> 2]}
IssueForm == [kind |-> "Issue", token |-> 2, amount |-> 5]

FormTxs ==
  {[bitcoin_tx |-> 1, tx_type |-> t] :
     t \in {Variant("Issue", [announcement |-> IssueForm, output_proofs |-> o]) :
              o \in {<<>>} \cup {<<(0 :> p)>> : p \in FormProofs}}
           \cup {Variant("Transfer", [input_proofs |-> (0 :> p), output_proofs |-> (0 :> p @@ 2 :> p)]) :
                   p \in FormProofs}
           \cup {Variant("Announcement", a) : a \in FormAnnouncements}
           \cup {Variant("SparkExit", (1 :> p)) : p \in FormProofs}}

Leaf == [id |-> 1, owner_public_key |-> 2, receipt |-> FormReceipt, revocation_public_key |-> 3,
         withdrawal_bond_sats |-> 4, withdrawal_locktime |-> 5, is_frozen |-> <<>>, withdraw_txid |-> <<>>,
         withdraw_tx_vout |-> <<>>, withdraw_height |-> <<>>, withdraw_block_hash |-> <<>>]
Leaves == {Leaf} \cup {[Leaf EXCEPT !.is_frozen = <<1>>, !.withdraw_txid = <<7>>, !.withdraw_tx_vout = <<0>>,
                                    !.withdraw_height = <<6>>, !.withdraw_block_hash = h] : h \in {<<>>, <<8>>}}
OwnerSignature == [operator_identity_public_key |-> <<4>>, input_index |-> <<0>>,
                   owner_signature |-> Variant("Schnorr", 5)]
FormSparkTxs ==
  {[leaves_to_create |-> <<l, Leaf>>, input |-> i, operators |-> <<1, 2>>, network |-> n] :
     l \in Leaves, n \in {<<>>, <<1>>},
     i \in {Variant("Mint", [issuer_public_key |-> 2, timestamp |-> 3, issuer_signature |-> s]) :
              s \in {<<>>, <<OwnerSignature>>}}
           \cup {Variant("Transfer", [k \in 1 .. n |-> [parent_output_hash |-> k, parent_output_vout |-> 0]]) :
                   n \in 0 .. 2}}
FormSignatures ==
  {[token_tx_hash |-> 1, operator_pubkey |-> 2, operator_signature |-> Variant("ECDSA", 3), owner_signature |-> s,
    outputs_to_spend_data |-> <<[index |-> 0, secret |-> x]>>] :
     s \in {<<>>, <<OwnerSignature>>}, x \in {<<>>, <<9>>}}
FormInventories ==
  {Variant(k, 1) : k \in {"Ltx", "SparkTx", "SparkSignatures"}}
  \cup {Variant("SparkFreeze", [issuer_signature |-> Variant("Schnorr", 1), owner_public_key |-> 2,
                                operator_identity_public_key |-> 3, should_unfreeze |-> u,
                                token_public_key |-> 4, timestamp |-> 5]) : u \in 0 .. 1}

FewTxs == {[bitcoin_tx |-> 2, tx_type |-> Variant("SparkExit", (0 :> p))] : p \in FormProofs}
Messages ==
  {[magic |-> 1, kind |-> k, data |-> <<>>] : k \in C!Empty}
  \cup {[magic |-> 1, kind |-> k, data |-> 7] : k \in {"ping", "pong", "addr", "version"}}
  \cup {[magic |-> 1, kind |-> k, data |-> <<a, b>>] : k \in {"inv", "getdata"}, a, b \in FormInventories}
  \cup {[magic |-> 1, kind |-> "lrc20tx", data |-> <<a>>] : a \in FormTxs}
  \cup {[magic |-> 1, kind |-> "lrc20tx", data |-> <<a, b>>] : a \in FormTxs, b \in FewTxs}
  \cup {[magic |-> 1, kind |-> "sparktx", data |-> <<a>>] : a \in FormSparkTxs}
  \cup {[magic |-> 1, kind |-> "sparksig", data |-> <<a, b>>] : a, b \in FormSignatures}
  \cup {[magic |-> 1, kind |-> "unknown", data |-> << >>]}

\* The forms that RoundTrips leaves out: writer and reader differ, or a string is too long or too short.
ProofLost(p) == p.kind = "Bulletproof"
StringsOff(a) ==
  \/ a.kind = "TokenPubkey" /\ (a.name \notin 3 .. 17 \/ a.symbol \notin 3 .. 6)
  \/ a.kind = "TokenLogo" /\ a.url \notin 15 .. 48
Unnamed(type) == type.kind = "Announcement" /\ StringsOff(type.data)
AnnouncementLost(a) ==
  \/ a.kind = "TransferOwnership"
  \/ StringsOff(a)
TxLost(t, last) ==
  LET d == t.tx_type.data
      lost(proofs) == \E v \in DOMAIN proofs : ProofLost(proofs[v])
  IN CASE t.tx_type.kind = "Issue" -> d.output_proofs # <<>> /\ lost(d.output_proofs[1])
       [] t.tx_type.kind = "Transfer" -> lost(d.input_proofs) \/ lost(d.output_proofs)
       [] t.tx_type.kind = "Announcement" -> AnnouncementLost(d) \/ ~last
       [] t.tx_type.kind = "SparkExit" -> lost(d)
Lost(m) ==
  \/ m.kind = "lrc20tx" /\ \E i \in DOMAIN m.data : TxLost(m.data[i], i = Len(m.data))
  \/ m.kind = "sparktx" /\ \E i \in DOMAIN m.data : m.data[i].input.kind = "Mint"
                                                    /\ m.data[i].input.data.issuer_signature # <<>>
  \/ m.kind = "sparksig" /\ \E i \in DOMAIN m.data : m.data[i].owner_signature # <<>>
  \/ m.kind = "unknown"

(***************************************************************************)
(* Proofs of every kind over a few keys and receipts, and witnesses.       *)
(***************************************************************************)
Keys == {<<i>> : i \in 1 .. 2}
Receipts == {[amount |-> a, token |-> <<2>>] : a \in 0 .. 2} \cup {EmptyReceipt}
Htlc(r, a, b, cltv) ==
  [kind |-> "LightningHtlc", receipt |-> r, revocation_key_hash |-> 1, remote_htlc_key |-> a,
   local_htlc_key |-> b, payment_hash |-> 2, cltv_expiry |-> cltv]
BaseProofs ==
  {[kind |-> k, receipt |-> r, inner_key |-> a, metadata |-> m] :
     k \in {"Sig", "P2TR"}, r \in Receipts, a \in Keys \cup {ZERO_PUBLIC_KEY}, m \in {<<>>, <<1>>, <<3>>}}
  \cup {[kind |-> "EmptyReceipt", inner_key |-> a] : a \in Keys}
  \cup {[kind |-> "Multisig", receipt |-> r, inner_keys |-> ks, m |-> n] :
          r \in Receipts, ks \in {<<>>, << <<1>>, <<2>> >>, << <<2>>, <<1>> >>, << <<3>>, <<1>>, <<2>> >>}, n \in 1 .. 2}
  \cup {[kind |-> "Lightning", receipt |-> r, revocation_pubkey |-> a, to_self_delay |-> d,
         local_delayed_pubkey |-> b] : r \in Receipts, a, b \in Keys, d \in {16, 144}}
  \cup {Htlc(r, a, b, c) : r \in Receipts, a, b \in Keys, c \in {<<>>, <<5>>}}
  \cup {[kind |-> "SparkExit", receipt |-> r, revocation_key |-> a, delay_key |-> b, locktime |-> 5] :
          r \in Receipts, a, b \in Keys}
  \cup {[kind |-> "Bulletproof", receipt |-> r, inner_key |-> a, sender_key |-> <<1>>, amount_ok |-> m, range_proof_ok |-> o] :
          r \in Receipts, a \in Keys, m, o \in BOOLEAN}
\* The script behind an output of a proof, and the output.
RedeemScript(p) ==
  CASE p.kind = "Multisig" -> create_multisig_redeem_script(p)
    [] p.kind = "Lightning" -> to_redeem_script(p)
    [] p.kind = "LightningHtlc" -> HtlcProof_to_script(p)
HasScript(p) == p.kind \in {"Lightning", "LightningHtlc"} \/ (p.kind = "Multisig" /\ p.inner_keys # <<>>)
Scripts == {RedeemScript(p) : p \in {q \in BaseProofs : HasScript(q)}}
ScriptProofs(s) == {[kind |-> "P2WSH", receipt |-> r, inner_key |-> a, script |-> s] : r \in Receipts, a \in Keys}
Outputs ==
  {P2WSH(s) : s \in Scripts} \cup {P2WPKH(Tweak(a, r)) : a \in Keys, r \in Receipts}
  \cup {P2WPKH(ReceiptKey(ReceiptHash(r, <<1>>), a)) : a \in Keys, r \in Receipts}
  \cup {P2TR(Tweak(a, r), <<>>) : a \in Keys, r \in Receipts}
  \cup {P2TR(p.revocation_key, <<timelock_script(p)>>) : p \in {q \in BaseProofs : q.kind = "SparkExit"}}
  \cup {P2WPKH(a) : a \in Keys}
Acceptable(o) ==
  {p \in BaseProofs \cup (IF o[1] = "p2wsh" THEN ScriptProofs(o[2]) ELSE {}) : checked_check_by_output(p, o)}

\* The witness the owners build to spend an output of the proof (into_witness).
IntoWitness(p) ==
  CASE p.kind = "Lightning" -> [stack |-> <<Sig(p.local_delayed_pubkey), <<"flag", 0>> >>, script |-> RedeemScript(p)]
    [] p.kind = "LightningHtlc" -> [stack |-> <<Sig(p.remote_htlc_key)>>, script |-> RedeemScript(p)]
    [] p.kind = "P2WSH" -> [stack |-> <<>>, script |-> p.script]
    [] p.kind = "Multisig" -> sign_input(p, [kind |-> "Multisig2x2"], {p.inner_keys[i][1] : i \in 1 .. p.m})[1]
    [] OTHER -> sign_input(p, [kind |-> "Receipt"], 0 .. 3)[1]

(***************************************************************************)
(* Transfers and issuances out of a few proofs: inputs and outputs in the  *)
(* order of the proofs, an OP_RETURN output first or last, a proof left    *)
(* out, moved to the OP_RETURN output or put on the wrong output.          *)
(***************************************************************************)
SigProof(k, a, t) == [kind |-> "Sig", receipt |-> [amount |-> a, token |-> t], inner_key |-> k, metadata |-> <<>>]
EmptyProof == [kind |-> "EmptyReceipt", inner_key |-> <<1>>]
TxProofs == {SigProof(<<1>>, a, <<2>>) : a \in 0 .. 3} \cup {SigProof(<<1>>, 1, <<3>>), EmptyProof}
Few(S) == UNION {[1 .. n -> S] : n \in 1 .. 2}
ProofMap(ps, from) == [v \in from .. from + Len(ps) - 1 |-> ps[v - from + 1]]
ScriptsOf(ps) == [i \in 1 .. Len(ps) |-> OutputScript(ps[i])]
WitnessesOf(ps) == [i \in 1 .. Len(ps) |-> IntoWitness(ps[i])]
OpReturn(a) == << <<"op_return", a>> >>
Changes == {"none", "op_return", "dropped", "on_op_return", "exchanged", "burnt"}
\* The proofs of the outputs after a change, the first one being output number `from'.
Changed(ps, from, change) ==
  LET m == ProofMap(ps, from)
  IN CASE change = "dropped" -> [v \in DOMAIN m \ {from} |-> m[v]]
       [] change = "on_op_return" -> [v \in (DOMAIN m \ {from}) \cup {from + Len(ps)} |->
                                        IF v = from + Len(ps) THEN m[from] ELSE m[v]]
       [] change = "exchanged" -> [v \in DOMAIN m |-> m[2 * from + Len(ps) - 1 - v]]
       [] OTHER -> m
TransferOf(ins, outs, change) ==
  LET spent == IF change = "burnt" THEN [ins EXCEPT ![1] = SigProof(ZERO_PUBLIC_KEY, Amount(ins[1]), Token(ins[1]))]
                                   ELSE ins
  IN [kind |-> "Transfer", input_proofs |-> ProofMap(spent, 0), output_proofs |-> Changed(outs, 0, change),
      tx |-> [input |-> WitnessesOf(spent),
              output |-> ScriptsOf(outs) \o (IF change \in {"op_return", "on_op_return"} THEN OpReturn(<<>>) ELSE <<>>)]]
IssueOf(outs, a, change) ==
  [kind |-> "Issue", announcement |-> a, output_proofs |-> <<Changed(outs, 1, change)>>,
   tx |-> [input |-> <<>>, output |-> OpReturn(<<a>>) \o ScriptsOf(outs)
                                        \o (IF change = "on_op_return" THEN OpReturn(<<>>) ELSE <<>>)]]

(***************************************************************************)
(* Inputs that spend outputs of every type of address.                     *)
(***************************************************************************)
OwnerScript == create_multisig_redeem_script([kind |-> "Multisig", receipt |-> EmptyReceipt, m |-> 1,
                                              inner_keys |-> << <<1>>, <<2>> >>])
Addresses == {P2WPKH(<<1>>), P2WPKH(Tweak(<<1>>, EmptyReceipt)), P2WPKH(<<2>>), P2WSH(OwnerScript),
              <<"p2pkh", <<2>> >>, <<"p2sh", OwnerScript>>, P2TR(<<2>>, <<>>)}
Spend(o, known) ==
  LET empty == [witness |-> [stack |-> <<>>, script |-> <<>>], last |-> <<>>, prev_out |-> IF known THEN <<o>> ELSE <<>>]
  IN CASE o[1] = "p2wpkh" -> [empty EXCEPT !.witness.stack = <<Sig(o[2]), PushKey(o[2])>>]
       [] o[1] = "p2wsh" -> [empty EXCEPT !.witness = [stack |-> << <<"flag", 0>>, Sig(<<1>>)>>, script |-> o[2]]]
       [] o[1] \in {"p2pkh", "p2sh"} -> [empty EXCEPT !.last = <<o[2]>>]
       [] o[1] = "p2tr" -> [empty EXCEPT !.witness.stack = <<Sig(o[2])>>]

(***************************************************************************)
(* Builders: up to two calls, inputs given beforehand, and a wallet.       *)
(***************************************************************************)
me == 1
Multi == [kind |-> "Multisig", receipt |-> [amount |-> 2, token |-> <<3>>], inner_keys |-> << <<2>>, <<1>> >>, m |-> 2]
BulletproofOf(token, sender, v) ==
  LET c == get_commitment(me, sender, v)
  IN [kind |-> "Bulletproof", receipt |-> [amount |-> proof_hash(c), token |-> token], inner_key |-> <<me>>,
      sender_key |-> sender, commitment |-> c, amount_ok |-> TRUE, range_proof_ok |-> TRUE]
Stored == <<SigProof(<<me>>, 1, <<3>>), SigProof(<<me>>, 2, <<3>>),
            [SigProof(<<me>>, 3, <<3>>) EXCEPT !.kind = "P2TR"], EmptyProof, Multi, SigProof(<<me>>, 1, <<4>>),
            BulletproofOf(<<3>>, <<2>>, 3), BulletproofOf(<<4>>, <<3>>, 2), BulletproofOf(<<3>>, <<me>>, 2)>>
Storages == {[o \in S |-> Stored[o]] : S \in {{}, {1}, {1, 2}, {1, 3}, {2, 3, 4}, {1, 5}, {2, 6}, {1, 2, 6}, {4}}}
BulletproofStorage == [o \in 7 .. 9 |-> Stored[o]]
Call(b, c) ==
  CASE c[1] = "recipient" /\ b.is_issuance -> issuance_add_recipient(b, c[2], <<2>>, c[3], c[4])
    [] c[1] = "recipient" /\ ~b.is_issuance -> add_recipient(b, c[2], <<2>>, c[3], c[4])
    [] c[1] = "burn" -> set_burn_amount(b, c[2], c[3])
    [] c[1] = "taproot" -> add_taproot_recipient(b, c[2], <<2>>, c[3])
    [] c[1] = "taproot_metadata" -> add_taproot_recipient_with_metadata(b, c[2], <<2>>, c[3], <<1>>)
    [] c[1] = "multisig" -> add_multisig_recipient(b, c[2], << <<2>>, <<1>> >>, 2, c[3])
    [] c[1] = "sats" -> add_sats_recipient(b, <<2>>)
Calls == {<<"recipient", <<3>>, a, <<>> >> : a \in 0 .. 3}
         \cup {<<"recipient", <<4>>, 1, <<1>> >>, <<"burn", <<3>>, 1>>, <<"taproot", <<3>>, 2>>,
               <<"taproot_metadata", <<3>>, 1>>, <<"multisig", <<3>>, 2>>, <<"sats">>}
Given == {<<>>, << <<"Receipt", 1, 0>> >>, << <<"TaprootReceipt", 3, 0>> >>, << <<"Multisig2x2", 5, 2>> >>}
Builder(is_issuance, calls, given, drain, manual) ==
  LET called == FoldLeft(Call, TransactionBuilder_new(is_issuance), calls)
      all == FoldLeft(LAMBDA b, i : AddInput(b, i[1], i[2], i[3]), called, given)
  IN [all EXCEPT !.drain = drain, !.is_inputs_selected = manual]
BulletproofBuilder(paid) ==
  FoldLeft(LAMBDA b, p : add_recipient_with_bulletproof(b, p.from, p.token, p.recipient, p.amount),
           TransactionBuilder_new(FALSE), paid)
Paid(froms, recipients, amounts) ==
  {[from |-> f, token |-> Stored[f].receipt.token, recipient |-> r, amount |-> a] :
     f \in froms, r \in recipients, a \in amounts}

(***************************************************************************)
(* Spending policies and the paths through them, the lock times a builder  *)
(* may ask for, and wallets with a few coins.                              *)
(***************************************************************************)
Pk(k) == <<"pk", k>>
After(n) == <<"after", n>>
Older(n) == <<"older", n>>
And(a, b) == <<"and", a, b>>
Or(a, b) == <<"or", a, b>>
Thresh(m, s) == <<"thresh", m, s>>
SpendScripts ==
  {Pk(1), And(Pk(1), After(2)), And(Pk(1), <<"hash">>), And(Pk(1), <<"true">>), Or(Pk(1), <<"false">>),
   Or(And(Pk(1), After(2)), And(Pk(2), Older(2))), <<"andor", Pk(1), Older(2), Pk(2)>>,
   <<"multi", 2, <<1, 2, 3>> >>, Thresh(2, <<Pk(1), Pk(2), After(2)>>), Thresh(3, <<Pk(1), Pk(2), After(2)>>),
   Thresh(2, <<Pk(1), After(2), After(5)>>), Thresh(2, <<Pk(1), Older(2), Older(9)>>),
   Thresh(2, <<Pk(1), Older(5), Older(2)>>), Thresh(2, <<Pk(1), <<"true">>, After(2)>>), Thresh(1, <<Pk(1), <<"true">> >>),
   And(Pk(1), And(After(3), After(5))), And(Pk(1), And(Older(1), Older(3))), And(Pk(2), And(After(3), After(1))),
   And(Pk(3), Or(And(Pk(1), Older(9)), And(Pk(2), Older(10)))),
   Thresh(2, <<Pk(3), Or(And(Pk(1), After(2)), And(Pk(2), Older(3))), And(Pk(1), After(3))>>)}
RECURSIVE Choosing(_)
Choosing(p) ==
  CASE p.item = "Thresh" -> {p} \cup UNION {Choosing(p.items[i]) : i \in DOMAIN p.items}
    [] p.item = "Multisig" -> {p}
    [] OTHER -> {}
Paths(p) ==
  LET size(n) == IF n.item = "Thresh" THEN Len(n.items) ELSE Len(n.keys)
      positions(n) == IF size(n) = n.threshold THEN {{0}, 0 .. size(n) - 1} ELSE {{0}, {1}, {0, 1}, {1, 2}, {0, 2}, 0 .. 2, {0, size(n)}}
      some(D) == {f \in [D -> UNION {positions(n) : n \in D}] : \A n \in D : f[n] \in positions(n)}
  IN UNION {some(D) : D \in SUBSET Choosing(p)}
Alternatives(p) ==
  [{n \in Choosing(p) : n.item = "Thresh" /\ n.threshold < Len(n.items)} -> {{0}, {1}, {0, 1}}]
LockParams ==
  {[version |-> v, current_height |-> h, locktime |-> l, rbf |-> r] :
     v \in {<<>>, <<0>>, <<1>>, <<2>>}, h \in {<<>>, <<3>>}, l \in {<<>>, <<1>>, <<3>>, <<6>>},
     r \in {<<>>, <<[value |-> <<>>]>>} \cup {<<[value |-> <<s>>]>> : s \in {1, 3, 6, 10, 17, 30}}}

Segwit(script) == [context |-> "Segwitv0", script |-> script]
Legacy(script) == [context |-> "Legacy", script |-> script]
Taproot(leaves) == [context |-> "Tap", internal_key |-> 1, leaves |-> leaves]
Raw(n_sequence, input, output) == <<[version |-> 1, n_sequence |-> n_sequence, input |-> input, output |-> output]>>
Out(script, value) == [script |-> script, value |-> value]
Known(height, coinbase, value) ==
  [height |-> height, coinbase |-> coinbase, fee |-> <<>>, raw |-> Raw(31, <<>>, <<Out("ext", value)>>)]
Pending(outs, fee) ==
  [height |-> <<>>, coinbase |-> FALSE, fee |-> fee,
   raw |-> Raw(29, <<[outpoint |-> <<7, 0>>, weight |-> 4]>>, outs)]
Coin(txid, value, keychain) ==
  [outpoint |-> <<txid, 0>>, value |-> value, keychain |-> keychain, script |-> IF keychain = "External" THEN "ext" ELSE "int"]
Coins == <<Coin(1, 5, "External"), Coin(2, 4, "Internal"), Coin(3, 9, "External"), Coin(4, 6, "External"),
           Coin(5, 1, "External"), Coin(6, 4, "External")>>
StoredTxs == <<Known(<<1>>, FALSE, 5), [Known(<<2>>, FALSE, 4) EXCEPT !.raw = Raw(31, <<>>, <<Out("int", 4)>>)],
               Known(<<>>, FALSE, 9), Known(<<2>>, TRUE, 6), Known(<<1>>, FALSE, 1), Known(<<3>>, FALSE, 4),
               Known(<<1>>, FALSE, 12), Pending(<<Out("x", 4), Out("int", 3)>>, <<5>>),
               Pending(<<Out("ext", 7)>>, <<5>>)>>
Both(d) == [External |-> d, Internal |-> d]
WalletOf(coins, desc, signers, sync_height) ==
  [desc |-> desc, signers |-> signers, utxos |-> SelectSeq(coins, LAMBDA c : c.keychain \in DOMAIN desc),
   mine |-> IF "Internal" \in DOMAIN desc THEN [ext |-> "External", int |-> "Internal"] ELSE [ext |-> "External"],
   txs |-> StoredTxs, sync_height |-> sync_height]
CoinLists == {<<>>, SubSeq(Coins, 1, 1), SubSeq(Coins, 1, 2), SubSeq(Coins, 1, 4), SubSeq(Coins, 3, 5), SubSeq(Coins, 2, 6),
              <<Coins[1], Coins[6], Coins[3]>>, <<Coins[2], Coins[5], Coins[4]>>}
Default == W!TxParams_default
ForeignCoin == [witness_utxo |-> TRUE, non_witness_utxo |-> <<>>, taproot |-> FALSE]
SpendOptions(w) ==
  LET first == IF w.utxos = <<>> THEN <<9, 0>> ELSE w.utxos[1].outpoint
      given == W!add_utxo(w, Default, first)
      foreign == W!add_foreign_utxo(Default, <<7, 0>>, 12, "x", [ForeignCoin EXCEPT !.taproot = TRUE], 4)
      bump(t) == W!build_fee_bump(w, t)
  IN {Default, [Default EXCEPT !.allow_dust = TRUE], [Default EXCEPT !.drain_to = <<"x">>],
      [Default EXCEPT !.drain_to = <<"x">>, !.drain_wallet = TRUE], [Default EXCEPT !.manually_selected_only = TRUE],
      [Default EXCEPT !.unspendable = {first}], [Default EXCEPT !.change_policy = "OnlyChange"],
      [Default EXCEPT !.change_policy = "ChangeForbidden", !.current_height = <<4>>]}
     \cup Range(given) \cup {[g EXCEPT !.manually_selected_only = TRUE] : g \in Range(given)}
     \cup {[g EXCEPT !.drain_to = <<"x">>, !.unspendable = {first}] : g \in Range(given)}
     \cup Range(foreign)
     \cup Range(W!add_foreign_utxo(Default, <<7, 0>>, 12, "x", ForeignCoin, 4))
     \cup Range(W!add_foreign_utxo(Default, <<7, 0>>, 12, "x", [ForeignCoin EXCEPT !.witness_utxo = FALSE], 4))
     \cup UNION {IF bump(t).ok THEN {bump(t).params} \cup Range(W!allow_shrinking(bump(t).params, "ext")) ELSE {} : t \in {3, 8, 9}}
Recipients == {<<>>, <<Out("x", 3)>>, <<Out("x", 2), Out("ext", 5)>>, <<Out("x", 1)>>, <<Out("op_return", 0)>>}
FeePolicies == {[kind |-> "FeeRate", v |-> v] : v \in {0, 1, 4}} \cup {[kind |-> "FeeAmount", v |-> v] : v \in {1, 5, 6}}
Shuffles == {[o \in {<<t, 0>> : t \in 1 .. 9} |-> o[1]], [o \in {<<t, 0>> : t \in 1 .. 9} |-> 10 - o[1]]}
SigningKeys == {<<{1}, {2}>>, <<{2}, {1}>>, <<{1}, {2, 3}>>, <<{3}, {}>>, <<{1}, {}>>, <<{}, {}>>}
SigningOption(trust, only_witness, locktime, sighash) ==
  [trust |-> trust, only_witness |-> only_witness, locktime |-> locktime, sighash |-> sighash]
SigningOptions == {SigningOption(FALSE, FALSE, <<>>, <<>>), SigningOption(FALSE, FALSE, <<1>>, <<>>), SigningOption(FALSE, TRUE, <<>>, <<"All">>),
                   SigningOption(TRUE, TRUE, <<>>, <<>>), SigningOption(FALSE, FALSE, <<>>, <<"Single">>)}

(***************************************************************************)
(* The samples.                                                            *)
(***************************************************************************)
Init == sample = None /\ Db!Init

\* The samples are taken over a database that nothing has been done to.
Sampled(A) == db = Db!Empty /\ A /\ UNCHANGED <<level, db>>
Migrated(A) == sample = None /\ A /\ UNCHANGED sample

TakeMessage == sample = None /\ \E m \in Messages : sample' = [about |-> "message", m |-> m]
TakeOutput == sample = None /\ \E o \in Outputs : sample' = [about |-> "output", o |-> o]
TakeOwner ==
  /\ sample = None
  /\ \E outs \in Few(Addresses), owner \in {<<>>} \cup {<<a>> : a \in Addresses}, known \in BOOLEAN :
       sample' = [about |-> "owner", outs |-> outs, owner |-> owner, known |-> known]
TakeTransfer ==
  /\ sample = None
  /\ \E ins, outs \in Few(TxProofs), c \in Changes :
       sample' = [about |-> "transfer", ins |-> ins, outs |-> outs, change |-> c]
TakeIssue ==
  /\ sample = None
  /\ \E outs \in Few(TxProofs), a \in 0 .. 3, c \in Changes \ {"op_return", "burnt"} :
       sample' = [about |-> "issue", outs |-> outs, announcement |-> [token |-> <<2>>, amount |-> a], change |-> c]
TakeBuilder ==
  /\ sample = None
  /\ \E calls \in Few(Calls), given \in Given, s \in Storages, own \in 0 .. 1, drain, manual \in BOOLEAN :
       sample' = [about |-> "build", b |-> Builder(FALSE, calls, given, drain, manual), storage |-> s,
                  own |-> own, change |-> own = 1, given |-> given, calls |-> calls]
TakeIssuer ==
  /\ sample = None
  /\ \E calls \in Few({c \in Calls : c[1] = "sats" \/ (c[1] # "burn" /\ c[2] = <<3>>)}), s \in Storages, own \in 0 .. 1, drain \in BOOLEAN :
       sample' = [about |-> "build_issue", b |-> Builder(TRUE, calls, <<>>, drain, FALSE), storage |-> s,
                  own |-> own, change |-> own = 1]
TakeBulletproofs ==
  /\ sample = None
  /\ \E first \in Paid({7, 9}, {<<1>>, <<2>>, <<4>>}, 1 .. 3), more \in Paid({7, 8}, {<<1>>, <<2>>, <<4>>}, 1 .. 2),
        n \in 0 .. 2, last \in Paid({8}, {<<5>>}, 1 .. 2) :
       sample' = [about |-> "build", b |-> BulletproofBuilder(SubSeq(<<first, more, last>>, 1, n + 1)),
                  storage |-> BulletproofStorage, own |-> 0, change |-> FALSE, given |-> <<>>, calls |-> <<>>]
TakeRange ==
  /\ sample = None
  /\ \E v \in 0 .. 15, b \in {0, 3}, y \in {1, 3}, z \in {4, 9}, e \in {<<2, 11, 3>>, <<5, 1, 16>>} :
       sample' = [about |-> "range", v |-> v, b |-> b, t |-> [y |-> y, z |-> z, e |-> e]]
TakeScript ==
  /\ sample = None
  /\ \E s \in SpendScripts, signers \in SUBSET (1 .. 3) :
       sample' = [about |-> "script", script |-> s, signers |-> signers, policy |-> W!extract_policy(s, signers, W!BuildNone)]
TakePath ==
  /\ sample.about = "script" /\ sample.policy # <<>>
  /\ \E path \in IF sample.signers = 1 .. 3 THEN Paths(sample.policy[1]) ELSE {<<>>} :
       sample' = [about |-> "policy", script |-> sample.script, signers |-> sample.signers, policy |-> sample.policy[1],
                  condition |-> W!get_condition(sample.policy[1], path)]
TakeSpend ==
  /\ sample = None
  /\ \E c \in CoinLists, d \in {Both(Segwit(Pk(1))), [External |-> Segwit(Pk(1))]}, h \in Shuffles,
        a \in {"BranchAndBound", "LargestFirst", "OldestFirst"} :
       LET w == WalletOf(c, d, {1}, <<3>>)
       IN \E o \in SpendOptions(w), r \in Recipients, f \in FeePolicies :
            /\ o.bumping_fee # <<>> => r = <<>>
            /\ (h[<<1, 0>>] # 1 \/ DOMAIN d # {"External", "Internal"}) => a = "BranchAndBound"
            /\ sample' = [about |-> "spend", w |-> w, algorithm |-> a, shuffle |-> h,
                          params |-> [o EXCEPT !.fee_policy = f, !.recipients = IF o.bumping_fee = <<>> THEN r ELSE @]]
TakeWallet ==
  /\ sample = None
  /\ \E s \in SpendScripts, context \in {"Segwitv0", "Legacy", "Tap"}, coin \in {1, 3}, height \in {<<>>, <<3>>} :
       LET d == IF context = "Tap" THEN [Taproot(<<s, And(Pk(2), Older(1))>>) EXCEPT !.internal_key = 3]
                ELSE [context |-> context, script |-> s]
       IN sample' = [about |-> "wallet", w |-> WalletOf(<<Coins[coin]>>, [External |-> d], {}, height),
                     policy |-> W!Descriptor_extract_policy(d, {}, W!BuildNone)]
TakeSigning ==
  /\ sample.about = "wallet" /\ sample.policy # <<>>
  /\ \E path \in Alternatives(sample.policy[1]), keys \in SigningKeys, o \in SigningOptions :
       LET params == [Default EXCEPT !.external_policy_path = <<path>>, !.locktime = o.locktime, !.drain_to = <<"x">>,
                        !.drain_wallet = TRUE, !.only_witness_utxo = o.only_witness, !.sighash = o.sighash]
       IN sample' = [about |-> "signing", w |-> sample.w, params |-> params, first |-> keys[1], second |-> keys[2],
                     options |-> [W!SignOptions_default EXCEPT !.trust_witness_utxo = o.trust],
                     unsigned |-> W!create_tx(sample.w, params, "BranchAndBound", [p \in {<<1, 0>>, <<3, 0>>} |-> p[1]])]
Discard == sample # None /\ sample' = None

Next ==
  \/ Sampled(TakeMessage)
  \/ Sampled(TakeOutput)
  \/ Sampled(TakeOwner)
  \/ Sampled(TakeTransfer)
  \/ Sampled(TakeIssue)
  \/ Sampled(TakeBuilder)
  \/ Sampled(TakeIssuer)
  \/ Sampled(TakeBulletproofs)
  \/ Sampled(TakeRange)
  \/ Sampled(TakeScript)
  \/ Sampled(TakePath)
  \/ Sampled(TakeSpend)
  \/ Sampled(TakeWallet)
  \/ Sampled(TakeSigning)
  \/ Sampled(Discard)
  \/ Migrated(Db!Up)
  \/ Migrated(Db!Down)
  \/ \E t \in Populated : Migrated(Db!InsertRow(t))
  \/ \E t \in Repeated : Migrated(Db!InsertAlike(t))
  \/ Migrated(Db!InsertNull("operator_signature", "signature"))
  \/ \E t \in Populated : Migrated(Db!DeleteRows(t))

Spec == Init /\ [][Next]_<<sample, level, db>>

(***************************************************************************)
(* Properties.                                                             *)
(***************************************************************************)
ReadsBack(m) ==
  LET d == C!RawNetworkMessage_decode(C!RawNetworkMessage_encode(m)) IN d.ok /\ d.v = m
\* Encoders and decoders agree, field by field, on what goes over the wire: every message of the forms
\* that Lost does not name (RawNetworkMessage and everything below it) reads back as it was, and so
\* does every such announcement out of its script.  ConvertsBack is about the other forms.
RoundTrips ==
  sample.about = "message" =>
    LET announced == IF sample.m.kind = "lrc20tx"
                       THEN {t.tx_type.data : t \in {x \in Range(sample.m.data) : x.tx_type.kind = "Announcement"}} ELSE {}
    IN /\ Lost(sample.m) \/ ReadsBack(sample.m)
       /\ \A a \in announced : \/ AnnouncementLost(a)
                              \/ LET d == C!parse_op_return_script(C!to_script(a)) IN d.ok /\ d.v = a

\* What the tests of the formats say of every receipt proof, of a transfer of ownership, of a Spark
\* transaction and of the signatures for one, `Converting back and forth should work': a message with
\* one of them, its strings as long as their constructors allow, reads back as it was.
ConvertsBack ==
  /\ sample.about = "message"
  /\ \/ sample.m.kind \in {"sparktx", "sparksig"}
     \/ sample.m.kind = "lrc20tx" /\ Len(sample.m.data) = 1 /\ ~(\E t \in Range(sample.m.data) : Unnamed(t.tx_type))
  => ReadsBack(sample.m)

\* An output commits to one receipt: proofs of any kind that check_by_output accepts for the same
\* script carry the same token and amount, and what their owners sign passes check_by_input.  A
\* commitment script whose delay takes two bytes parses back to the keys and the delay of its proof.
OutputBindsReceipt ==
  sample.about = "output" =>
    /\ \A p, q \in Acceptable(sample.o) : receipt(p) = receipt(q)
    /\ \A p \in Acceptable(sample.o) : checked_check_by_input(p, IntoWitness(p))
    /\ \A p \in Acceptable(sample.o) : p.kind = "P2TR" => check_p2tr_proof(sample.o, p)
    /\ \A p \in Acceptable(sample.o) :
         p.kind = "Lightning" /\ p.to_self_delay \in 128 .. 32767 =>
           ToLocalScript_from_script(RedeemScript(p)) =
             <<[revocation |-> Tweak(p.revocation_pubkey, p.receipt), delay |-> p.to_self_delay,
                delayed |-> p.local_delayed_pubkey]>>

\* Part of ChecksExact: find_owner_in_txinputs returns the first input that spends an output of the owner (the token's
\* key or that key with an empty receipt, as long as there is no other owner).  An input before it
\* whose script cannot be told ends the search, and the output a taproot owner spends is found only
\* while the Bitcoin node still has it unspent.
OwnerFound ==
  sample.about = "owner" =>
    LET outs == sample.outs
        type == IF sample.owner = <<>> THEN "key" ELSE sample.owner[1][1]
        owned(i) == IF type = "key" THEN outs[i] \in {P2WPKH(<<1>>), P2WPKH(Tweak(<<1>>, EmptyReceipt))}
                    ELSE outs[i] = sample.owner[1] /\ (type = "p2tr" => sample.known)
        opaque(i) == CASE type = "p2tr" -> sample.known /\ outs[i][1] # "p2tr"
                       [] type = "p2wpkh" -> outs[i][1] \in {"p2pkh", "p2sh", "p2tr"}
                       [] type = "p2wsh" -> outs[i][1] \in {"p2pkh", "p2sh"}
                       [] type \in {"p2pkh", "p2sh"} -> outs[i][1] \notin {"p2pkh", "p2sh"}
                       [] OTHER -> FALSE
        ends == {i \in DOMAIN outs : owned(i) \/ opaque(i)}
    IN find_owner_in_txinputs([i \in DOMAIN outs |-> Spend(outs[i], sample.known)], sample.owner, <<1>>) =
         IF ends = {} THEN 0 ELSE IF owned(Min(ends)) THEN Min(ends) ELSE -1

Total(ps, t) == SumOver(LAMBDA i : IF Token(ps[i]) = t THEN Amount(ps[i]) ELSE 0, DOMAIN ps)

\* The isolated check accepts a transfer exactly when every token's inputs are its outputs, no sum
\* leaves the width of an amount, every payment output has its own proof, no input was burnt and
\* there is a proof that is not empty.  It accepts an issuance exactly when there are as many proofs as
\* payment outputs, each that is on a payment output fits it, all are of the announced token, and their
\* amounts add up to the announced one modulo 2^AmountBits: the sum of the code wraps, and a proof on
\* the OP_RETURN output counts, though some payment output then has none.  The owner of a token is
\* found exactly where OwnerFound says.
ChecksExact ==
  /\ OwnerFound
  /\ sample.about = "transfer" =>
       LET t == TransferOf(sample.ins, sample.outs, sample.change)
           swapped == sample.change = "exchanged" /\ \E i \in DOMAIN sample.outs :
                        sample.outs[i] # sample.outs[Len(sample.outs) + 1 - i]
       IN check_transaction(t) <=>
            /\ sample.change \notin {"dropped", "on_op_return", "burnt"}
            /\ ~swapped
            /\ \A i \in DOMAIN sample.outs : receipt(sample.outs[i]) # EmptyReceipt \/ is_empty_receiptproof(sample.outs[i])
            /\ \A k \in {<<2>>, <<3>>} : Total(sample.ins, k) = Total(sample.outs, k) /\ Total(sample.ins, k) < TwoToW
            /\ \E i \in DOMAIN sample.ins \cup DOMAIN sample.outs :
                 \/ i \in DOMAIN sample.ins /\ ~is_empty_receiptproof(sample.ins[i])
                 \/ i \in DOMAIN sample.outs /\ ~is_empty_receiptproof(sample.outs[i])
  /\ sample.about = "issue" =>
       LET t == IssueOf(sample.outs, sample.announcement, sample.change)
           swapped == sample.change = "exchanged" /\ \E i \in DOMAIN sample.outs :
                        sample.outs[i] # sample.outs[Len(sample.outs) + 1 - i]
       IN check_transaction(t) <=>
            /\ sample.change # "dropped" /\ ~swapped
            /\ \A i \in DOMAIN sample.outs : Amount(sample.outs[i]) # 0 => Token(sample.outs[i]) = <<2>>
            /\ Total(sample.outs, <<2>>) % TwoToW = sample.announcement.amount

AcceptedTransfer(b, storage, by_hand, r) ==
  LET ins == [i \in 1 .. Len(r.inputs) |-> storage[r.inputs[i].outpoint]]
      outs == b.outputs
      sum(t) == SumOver(LAMBDA i : outs[i].amount, {i \in DOMAIN outs : outs[i].token = t})
      given == SumOver(LAMBDA i : Amount(storage[i]), {g[2] : g \in {by_hand[i] : i \in DOMAIN by_hand}})
      listed == Range(b.token_pubkeys)
  IN r.ok /\ b.bulletproof_outputs = <<>> =>
       /\ check_transaction(r.t) =
            /\ \A t \in {<<3>>, <<4>>} : sum(t) < TwoToW /\ Total(ins, t) < TwoToW
            /\ \E i \in DOMAIN outs : outs[i].kind # "Satoshis"
            /\ (b.is_inputs_selected \/ <<3>> \notin listed) => sum(<<3>>) = given
            /\ b.is_inputs_selected => sum(<<4>>) = 0
       /\ Cardinality({r.inputs[i].outpoint : i \in DOMAIN r.inputs}) = Len(r.inputs) <=>
            ~(by_hand # <<>> /\ <<3>> \in listed /\ ~b.is_inputs_selected /\ given < sum(<<3>>) % TwoToW)
AcceptedBulletproofs(b, storage, r) ==
  LET from == DOMAIN b.bulletproof_outputs
      out(o) == SumOver(LAMBDA i : b.bulletproof_outputs[o][i].amount, DOMAIN b.bulletproof_outputs[o])
      per(t, f(_)) == SumOver(f, {o \in from : storage[o].receipt.token = t})
  IN r.ok /\ from # {} =>
       check_transaction(r.t) = (\A t \in {<<3>>, <<4>>} : per(t, LAMBDA o : storage[o].commitment.v) = per(t, out))
\* What the wallet's builder makes is accepted by the node's isolated check and spends no output
\* twice; the exceptions are listed: recipients added without listing their token or with all the
\* inputs chosen by hand, sums that wrap around, and given inputs that do not cover the recipients.
BuiltAccepted ==
  LET accepted(r) ==
        IF sample.about = "build" THEN /\ AcceptedTransfer(sample.b, sample.storage, sample.given, r)
                                       /\ AcceptedBulletproofs(sample.b, sample.storage, r)
        ELSE r.ok => check_transaction(r.t)
  IN sample.about \in {"build", "build_issue"} => accepted(finish(sample.b, sample.storage, me, sample.own, sample.change))

Randomness == [alpha |-> 2, dl |-> 3, dr |-> 5, r |-> 1, s |-> 7, delta |-> 9, n |-> 4]
\* The range proof of a value verifies against its commitment and, for these challenges, against no
\* commitment to another value of the range with the same blinding.
RangeProofComplete ==
  sample.about = "range" =>
    LET proof == R!generate(sample.v, sample.b, sample.t, Randomness)
    IN \A w \in 0 .. 15 : R!verify(R!commit(w, sample.b), proof, sample.t) <=> w = sample.v

Passing(l, limit, P(_, _)) == {n \in 1 .. limit : P(l, n)}
\* An nSequence whose value is not all of it: bits that mean nothing make it look larger than it is.
Padded(s) == s \in 4 .. 7 \cup 12 .. 15
\* The lock times create_tx settles on make the script spendable along the path the user chose, for
\* every version, height, nLockTime and RBF value it accepts; and what the policy says the keys at
\* hand can do is what they can do.  Two things are left out: nSequence values with
\* meaningless bits, which are compared as they stand, and thresholds of three and more, for which
\* `combinations' offers choices that repeat an item.
PolicyHonoured ==
  sample.about = "policy" =>
    LET olds == W!OlderOf(Segwit(sample.script))
        spendable(keys, l) == W!Satisfied(sample.script, keys, Passing(l, 7, W!TxAfter), Passing(l, 15, W!TxOlder))
        c == sample.condition
        offered == LET x == sample.policy.contribution
                   IN CASE x.kind = "Complete" -> {x.condition}
                        [] x.kind = "PartialComplete" -> UNION Range(x.conditions)
                        [] OTHER -> {}
        exactly(d) == [version |-> 2, lock_time |-> W!Else(d.timelock, 0), n_sequence |-> W!Else(d.csv, 30)]
        any == {[version |-> 2, lock_time |-> l, n_sequence |-> n] : l \in {3, 7}, n \in {3, 11}}
    IN /\ c # <<>> => \A q \in LockParams :
            LET l == W!TxLocks(c[1], q, q.current_height)
            IN l.ok => spendable(0 .. 3, l) \/ \E n \in olds \cup {l.n_sequence} : Padded(n)
       /\ \A d \in offered : spendable(sample.signers, exactly(d)) \/ (\E n \in olds : Padded(n)) \/ sample.script[2] = 3
       /\ offered = {} <=> \A l \in any : ~spendable(sample.signers, l)

Outpoints(s) == {s[i].outpoint : i \in DOMAIN s}
ValueOf(s) == SumOver(LAMBDA i : s[i].value, DOMAIN s)
Accounted(q, fees, r) ==
  r.ok => LET tx == r.psbt.tx
          IN /\ ValueOf(tx.input) = ValueOf(tx.output) + r.fee
             /\ Cardinality(Outpoints(tx.input)) = Len(tx.input)
             /\ Outpoints(q.utxos) \subseteq Outpoints(tx.input)
             /\ q.unspendable \cap Outpoints(tx.input) \subseteq Outpoints(q.utxos)
             /\ r.fee >= W!fee_wu(fees.rate, W!TxWeight(tx) + 2)
             /\ q.bumping_fee # <<>> => r.fee >= q.bumping_fee[1].absolute
WellChosen(algorithm, rate, pre, target, cs) ==
  LET effective(s, S) == SumOver(LAMBDA i : s[i].value - W!InputFee(s[i], rate), S)
      required == effective(pre.required, DOMAIN pre.required)
      worth == {i \in DOMAIN pre.optional : effective(pre.optional, {i}) > 0}
      reached == {required + effective(pre.optional, S) : S \in SUBSET worth}
      close == {v \in reached : v \in target .. target + (3 * rate) \div 2}
  IN /\ algorithm = "BranchAndBound" =>
          /\ cs.ok <=> \E v \in reached : v >= target
          /\ cs.ok /\ required <= target /\ close # {} => effective(cs.selected, DOMAIN cs.selected) = Min(close)
     /\ ~cs.ok => (\A v \in reached : v < target) \/ worth # DOMAIN pre.optional
\* What create_tx makes spends each of its coins once, every coin given by hand and none that was
\* ruled out, and pays exactly the fee it reports, which covers the rate that was asked for.
\* The default algorithm gives up only when no set of coins would do, and takes the
\* set that exceeds the target least when one needs no change; a replacement pays no less than the
\* transaction it replaces.
FundsAccounted ==
  sample.about = "spend" =>
    LET w == sample.w
        q == sample.params
        fees == W!FeeOf(q)
        target == ValueOf(q.recipients) + W!BaseFee(q, fees)
        chosen(pre) == WellChosen(sample.algorithm, fees.rate, pre, target,
          W!coin_select(w, sample.algorithm, pre.required, pre.optional, fees.rate, target, "x", sample.shuffle))
    IN /\ Accounted(q, fees, W!create_tx(w, q, sample.algorithm, sample.shuffle))
       /\ fees.ok => chosen(W!preselect_utxos(w, q, IF q.current_height # <<>> THEN q.current_height ELSE w.sync_height))

Agreement(refused, overflow, valid, height, both, a, ab) ==
  /\ both.ok <=> ~refused /\ ~overflow
  /\ both.ok /\ a.ok => ab.ok /\ ab.finished = both.finished
  /\ both.ok /\ valid => both.finished
  /\ both.ok /\ both.finished /\ height = <<>> => valid
\* Two wallets that sign a transaction one after the other get as far as one wallet with the keys of
\* both, in either order.  Without a height to go by, what they finish is valid; and whenever the keys
\* fulfil the script under the lock times of the transaction it is finished.  Two
\* things stand in the way: an unconfirmed input under a script with a relative lock the transaction
\* does not meet makes the wallet panic, and without the whole previous transaction a segwit
\* input is signed only on trust.
CosignersAgree ==
  sample.about = "signing" /\ sample.unsigned.ok =>
    LET w == sample.w
        by(keys, psbt) == W!sign([w EXCEPT !.signers = keys], psbt, sample.options)
        tx == sample.unsigned.psbt.tx
        d == w.desc["External"]
        after == Passing(tx, 7, W!TxAfter)
        older == Passing(tx, 15, W!TxOlder)
        keys == sample.first \cup sample.second
        valid == IF d.context # "Tap" THEN W!Satisfied(d.script, keys, after, older)
                 ELSE d.internal_key \in keys \/ \E l \in DOMAIN d.leaves : W!Satisfied(d.leaves[l], keys, after, older)
        overflow == /\ w.sync_height # <<>> /\ w.utxos = <<Coins[3]>> /\ ~W!OlderOf(d) \subseteq older
                    /\ d.context = "Tap" => d.internal_key \notin keys
        refused == \/ d.context = "Segwitv0" /\ sample.params.only_witness_utxo /\ ~sample.options.trust_witness_utxo
                   \/ sample.params.sighash = <<"Single">>
        then(a) == Agreement(refused, overflow, valid, w.sync_height, by(keys, sample.unsigned.psbt), a,
                             IF a.ok THEN by(sample.second, a.psbt) ELSE a)
    IN then(by(sample.first, sample.unsigned.psbt))

\* Schema's SchemaByLevel, EntitiesFit and MigrationsGoThrough, of the migrations and the entities in
\* crates/storage: the schema depends on nothing but the migrations applied (save for one column), in
\* the end it is that of the entities, and the rows that keep a migration from being applied or taken
\* back are the three kinds that MigrationsGoThrough lists.
SchemaByLevel == sample = None => Db!SchemaByLevel /\ Db!EntitiesFit /\ Db!MigrationsGoThrough
=============================================================================
