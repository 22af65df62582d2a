------------------------------ MODULE TxBuilder ------------------------------
(***************************************************************************)
(* The transaction builder of the wallet library (crates/dev-kit/src/      *)
(* txbuilder, lrc20_coin_selection.rs, txsigner.rs): from the recipients   *)
(* and inputs it was given to a signed transaction with its proofs.        *)
(*                                                                         *)
(* storage maps the outpoints (numbers) of the wallet's unspent outputs to *)
(* their proofs.  me is the number of the wallet's key.  A builder is      *)
(* [is_issuance, outputs, token_pubkeys, inputs, bulletproof_outputs,      *)
(* is_inputs_selected, drain].  An error anywhere ends the build: Failed.  *)
(* The Bitcoin wallet below it adds own inputs before the given ones and a *)
(* change output behind the last one, or neither: both are parameters.     *)
(***************************************************************************)
EXTENDS IsolatedChecks

Failed == [ok |-> FALSE]

(***************************************************************************)
(* The calls before finish.                                                *)
(***************************************************************************)
Receipt_output(token, amount, recipient, data) ==
  [kind |-> "Receipt", token |-> token, amount |-> amount, recipient |-> recipient, metadata |-> data]
TaprootReceipt_output(token, amount, recipient, data) ==
  [kind |-> "TaprootReceipt", token |-> token, amount |-> amount, recipient |-> recipient, metadata |-> data]
Satoshis_output(recipient) == [kind |-> "Satoshis", token |-> <<>>, amount |-> 0, recipient |-> recipient]

TransactionBuilder_new(is_issuance) ==
  [is_issuance |-> is_issuance, outputs |-> <<>>, token_pubkeys |-> <<>>, inputs |-> <<>>,
   bulletproof_outputs |-> <<>>, is_inputs_selected |-> FALSE, drain |-> FALSE]

AddOutput(b, o) == [b EXCEPT !.outputs = Append(@, o)]
ListToken(b, token) == [b EXCEPT !.token_pubkeys = Append(@, token)]
add_recipient(b, token, recipient, amount, data) ==
  ListToken(AddOutput(b, Receipt_output(token, amount, recipient, data)), token)
\* IssuanceTransactionBuilder::add_recipient: an issuance needs no inputs of its token.
issuance_add_recipient(b, token, recipient, amount, data) ==
  AddOutput(b, Receipt_output(token, amount, recipient, data))
set_burn_amount(b, token, amount) ==
  ListToken(AddOutput(b, Receipt_output(token, amount, ZERO_PUBLIC_KEY, <<>>)), token)
add_taproot_recipient(b, token, recipient, amount) ==
  ListToken(AddOutput(b, TaprootReceipt_output(token, amount, recipient, <<>>)), token)
\* With metadata, the token is not listed for finish.
add_taproot_recipient_with_metadata(b, token, recipient, amount, data) ==
  AddOutput(b, TaprootReceipt_output(token, amount, recipient, data))
add_multisig_recipient(b, token, participants, required_signatures, amount) ==
  ListToken(AddOutput(b, [kind |-> "MultisigReceipt", token |-> token, amount |-> amount,
                          participants |-> participants, required_signatures |-> required_signatures]), token)
add_sats_recipient(b, recipient) == AddOutput(b, Satoshis_output(recipient))
\* add_receipt_input, add_taproot_input, add_spark_script_input and add_2x2multisig_input;
\* second is the key number of the second signer of a multisig input.
AddInput(b, kind, outpoint, second) ==
  [b EXCEPT !.inputs = Append(@, [kind |-> kind, outpoint |-> outpoint, second |-> second])]
add_recipient_with_bulletproof(b, outpoint, token, recipient, amount) ==
  LET old == IF outpoint \in DOMAIN b.bulletproof_outputs THEN b.bulletproof_outputs[outpoint] ELSE <<>>
      new == Append(old, [token |-> token, recipient |-> recipient, amount |-> amount])
  IN [b EXCEPT !.is_inputs_selected = TRUE,
               !.bulletproof_outputs = [o \in DOMAIN @ \cup {outpoint} |-> IF o = outpoint THEN new ELSE @[o]]]

(***************************************************************************)
(* Coin selection and fill_missing_amount.  The storage is streamed in an  *)
(* arbitrary order; the largest amounts go first.                          *)
(***************************************************************************)
\* The candidates are filtered by token and bulletproof only.
form_weighted_utxos_from_storage(storage, token) ==
  {o \in DOMAIN storage : ~is_bulletproof(storage[o]) /\ Token(storage[o]) = token}

SumSeq(storage, os) ==
  FoldLeft(LAMBDA acc, o : acc + Amount(storage[o]), 0, os)

\* select_sorted_utxos: all the required ones and then as many as are needed; the sum wraps around.
select_sorted_utxos(storage, required, optional, target) ==
  LET enough(n) == SumSeq(storage, required \o SubSeq(optional, 1, n)) % TwoToW >= target
      ns == {n \in 0 .. Len(optional) : enough(n)}
  IN required \o SubSeq(optional, 1, IF ns = {} THEN Len(optional) ELSE Min(ns))

\* Lrc20LargestFirstCoinSelection::coin_select
coin_select(storage, required, optional, target) ==
  select_sorted_utxos(storage, required,
                      SetToSortSeq(optional, LAMBDA a, b : \/ Amount(storage[a]) > Amount(storage[b])
                                                           \/ Amount(storage[a]) = Amount(storage[b]) /\ a < b),
                      target)

\* The sum of the outputs wraps around; the sum of the inputs is checked.
OutputSum(b, token) ==
  SumOver(LAMBDA i : b.outputs[i].amount, {i \in DOMAIN b.outputs : b.outputs[i].token = token}) % TwoToW
InputOutpoints(b, storage, token) ==
  LET os == [i \in 1 .. Len(b.inputs) |-> b.inputs[i].outpoint]
  IN SelectSeq(os, LAMBDA o : Token(storage[o]) = token)

InputOf(p, outpoint) ==
  [kind |-> CASE p.kind = "SparkExit" -> "SparkExitScript" [] p.kind = "P2TR" -> "TaprootReceipt"
              [] OTHER -> "Receipt",
   outpoint |-> outpoint, second |-> 0]

\* Mutant: the change is an output of satoshis.
add_change_outputSatoshis(b, me, token, residual) == AddOutput(b, Satoshis_output(<<me>>))
add_change_output(b, me, token, residual) == AddOutput(b, Receipt_output(token, residual, <<me>>, <<>>))

\* The inputs already there are required ones, may be optional ones as well, and are added once more.
fill_missing_amount(b, storage, me, token) ==
  LET output_sum == OutputSum(b, token)
      present == InputOutpoints(b, storage, token)
      input_sum == SumSeq(storage, present)
      selected == coin_select(storage, SelectSeq(present, LAMBDA o : ~is_bulletproof(storage[o])),
                              form_weighted_utxos_from_storage(storage, token), output_sum - input_sum)
      filled == (input_sum + SumSeq(storage, selected)) % TwoToW
      more == [b EXCEPT !.inputs = @ \o [i \in 1 .. Len(selected) |-> InputOf(storage[selected[i]], selected[i])]]
  IN CASE \E i \in DOMAIN b.inputs : b.inputs[i].outpoint \notin DOMAIN storage -> Failed
       [] input_sum >= TwoToW -> Failed
       [] input_sum = output_sum -> [ok |-> TRUE, b |-> b]
       [] input_sum > output_sum -> [ok |-> TRUE, b |-> add_change_output(b, me, token, input_sum - output_sum)]
       [] filled < output_sum -> Failed
       [] OTHER -> [ok |-> TRUE, b |-> IF filled > output_sum
                                         THEN add_change_output(more, me, token, filled - output_sum) ELSE more]

\* finish up to build_tx: one call of fill_missing_amount for every listed token.
add_tweaked_satoshi_inputs(b, storage) ==
  LET os == SetToSortSeq({o \in DOMAIN storage : is_empty_receiptproof(storage[o])}, <)
  IN [b EXCEPT !.inputs = @ \o [i \in 1 .. Len(os) |-> [kind |-> "TweakedSatoshis", outpoint |-> os[i], second |-> 0]]]
Filled(b, storage, me) ==
  LET start == IF b.drain THEN add_tweaked_satoshi_inputs(b, storage) ELSE b
      after[i \in 0 .. Len(b.token_pubkeys)] ==
        IF i = 0 THEN [ok |-> TRUE, b |-> start]
        ELSE IF ~after[i - 1].ok THEN Failed
        ELSE fill_missing_amount(after[i - 1].b, storage, me, b.token_pubkeys[i])
  IN CASE b.is_inputs_selected -> [ok |-> TRUE, b |-> b]
       [] ~b.is_inputs_selected /\ b.is_issuance -> [ok |-> TRUE, b |-> start]
       [] OTHER -> after[Len(b.token_pubkeys)]

(***************************************************************************)
(* Bulletproofs.  The blinding of a commitment is the shared secret of the *)
(* sender and the recipient, so that both can compute it.                  *)
(***************************************************************************)
ecdh(me, key) == me * key[1]
get_commitment(me, recipient, amount) == [v |-> amount, r |-> ecdh(me, recipient)]
proof_hash(commitment) == commitment.v * 100 + commitment.r

\* The tweaks of tweak_signing_keys in their order: the input's key, then less those of its outputs.
Tweaks(b, storage, me) ==
  LET os == SetToSortSeq(DOMAIN b.bulletproof_outputs, <)
      of(o) == <<[token |-> storage[o].receipt.token, t |-> ecdh(me, storage[o].sender_key)]>>
                 \o [i \in 1 .. Len(b.bulletproof_outputs[o]) |->
                       [token |-> storage[o].receipt.token, t |-> -ecdh(me, b.bulletproof_outputs[o][i].recipient)]]
  IN FlattenSeq([i \in 1 .. Len(os) |-> of(os[i])])
SumTweaks(ts, n, chosen(_)) ==
  SumOver(LAMBDA i : ts[i].t, {i \in 1 .. n : chosen(ts[i])})
\* add_tweak fails when the key becomes zero.
TweaksFail(ts) ==
  \E n \in 2 .. Len(ts) : \/ SumTweaks(ts, n, LAMBDA x : TRUE) = 0
                          \/ SumTweaks(ts, n, LAMBDA x : x.token = ts[n].token) = 0

\* The recipients with the token of the input they are paid from and their commitments.
BulletproofParams(b, storage, me) ==
  LET os == SetToSortSeq(DOMAIN b.bulletproof_outputs, <)
      of(o) == [j \in 1 .. Len(b.bulletproof_outputs[o]) |->
                  [p |-> b.bulletproof_outputs[o][j], input_token |-> IF o = 0 THEN <<>> ELSE storage[o].receipt.token,
                   commitment |-> get_commitment(me, b.bulletproof_outputs[o][j].recipient, b.bulletproof_outputs[o][j].amount)]]
  IN FlattenSeq([i \in 1 .. Len(os) |-> of(os[i])])
\* What the signatures cover: the inputs by amount and then the hashes of the new proofs.
Hashed(storage, ins, params) ==
  SortSeq([i \in 1 .. Len(ins) |-> [token |-> storage[ins[i]].receipt.token, amount |-> storage[ins[i]].receipt.amount]],
          LAMBDA x, y : x.amount < y.amount)
    \o [i \in 1 .. Len(params) |-> [token |-> params[i].input_token, amount |-> proof_hash(params[i].commitment)]]
BulletproofOutput(is_issuance, me, ts, hashed, param) ==
  LET t == param.p.token
      c == param.commitment
      message(s) == [i \in 1 .. Len(s) |-> s[i].amount]
      signature(chosen(_), signs(_)) ==
        IF is_issuance THEN [key |-> [v |-> 0, r |-> c.r], message |-> <<proof_hash(c)>>]
        ELSE [key |-> [v |-> 0, r |-> SumTweaks(ts, Len(ts), chosen)], message |-> message(SelectSeq(hashed, signs))]
  IN [kind |-> "BulletproofReceipt", token |-> <<>>, amount |-> 0,
      proof |-> [kind |-> "Bulletproof", receipt |-> [amount |-> proof_hash(c), token |-> t], inner_key |-> param.p.recipient,
                 sender_key |-> <<me>>, commitment |-> c, amount_ok |-> TRUE, range_proof_ok |-> TRUE,
                 signature |-> signature(LAMBDA x : TRUE, LAMBDA h : TRUE),
                 token_pubkey_signature |-> signature(LAMBDA x : x.token = t, LAMBDA h : h.token = t)]]
SignBulletproofs(b, storage, me, ts, params, hashed) ==
  LET tokens == {storage[o].receipt.token : o \in DOMAIN b.bulletproof_outputs}
      fails == TweaksFail(ts) \/ \E i \in 1 .. Len(params) : params[i].p.token \notin tokens
  IN IF ~b.is_issuance /\ fails THEN Failed
     ELSE [ok |-> TRUE, b |-> [b EXCEPT !.outputs = @ \o
             [i \in 1 .. Len(params) |-> BulletproofOutput(b.is_issuance, me, ts, hashed, params[i])]]]
process_bulletproof_outputs(b, storage, me, ins) ==
  LET signed(params) == SignBulletproofs(b, storage, me, Tweaks(b, storage, me), params, Hashed(storage, ins, params))
  IN signed(BulletproofParams(b, storage, me))

(***************************************************************************)
(* build_tx: proofs and scripts of the outputs, then the witnesses.        *)
(***************************************************************************)
process_output(o) ==
  CASE o.kind = "Satoshis" -> [kind |-> "EmptyReceipt", inner_key |-> o.recipient]
    [] o.kind \in {"Receipt", "TaprootReceipt"} ->
         [kind |-> IF o.kind = "Receipt" THEN "Sig" ELSE "P2TR",
          receipt |-> [amount |-> o.amount, token |-> o.token], inner_key |-> o.recipient, metadata |-> o.metadata]
    [] o.kind = "MultisigReceipt" ->
         [kind |-> "Multisig", receipt |-> [amount |-> o.amount, token |-> o.token],
          inner_keys |-> o.participants, m |-> o.required_signatures]
    [] o.kind = "BulletproofReceipt" -> o.proof

OutputScript(p) ==
  CASE p.kind = "Sig" -> P2WPKH(ReceiptKey(ReceiptHash(p.receipt, p.metadata), p.inner_key))
    [] p.kind = "P2TR" -> P2TR(ReceiptKey(ReceiptHash(p.receipt, p.metadata), p.inner_key), <<>>)
    [] p.kind \in {"EmptyReceipt", "Bulletproof"} -> P2WPKH(Tweak(p.inner_key, receipt(p)))
    [] p.kind = "Multisig" -> P2WSH(create_multisig_redeem_script(p))

\* The sum of the announcement is taken over what it announces, and wraps around.
form_issue_announcement(proofs) ==
  LET ps == SelectSeq(proofs, LAMBDA p : ~is_empty_receiptproof(p))
  IN IF ps = <<>> THEN <<>>
     ELSE <<[token |-> Token(ps[1]),
             amount |-> IF \E i \in DOMAIN ps : is_bulletproof(ps[i]) THEN 0
                        ELSE SumOver(LAMBDA i : Amount(ps[i]), DOMAIN ps) % TwoToW]>>

\* What process_inputs refuses: an unknown output, or one of another kind than the input was added as.
process_input_ok(input, storage) ==
  /\ input.outpoint \in DOMAIN storage
  /\ input.kind = "Multisig2x2" => storage[input.outpoint].kind = "Multisig"
  /\ input.kind = "TaprootReceipt" => storage[input.outpoint].kind = "P2TR"

\* TransactionSigner::sign of one input: the witness, or <<>> for an error (a missing key
\* is an error of a spark exit or a multisig and a panic of the others).  signers are the
\* numbers of the keys; a P2WSH output needs the script of a multisig input.  The control
\* block of a script path is not kept.
Signed(signer, signers, stack, script) ==
  IF signer[1] \in signers THEN <<[stack |-> stack, script |-> script]>> ELSE <<>>
sign_p2wpkh_input(p, signers) ==
  LET key == IF p.kind = "Sig" THEN ReceiptKey(ReceiptHash(p.receipt, p.metadata), p.inner_key)
                               ELSE Tweak(p.inner_key, receipt(p))
  IN Signed(p.inner_key, signers, <<Sig(key), PushKey(key)>>, <<>>)
sign_taproot_input(p, signers) ==
  Signed(p.inner_key, signers, <<Sig(ReceiptKey(ReceiptHash(p.receipt, p.metadata), p.inner_key))>>, <<>>)
sign_spark_exit_input(p, signers) ==
  Signed(p.delay_key, signers, <<Sig(Tweak(p.delay_key, p.receipt))>>, timelock_script(p))
\* The first of the keys at hand is tweaked, which is the first of the script when all are.
sign_multiproof_input(p, input, signers) ==
  LET mine == SelectSeq(p.inner_keys, LAMBDA k : k[1] \in signers)
      keys == sort_and_tweak_keys([p EXCEPT !.inner_keys = mine])
  IN IF input.kind = "Multisig2x2" /\ Len(mine) >= p.m
       THEN <<[stack |-> << <<"flag", 0>> >> \o [i \in 1 .. Len(mine) |-> Sig(keys[i])],
               script |-> create_multisig_redeem_script(p)]>>
       ELSE <<>>
sign_input(p, input, signers) ==
  CASE p.kind \in {"Sig", "EmptyReceipt", "Bulletproof"} -> sign_p2wpkh_input(p, signers)
    [] p.kind = "P2TR" -> sign_taproot_input(p, signers)
    [] p.kind = "SparkExit" -> sign_spark_exit_input(p, signers)
    [] p.kind = "Multisig" -> sign_multiproof_input(p, input, signers)
    [] OTHER -> <<>>

\* form_tx_type with the proofs of the outputs and, last, the empty proof of the Bitcoin change
\* (insert_empty_receiptproofs), and the witnesses: own Bitcoin inputs, then those of the builder.
form_tx_type(b, storage, me, own, ins, witnesses, announcement, all) ==
  LET offset == IF b.is_issuance THEN 1 ELSE 0
      output_proofs == [v \in offset .. offset + Len(all) - 1 |-> all[v - offset + 1]]
      scripts == [i \in 1 .. Len(all) |-> OutputScript(all[i])]
      input == [i \in 1 .. own |-> [stack |-> <<Sig(<<me>>), PushKey(<<me>>)>>, script |-> <<>>]]
                 \o [i \in 1 .. Len(ins) |-> witnesses[i][1]]
      input_proofs == [v \in own .. own + Len(ins) - 1 |-> storage[ins[v - own + 1].outpoint]]
  IN CASE b.is_issuance /\ announcement = <<>> -> Failed
       [] \E i \in DOMAIN ins : witnesses[i] = <<>> -> Failed
       [] b.is_issuance ->
            [ok |-> TRUE, inputs |-> ins,
             t |-> [kind |-> "Issue", announcement |-> announcement[1], output_proofs |-> <<output_proofs>>,
                    tx |-> [input |-> input, output |-> << <<"op_return", announcement>> >> \o scripts]]]
       [] OTHER ->
            [ok |-> TRUE, inputs |-> ins,
             t |-> [kind |-> "Transfer", input_proofs |-> input_proofs, output_proofs |-> output_proofs,
                    tx |-> [input |-> input, output |-> scripts]]]
build_tx(b, storage, me, own, change) ==
  LET spent == SetToSortSeq(DOMAIN b.bulletproof_outputs \ {0}, <)
      inputs == b.inputs \o [i \in 1 .. Len(spent) |-> [kind |-> "BulletproofReceipt", outpoint |-> spent[i], second |-> 0]]
      bulletproofs(ins) == SetToSortSeq({o \in {ins[i].outpoint : i \in DOMAIN ins} : is_bulletproof(storage[o])}, <)
      completed(ins) == IF b.bulletproof_outputs = <<>> THEN [ok |-> TRUE, b |-> b]
                        ELSE process_bulletproof_outputs(b, storage, me, bulletproofs(ins))
      witnesses(ins) ==
        LET signers == {me} \cup {ins[i].second : i \in DOMAIN ins}
        IN [i \in DOMAIN ins |-> sign_input(storage[ins[i].outpoint], ins[i], signers)]
      formed(ins, proofs) ==
        form_tx_type(b, storage, me, own, ins, witnesses(ins), form_issue_announcement(proofs),
                     proofs \o (IF change THEN <<[kind |-> "EmptyReceipt", inner_key |-> <<me>>]>> ELSE <<>>))
      proved(ins, c) == IF ~c.ok THEN Failed
                        ELSE formed(ins, [i \in DOMAIN c.b.outputs |-> process_output(c.b.outputs[i])])
      built(ins) == IF \E i \in DOMAIN ins : ~process_input_ok(ins[i], storage) THEN Failed ELSE proved(ins, completed(ins))
  IN built(inputs)

finish(b, storage, me, own, change) ==
  LET build(filled) == IF filled.ok THEN build_tx(filled.b, storage, me, own, change) ELSE Failed
  IN build(Filled(b, storage, me))
=============================================================================
