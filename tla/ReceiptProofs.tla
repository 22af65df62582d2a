---------------------------- MODULE ReceiptProofs ----------------------------
(***************************************************************************)
(* Receipts, receipt keys and receipt proofs (crates/receipts): how an     *)
(* output commits to a receipt, and how a proof is checked against the     *)
(* output that is created and against the witness that spends it.          *)
(*                                                                         *)
(* Hashes and keys are symbolic: a hash is the tuple of what was hashed, a *)
(* tweaked key is the pair of the hash and the inner key.  An inner key is *)
(* <<n>>, n being its place in the lexicographic order.  A script is a     *)
(* sequence of instructions: an opcode, a pushed key, hash or number.      *)
(***************************************************************************)
EXTENDS Integers, Sequences, FiniteSets, Functions, TLC

CONSTANT METADATA_MAX_SIZE      \* the longest metadata a proof may carry

Op(o) == <<"op", o>>
PushKey(k) == <<"key", k>>
PushHash(h) == <<"hash", h>>
PushInt(n) == <<"int", n>>

EmptyReceipt == [amount |-> 0, token |-> <<0>>]
ZERO_PUBLIC_KEY == <<0>>

(***************************************************************************)
(* Keys.                                                                   *)
(***************************************************************************)
\* Mutant: the amount is not hashed.
ReceiptHashOfToken(receipt, metadata) == <<receipt.token, metadata>>
\* The hash of a receipt, with the hash of the metadata when the proof has one.
ReceiptHash(receipt, metadata) == <<receipt, metadata>>
ReceiptKey(pxh, inner_key) == <<pxh, inner_key>>
\* The receipt alone, as From<Receipt> for ReceiptHash has it.
Tweak(inner_key, receipt) == ReceiptKey(ReceiptHash(receipt, <<>>), inner_key)

P2WPKH(key) == <<"p2wpkh", key>>
P2WSH(script) == <<"p2wsh", script>>
P2TR(key, tree) == <<"p2tr", key, tree>>

(***************************************************************************)
(* Scripts.                                                                *)
(***************************************************************************)
\* MultisigScript::to_script puts the number of keys first and the number of signatures last.
MultisigScript_to_script(m, keys) ==
  <<PushInt(Len(keys))>> \o [i \in 1 .. Len(keys) |-> PushKey(keys[i])]
    \o <<PushInt(m), Op("CHECKMULTISIG")>>

ToLocalScript_to_script(revocation, delay, delayed) ==
  <<Op("IF"), PushKey(revocation), Op("ELSE"), PushInt(delay), Op("CSV"), Op("DROP"),
    PushKey(delayed), Op("ENDIF"), Op("CHECKSIG")>>

\* The bytes push_int takes for a delay: an opcode up to 16, then as many as its sign bit needs.
IntBytes(n) ==
  CASE n <= 16 -> 0 [] n \in 17 .. 127 -> 1 [] n \in 128 .. 32767 -> 2 [] OTHER -> 3

\* TryFrom<&ScriptBuf> for ToLocalScript: the delay has to be a push of two bytes.
ToLocalScript_from_script(s) ==
  LET ops == <<"IF", "key", "ELSE", "int", "CSV", "DROP", "key", "ENDIF", "CHECKSIG">>
      fits(i) == IF ops[i] \in {"key", "int"} THEN s[i][1] = ops[i] ELSE s[i] = Op(ops[i])
      parses == Len(s) >= Len(ops) /\ (\A i \in 1 .. Len(ops) : fits(i)) /\ IntBytes(s[4][2]) = 2
  IN IF parses THEN <<[revocation |-> s[2][2], delay |-> s[4][2], delayed |-> s[7][2]]>> ELSE <<>>

push_local_key_multisig_check(k) == <<PushInt(2), Op("SWAP"), PushKey(k), PushInt(2), Op("CHECKMULTISIG")>>
push_payment_hash_check(h) == <<Op("HASH160"), PushHash(h), Op("EQUALVERIFY")>>

\* LightningHtlcData::to_script: cltv is <<>> for an offered and <<expiry>> for a received HTLC.
HtlcScript_to_script(revocation_hash, remote, local, payment_hash, cltv) ==
  <<Op("DUP"), Op("HASH160"), PushHash(revocation_hash), Op("EQUAL"), Op("IF"), Op("CHECKSIG"), Op("ELSE"),
    PushKey(remote), Op("SWAP"), Op("SIZE"), PushInt(32), Op("EQUAL")>>
    \o (IF cltv = <<>>
          THEN <<Op("NOTIF"), Op("DROP")>> \o push_local_key_multisig_check(local)
                 \o <<Op("ELSE")>> \o push_payment_hash_check(payment_hash)
          ELSE <<Op("IF")>> \o push_payment_hash_check(payment_hash) \o push_local_key_multisig_check(local)
                 \o <<Op("ELSE"), Op("DROP"), PushInt(cltv[1]), Op("CLTV"), Op("DROP")>>)
    \o <<Op("CHECKSIG"), Op("ENDIF"), Op("ENDIF")>>

timelock_script(p) ==
  <<PushInt(p.locktime), Op("CLTV"), Op("DROP"), PushKey(Tweak(p.delay_key, p.receipt)), Op("CHECKSIG")>>

\* P2WSHProof::find_first_pubkey
find_first_pubkey(s) == LET ks == SelectSeq(s, LAMBDA i : i[1] = "key")
                        IN IF ks = <<>> THEN <<>> ELSE <<ks[1][2]>>

(***************************************************************************)
(* Proofs.  receipt() and metadata() of a proof, the keys that may spend   *)
(* its output and the script the output has to have.                       *)
(***************************************************************************)
receipt(p) == IF p.kind = "EmptyReceipt" THEN EmptyReceipt ELSE p.receipt
metadata(p) == IF p.kind \in {"Sig", "P2TR"} THEN p.metadata ELSE <<>>

\* MultisigReceiptProof::sort_and_tweak_keys; no keys is an error.
sort_and_tweak_keys(p) ==
  LET keys == SortSeq(p.inner_keys, LAMBDA a, b : a[1] < b[1])
  IN [keys EXCEPT ![1] = Tweak(keys[1], p.receipt)]
create_multisig_redeem_script(p) == MultisigScript_to_script(p.m, sort_and_tweak_keys(p))
to_redeem_script(p) ==
  ToLocalScript_to_script(Tweak(p.revocation_pubkey, p.receipt), p.to_self_delay, p.local_delayed_pubkey)
HtlcProof_to_script(p) ==
  HtlcScript_to_script(p.revocation_key_hash, Tweak(p.remote_htlc_key, p.receipt), p.local_htlc_key,
                       p.payment_hash, p.cltv_expiry)

check_metadata_size(p) == metadata(p) = <<>> \/ metadata(p)[1] <= METADATA_MAX_SIZE
P2WSH_check_pubkey(p) == find_first_pubkey(p.script) = <<Tweak(p.inner_key, p.receipt)>>

Sig_check_by_output(p, script) ==
  /\ p.receipt # EmptyReceipt
  /\ script = P2WPKH(ReceiptKey(ReceiptHash(p.receipt, p.metadata), p.inner_key))
  /\ check_metadata_size(p)
EmptyReceipt_check_by_output(p, script) == script = P2WPKH(Tweak(p.inner_key, EmptyReceipt))
Multisig_check_by_output(p, script) == p.inner_keys # <<>> /\ script = P2WSH(create_multisig_redeem_script(p))
P2TR_check_by_output(p, script) ==
  /\ script = P2TR(ReceiptKey(ReceiptHash(p.receipt, p.metadata), p.inner_key), <<>>)
  /\ check_metadata_size(p)
Lightning_check_by_output(p, script) == script = P2WSH(to_redeem_script(p))
LightningHtlc_check_by_output(p, script) == script = P2WSH(HtlcProof_to_script(p))
P2WSH_check_by_output(p, script) == P2WSH_check_pubkey(p) /\ script = P2WSH(p.script)
SparkExit_check_by_output(p, script) == script = P2TR(p.revocation_key, <<timelock_script(p)>>)
\* amount_ok and range_proof_ok are what check_token_amount and verify say of the commitment.
Bulletproof_check_by_output(p, script) ==
  script = P2WPKH(Tweak(p.inner_key, p.receipt)) /\ p.amount_ok /\ p.range_proof_ok

checked_check_by_output(p, script) ==
  CASE p.kind = "Sig" -> Sig_check_by_output(p, script)
    [] p.kind = "EmptyReceipt" -> EmptyReceipt_check_by_output(p, script)
    [] p.kind = "Multisig" -> Multisig_check_by_output(p, script)
    [] p.kind = "P2TR" -> P2TR_check_by_output(p, script)
    [] p.kind = "Lightning" -> Lightning_check_by_output(p, script)
    [] p.kind = "LightningHtlc" -> LightningHtlc_check_by_output(p, script)
    [] p.kind = "P2WSH" -> P2WSH_check_by_output(p, script)
    [] p.kind = "SparkExit" -> SparkExit_check_by_output(p, script)
    [] p.kind = "Bulletproof" -> Bulletproof_check_by_output(p, script)

(***************************************************************************)
(* Witnesses: [stack, script], the stack holding signatures by keys, the   *)
(* empty element and public keys; script is <<>> for a spend without one.  *)
(***************************************************************************)
Sig(k) == <<"sig", k>>
IsSig(e) == e[1] = "sig"

\* P2WPKHWitness::from_witness: a signature and a public key.
P2WPKHWitness(w) ==
  IF w.script = <<>> /\ Len(w.stack) = 2 /\ IsSig(w.stack[1]) /\ w.stack[2][1] = "key"
    THEN <<w.stack[2][2]>> ELSE <<>>

\* MultisigWitnessStack::from_witness_stack: the number of signatures after the first element.
MultisigWitness_ok(w) ==
  w.script # <<>> /\ w.stack # <<>> /\ \A i \in 2 .. Len(w.stack) : IsSig(w.stack[i])

\* LightningCommitmentWitnessStack::from_witness_stack: a signature and a flag.
LightningCommitmentWitness_ok(w) ==
  w.script # <<>> /\ Len(w.stack) = 2 /\ IsSig(w.stack[1]) /\ w.stack[2][1] = "flag"

Sig_check_by_input(p, w) == P2WPKHWitness(w) = <<ReceiptKey(ReceiptHash(p.receipt, p.metadata), p.inner_key)>>
EmptyReceipt_check_by_input(p, w) == P2WPKHWitness(w) = <<Tweak(p.inner_key, EmptyReceipt)>>
Multisig_check_by_input(p, w) ==
  /\ MultisigWitness_ok(w) /\ p.inner_keys # <<>>
  /\ Len(w.stack) - 1 = p.m
  /\ w.script = create_multisig_redeem_script(p)
Lightning_check_by_input(p, w) == LightningCommitmentWitness_ok(w) /\ w.script = to_redeem_script(p)
LightningHtlc_check_by_input(p, w) == w.script = HtlcProof_to_script(p)
P2WSH_check_by_input(p, w) == P2WSH_check_pubkey(p) /\ w.script # <<>> /\ w.script = p.script
Bulletproof_check_by_input(p, w) == P2WPKHWitness(w) = <<Tweak(p.inner_key, p.receipt)>> /\ p.range_proof_ok

\* A taproot input does not show its key: it is checked against the output it spends.
checked_check_by_input(p, w) ==
  CASE p.kind = "Sig" -> Sig_check_by_input(p, w)
    [] p.kind = "EmptyReceipt" -> EmptyReceipt_check_by_input(p, w)
    [] p.kind = "Multisig" -> Multisig_check_by_input(p, w)
    [] p.kind = "Lightning" -> Lightning_check_by_input(p, w)
    [] p.kind = "LightningHtlc" -> LightningHtlc_check_by_input(p, w)
    [] p.kind = "P2WSH" -> P2WSH_check_by_input(p, w)
    [] p.kind = "Bulletproof" -> Bulletproof_check_by_input(p, w)
    [] p.kind \in {"P2TR", "SparkExit"} -> TRUE

is_burn(p) == p.kind = "Sig" /\ p.inner_key = ZERO_PUBLIC_KEY

spender_keys(p) ==
  CASE p.kind \in {"Sig", "P2TR", "EmptyReceipt", "P2WSH"} -> {p.inner_key}
    [] p.kind = "Multisig" -> Range(p.inner_keys)
    [] p.kind = "Lightning" -> {p.revocation_pubkey, p.local_delayed_pubkey}
    [] p.kind = "LightningHtlc" -> {p.remote_htlc_key, p.local_htlc_key}
    [] p.kind = "SparkExit" -> {p.delay_key}
    [] p.kind = "Bulletproof" -> {p.inner_key, p.sender_key}

(***************************************************************************)
(* SpendingCondition (crates/tx-check/src/script_parser.rs): the script of *)
(* the output an input spends, out of the input alone.  last is the data   *)
(* the script of a legacy input ends with, <<>> when it ends otherwise.    *)
(***************************************************************************)
SpendingCondition_from_txin(w, last, address_type) ==
  CASE address_type = "p2wpkh" -> IF Len(w.stack) < 2 THEN <<>>      \* witness[1] panics or is the script
                                  ELSE IF w.stack[2][1] = "key" THEN <<P2WPKH(w.stack[2][2])>>
                                  ELSE << <<"other">> >>
    [] address_type = "p2wsh" -> IF w.script # <<>> THEN <<P2WSH(w.script)>>
                                 ELSE IF w.stack = <<>> THEN <<>> ELSE << <<"other">> >>
    [] address_type = "p2pkh" -> IF last = <<>> THEN <<>> ELSE << <<"p2pkh", last[1]>> >>
    [] address_type = "p2sh" -> IF last = <<>> THEN <<>> ELSE << <<"p2sh", last[1]>> >>
    [] OTHER -> <<>>
=============================================================================
