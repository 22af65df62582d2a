--------------------------- MODULE IsolatedChecks ---------------------------
(***************************************************************************)
(* The isolated checks of a transaction (crates/tx-check/src/              *)
(* isolated_checks.rs): what the node can say about a transaction and its  *)
(* proofs without looking at the ones it spends.                           *)
(*                                                                         *)
(* A transaction is [input, output]: the witnesses of its inputs and the   *)
(* scripts of its outputs.  An OP_RETURN output is <<"op_return", a>>, a   *)
(* being <<>> or the issue announcement in it, [token, amount].  A proof   *)
(* map is a function from the (zero based) numbers of some of its inputs   *)
(* or outputs to proofs.  Errors are not told apart: each check is the     *)
(* condition under which the function returns Ok.                          *)
(*                                                                         *)
(* A Pedersen commitment is [v, r]: v times one generator plus r times the *)
(* other, nobody knowing one in terms of the other.  A Schnorr signature   *)
(* is the key and the message it is for.                                   *)
(***************************************************************************)
EXTENDS ReceiptProofs, SequencesExt, FiniteSetsExt

CONSTANT AmountBits             \* the width of an amount, 128 in the code

TwoToW == 2 ^ AmountBits
Token(p) == receipt(p).token
Amount(p) == receipt(p).amount
SumOver(f(_), S) == FoldSet(LAMBDA x, acc : acc + f(x), 0, S)

is_op_return(script) == script[1] = "op_return"
is_empty_receiptproof(p) == p.kind = "EmptyReceipt"
is_bulletproof(p) == p.kind = "Bulletproof"

(***************************************************************************)
(* The parts of the checks.                                                *)
(***************************************************************************)
PaymentOutputs(tx) == {v \in 0 .. Len(tx.output) - 1 : ~is_op_return(tx.output[v + 1])}
check_number_of_proofs(tx, proofs) ==
  Cardinality(PaymentOutputs(tx)) = Cardinality(DOMAIN proofs)

\* extract_from_iterable_by_proof_map: every proof is of an existing input or output.
Extractable(proofs, items) == \A v \in DOMAIN proofs : v < Len(items)

\* sum_amount_by_token_pubkey, without the tokens whose sum is zero; checked_add.
Counted(proofs, t) ==
  {v \in DOMAIN proofs : Token(proofs[v]) = t /\ ~is_empty_receiptproof(proofs[v]) /\ Amount(proofs[v]) # 0}
SumOfToken(proofs, t) == SumOver(LAMBDA v : Amount(proofs[v]), Counted(proofs, t))
TokensOf(proofs) == {Token(proofs[v]) : v \in DOMAIN proofs}
\* Mutant: only the tokens of the inputs are compared.
check_conservation_rulesInputs(inputs, outputs) ==
  \A t \in TokensOf(inputs) :
    /\ SumOfToken(inputs, t) < TwoToW
    /\ SumOfToken(outputs, t) < TwoToW
    /\ SumOfToken(inputs, t) = SumOfToken(outputs, t)
check_conservation_rules(inputs, outputs) ==
  \A t \in TokensOf(inputs) \cup TokensOf(outputs) :
    /\ SumOfToken(inputs, t) < TwoToW
    /\ SumOfToken(outputs, t) < TwoToW
    /\ SumOfToken(inputs, t) = SumOfToken(outputs, t)

check_same_token_pubkey_proofs(proofs, announcement) ==
  \A v \in DOMAIN proofs : is_empty_receiptproof(proofs[v]) \/ Token(proofs[v]) = announcement.token

\* check_issue_announcement: the first output that parses as one has to be the announcement.
check_issue_announcement(tx, announcement) ==
  LET found == SelectSeq(tx.output, LAMBDA s : is_op_return(s) /\ s[2] # <<>>)
  IN found # <<>> /\ found[1][2] = <<announcement>>

\* script_to_address_type: what is none of the other types counts as P2TR.
script_to_address_type(script) ==
  IF script[1] \in {"p2pkh", "p2sh", "p2wpkh", "p2wsh"} THEN script[1] ELSE "p2tr"

(***************************************************************************)
(* Transfers of bulletproofs.                                              *)
(***************************************************************************)
NonEmpty(proofs) ==
  LET kept == {v \in DOMAIN proofs : ~is_empty_receiptproof(proofs[v])}
  IN [i \in 1 .. Cardinality(kept) |-> proofs[SetToSortSeq(kept, <)[i]]]

\* proof_map_to_bulletproofs stops at the first proof of another kind: an error after a bulletproof.
proof_map_to_bulletproofs(was_found, proofs) ==
  LET ps == NonEmpty(proofs)
      other == {i \in 1 .. Len(ps) : ~is_bulletproof(ps[i])}
      found == was_found \/ (ps # <<>> /\ is_bulletproof(ps[1]))
  IN [ok |-> other = {} \/ ~found, all |-> other = {}, found |-> found, proofs |-> ps]

\* combine_commitments over the chosen proofs: the inputs less the outputs.
Combine(ins, outs, chosen(_)) ==
  LET part(ps, c) == SumOver(LAMBDA i : IF c = "v" THEN ps[i].commitment.v ELSE ps[i].commitment.r,
                             {i \in 1 .. Len(ps) : chosen(ps[i])})
  IN [v |-> part(ins, "v") - part(outs, "v"), r |-> part(ins, "r") - part(outs, "r")]

\* derive_pubkey: the point at infinity is not a key; keys are x-only.
IsKey(point) == point.v # 0 \/ point.r # 0
SameXOnly(a, b) == a = b \/ (a.v = -b.v /\ a.r = -b.r)

check_bulletproof_conservation_rules(ins, outs) ==
  LET general == Combine(ins, outs, LAMBDA p : TRUE)
      of(t) == Combine(ins, outs, LAMBDA p : p.receipt.token = t)
      sorted == SortSeq(ins, LAMBDA a, b : a.receipt.amount < b.receipt.amount)
      amounts(chosen(_)) == LET ps == SelectSeq(sorted \o outs, chosen)
                            IN [i \in 1 .. Len(ps) |-> ps[i].receipt.amount]
      tokens == {ins[i].receipt.token : i \in 1 .. Len(ins)}
  IN /\ IsKey(general)
     /\ \A t \in tokens : IsKey(of(t))
     /\ \A i \in 1 .. Len(outs) :
          LET t == outs[i].receipt.token
          IN /\ t \in tokens
             /\ SameXOnly(outs[i].signature.key, general)
             /\ outs[i].signature.message = amounts(LAMBDA p : TRUE)
             /\ SameXOnly(outs[i].token_pubkey_signature.key, of(t))
             /\ outs[i].token_pubkey_signature.message = amounts(LAMBDA p : p.receipt.token = t)

(***************************************************************************)
(* The checks of the kinds of transactions.                                *)
(***************************************************************************)
check_proofs_isolated(tx, inputs, outputs) ==
  /\ check_number_of_proofs(tx, outputs)
  /\ Extractable(inputs, tx.input) /\ Extractable(outputs, tx.output)
  /\ \A v \in DOMAIN inputs : ~is_burn(inputs[v]) /\ checked_check_by_input(inputs[v], tx.input[v + 1])
  /\ \A v \in DOMAIN outputs : checked_check_by_output(outputs[v], tx.output[v + 1])
  /\ LET ins == proof_map_to_bulletproofs(FALSE, inputs)
         outs == proof_map_to_bulletproofs(ins.found, outputs)
     IN /\ ins.ok /\ outs.ok
        /\ IF ins.all /\ outs.all
             THEN check_bulletproof_conservation_rules(ins.proofs, outs.proofs)
             ELSE check_conservation_rules(inputs, outputs)

\* The proofs of OP_RETURN outputs are not looked at.
ProofsFitOutputs(tx, proofs) ==
  \A v \in DOMAIN proofs : is_op_return(tx.output[v + 1]) \/ checked_check_by_output(proofs[v], tx.output[v + 1])

\* The amounts of an issuance are added without a check for overflow.
check_issue_isolated(tx, output_proofs, announcement) ==
  /\ output_proofs # <<>>
  /\ LET proofs == output_proofs[1]
     IN /\ check_issue_announcement(tx, announcement)
        /\ check_number_of_proofs(tx, proofs)
        /\ check_same_token_pubkey_proofs(proofs, announcement)
        /\ Extractable(proofs, tx.output)
        /\ ProofsFitOutputs(tx, proofs)
        /\ \/ \E v \in DOMAIN proofs : is_bulletproof(proofs[v])
           \/ SumOver(LAMBDA v : Amount(proofs[v]), DOMAIN proofs) % TwoToW = announcement.amount

check_spark_exit_isolated(tx, outputs) ==
  /\ check_number_of_proofs(tx, outputs)
  /\ Extractable(outputs, tx.output)
  /\ ProofsFitOutputs(tx, outputs)

check_announcement_isolated(announcement) ==
  announcement.kind = "TransferOwnership" => script_to_address_type(announcement.new_owner) # "p2tr"

check_transaction(t) ==
  CASE t.kind = "Issue" -> check_issue_isolated(t.tx, t.output_proofs, t.announcement)
    [] t.kind = "Transfer" -> check_proofs_isolated(t.tx, t.input_proofs, t.output_proofs)
    [] t.kind = "Announcement" -> check_announcement_isolated(t.announcement)
    [] t.kind = "SparkExit" -> check_spark_exit_isolated(t.tx, t.output_proofs)

\* check_p2tr_proof, against the output the transaction spends.
check_p2tr_proof(script, p) == script = P2TR(ReceiptKey(ReceiptHash(p.receipt, p.metadata), p.inner_key), <<>>)

(***************************************************************************)
(* find_owner_in_txinputs: the first input that spends an output of the    *)
(* owner.  An input is [witness, last, prev_out], prev_out being <<>> when *)
(* get_tx_out does not know the output.  owner is <<>> when the issuer was *)
(* never replaced.  The result is the number of the input, 0 for none and  *)
(* -1 for an error, which ends the search.                                 *)
(***************************************************************************)
handle_p2wpkh_input(w, token) ==
  P2WPKHWitness(w) \in {<<token>>, <<Tweak(token, EmptyReceipt)>>}

\* Whether an input matches, does not match or cannot be parsed.
MatchOwner(input, owner, token) ==
  LET type == script_to_address_type(owner[1])
      condition == IF type = "p2tr" THEN input.prev_out
                                    ELSE SpendingCondition_from_txin(input.witness, input.last, type)
  IN IF owner = <<>> THEN IF handle_p2wpkh_input(input.witness, token) THEN "yes" ELSE "no"
     ELSE IF type = "p2tr" /\ input.prev_out = <<>> THEN "no"
     ELSE IF condition = <<>> \/ (type = "p2tr" /\ condition[1][1] # "p2tr") THEN "error"
     ELSE IF condition = owner THEN "yes" ELSE "no"

find_owner_in_txinputs(inputs, owner, token) ==
  LET decided == {i \in 1 .. Len(inputs) : MatchOwner(inputs[i], owner, token) # "no"}
      first == Min(decided)
  IN IF decided = {} THEN 0 ELSE IF MatchOwner(inputs[first], owner, token) = "yes" THEN first ELSE -1
=============================================================================
