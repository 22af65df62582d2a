---------------------------- MODULE BitcoinWallet ----------------------------
(***************************************************************************)
(* How the Bitcoin wallet (crates/bdk) builds and signs a transaction: the *)
(* lock times its policy asks for, the coins it may spend, the three coin  *)
(* selection algorithms, the fee, the change, the fee bump and the PSBT.   *)
(*                                                                         *)
(* A wallet w has                                                          *)
(*   desc: the descriptor of each keychain ("Internal" only if it has a    *)
(*         change descriptor);  signers: the keys it can sign with;        *)
(*   utxos: its unspent outputs, a sequence;  mine: its scripts, each with *)
(*         its keychain;  txs: what it stores of a transaction: height     *)
(*         (an option), coinbase, fee (an option) and the transaction (an  *)
(*         option);  sync_height: the height of its last sync (an option). *)
(* An output is [script, value]; a utxo adds outpoint and keychain, or is  *)
(* foreign.  Weights are small: an output weighs OutputWeight.  A fee rate *)
(* counts halves of a satoshi per virtual byte, so fees round up.          *)
(***************************************************************************)
EXTENDS SpendingPolicy, TLC

CONSTANTS TXIN_BASE_WEIGHT, SatisfactionWeight, HeaderWeight, OutputWeight, DrainLen, SizeOfChange,
          DustValue, BNB_TOTAL_TRIES, COINBASE_MATURITY

Sum(f(_), S) == FoldSet(LAMBDA x, n : f(x) + n, 0, S)
SumSeq(f(_), s) == Sum(LAMBDA i : f(s[i]), DOMAIN s)

(***************************************************************************)
(* Fees and dust.                                                          *)
(***************************************************************************)
fee_vb(rate, vb) == (rate * vb + 1) \div 2
to_vbytes_ceil(wu) == (wu + 3) \div 4
fee_wu(rate, wu) == fee_vb(rate, to_vbytes_ceil(wu))
is_dust(value, script) == value < DustValue[script]
TxWeight(tx) == HeaderWeight + OutputWeight * Len(tx.output)
                + SumSeq(LAMBDA u : TXIN_BASE_WEIGHT + u.satisfaction_weight, tx.input)

(***************************************************************************)
(* Coin selection.                                                         *)
(***************************************************************************)
InputFee(u, rate) == fee_wu(rate, TXIN_BASE_WEIGHT + u.satisfaction_weight)
OutputGroup_new(u, rate) == [u |-> u, fee |-> InputFee(u, rate), effective_value |-> u.value - InputFee(u, rate)]

InsufficientFunds(needed, available) ==
  [ok |-> FALSE, err |-> "InsufficientFunds", needed |-> needed, available |-> available]
\* Mutant: the change output takes all of the excess, its own fee included.
decide_changeAll(remaining, rate, drain_script) ==
  LET change_fee == fee_vb(rate, DrainLen)
  IN IF is_dust(remaining, drain_script)
       THEN [change |-> FALSE, dust_threshold |-> DustValue[drain_script], change_fee |-> change_fee, remaining |-> remaining]
       ELSE [change |-> TRUE, amount |-> remaining, fee |-> change_fee]
decide_change(remaining, rate, drain_script) ==
  LET change_fee == fee_vb(rate, DrainLen)
      drain_val == IF remaining > change_fee THEN remaining - change_fee ELSE 0
  IN IF is_dust(drain_val, drain_script)
       THEN [change |-> FALSE, dust_threshold |-> DustValue[drain_script], change_fee |-> change_fee, remaining |-> remaining]
       ELSE [change |-> TRUE, amount |-> drain_val, fee |-> change_fee]

\* The coins in order, the required ones first; the first optional one that is not needed ends the scan.
select_sorted_utxos(required, optional, rate, target, drain_script) ==
  LET Taken(n) == required \o SubSeq(optional, 1, n)
      value(n) == SumSeq(LAMBDA u : u.value, Taken(n))
      fees(n) == SumSeq(LAMBDA u : InputFee(u, rate), Taken(n))
      n == Min({k \in 0 .. Len(optional) : value(k) >= target + fees(k)} \cup {Len(optional)})
  IN IF value(n) < target + fees(n) THEN InsufficientFunds(target + fees(n), value(n))
     ELSE [ok |-> TRUE, selected |-> Taken(n), fee_amount |-> fees(n),
           excess |-> decide_change(value(n) - target - fees(n), rate, drain_script)]
LargestFirst(required, optional, rate, target, drain_script) ==
  select_sorted_utxos(required, SortSeq(optional, LAMBDA a, b : a.value > b.value), rate, target, drain_script)
\* An output without a known height comes last.
OldestFirst(w, required, optional, rate, target, drain_script) ==
  LET known(u) == u.outpoint[1] \in DOMAIN w.txs /\ w.txs[u.outpoint[1]].height # <<>>
      height(u) == w.txs[u.outpoint[1]].height[1]
  IN select_sorted_utxos(required, SortSeq(optional, LAMBDA a, b : known(a) /\ (known(b) => height(a) < height(b))),
                         rate, target, drain_script)

calculate_cs_result(selected, required, excess) ==
  LET all == selected \o required
  IN [ok |-> TRUE, selected |-> [i \in DOMAIN all |-> all[i].u], fee_amount |-> SumSeq(LAMBDA g : g.fee, all), excess |-> excess]
\* The search of bnb: [best: the choice, as a sequence of Booleans, best_value: its value, an option].
BnbSearch(pool, curr_value, curr_available_value, target, cost_of_change) ==
  LET effective(i) == pool[i].effective_value
      RECURSIVE Search(_)
      Search(s) ==
        LET out_of_range == s.curr + s.avail < target \/ s.curr > target + cost_of_change
            found == ~out_of_range /\ s.curr >= target
            t == IF found /\ (s.best_value = <<>> \/ s.curr < s.best_value[1])
                   THEN [s EXCEPT !.best = s.sel, !.best_value = <<s.curr>>] ELSE s
            used == {i \in DOMAIN s.sel : s.sel[i]}
            last == Max(used)
            next == Len(s.sel) + 1
        IN IF s.tries = 0 THEN s
           ELSE IF found /\ s.curr = target THEN t
           ELSE IF found \/ out_of_range
             THEN IF used = {} THEN t
                  ELSE Search([t EXCEPT !.sel = Append(SubSeq(s.sel, 1, last - 1), FALSE), !.curr = @ - effective(last),
                                        !.avail = @ + Sum(effective, last + 1 .. Len(s.sel)), !.tries = @ - 1])
             ELSE Search([t EXCEPT !.sel = Append(@, TRUE), !.curr = @ + effective(next),
                                   !.avail = @ - effective(next), !.tries = @ - 1])
  IN Search([sel |-> <<>>, curr |-> curr_value, avail |-> curr_available_value, best |-> <<>>, best_value |-> <<>>,
             tries |-> BNB_TOTAL_TRIES])
\* <<>> when there is no match; a match without optional coins counts as none.
bnb(required, optional, curr_value, curr_available_value, target, cost_of_change, rate, drain_script) ==
  LET pool == SortSeq(optional, LAMBDA a, b : a.effective_value > b.effective_value)
      s == BnbSearch(pool, curr_value, curr_available_value, target, cost_of_change)
      chosen == FlattenSeq([i \in DOMAIN s.best |-> IF s.best[i] THEN <<pool[i]>> ELSE <<>>])
  IN IF s.best = <<>> THEN <<>>
     ELSE <<calculate_cs_result(chosen, required, decide_change(s.best_value[1] - target, rate, drain_script))>>
\* `shuffle' gives every outpoint its place in the random order.
single_random_draw(required, optional, curr_value, target, rate, drain_script, shuffle) ==
  LET drawn == SortSeq(optional, LAMBDA a, b : shuffle[a.u.outpoint] < shuffle[b.u.outpoint])
      amount(n) == curr_value + SumSeq(LAMBDA g : g.effective_value, SubSeq(drawn, 1, n))
      n == Min({k \in 0 .. Len(drawn) : amount(k) >= target} \cup {Len(drawn)})
  IN calculate_cs_result(SubSeq(drawn, 1, n), required, decide_change(amount(n) - target, rate, drain_script))
BranchAndBound(required_utxos, optional_utxos, rate, target, drain_script, shuffle) ==
  LET Group(s) == [i \in DOMAIN s |-> OutputGroup_new(s[i], rate)]
      required == Group(required_utxos)
      optional == SelectSeq(Group(optional_utxos), LAMBDA g : g.effective_value > 0)
      curr_value == SumSeq(LAMBDA g : g.effective_value, required)
      curr_available_value == SumSeq(LAMBDA g : g.effective_value, optional)
      cost_of_change == (SizeOfChange * rate) \div 2
      match == bnb(required, optional, curr_value, curr_available_value, target, cost_of_change, rate, drain_script)
  IN IF curr_available_value + curr_value < target
       THEN InsufficientFunds(target + SumSeq(LAMBDA g : g.fee, required \o optional),
                              SumSeq(LAMBDA g : g.u.value, required \o optional))
     ELSE IF curr_value > target
       THEN calculate_cs_result(<<>>, required, decide_change(curr_value - target, rate, drain_script))
     ELSE IF match # <<>> THEN match[1]
     ELSE single_random_draw(required, optional, curr_value, target, rate, drain_script, shuffle)
coin_select(w, algorithm, required, optional, rate, target, drain_script, shuffle) ==
  CASE algorithm = "BranchAndBound" -> BranchAndBound(required, optional, rate, target, drain_script, shuffle)
    [] algorithm = "LargestFirst" -> LargestFirst(required, optional, rate, target, drain_script)
    [] algorithm = "OldestFirst" -> OldestFirst(w, required, optional, rate, target, drain_script)

(***************************************************************************)
(* What the builder is told (TxParams).                                    *)
(***************************************************************************)
TxParams_default ==
  [external_policy_path |-> <<>>, internal_policy_path |-> <<>>, version |-> <<>>, current_height |-> <<>>,
   locktime |-> <<>>, rbf |-> <<>>, fee_policy |-> [kind |-> "FeeRate", v |-> 2], bumping_fee |-> <<>>,
   utxos |-> <<>>, manually_selected_only |-> FALSE, recipients |-> <<>>, allow_dust |-> FALSE,
   change_policy |-> "ChangeAllowed", unspendable |-> {}, drain_wallet |-> FALSE, drain_to |-> <<>>,
   only_witness_utxo |-> FALSE, sighash |-> <<>>]
Else(option, default) == IF option = <<>> THEN default ELSE option[1]
Fail(e) == [ok |-> FALSE, err |-> e]
Weighted(w, u) == [outpoint |-> u.outpoint, value |-> u.value, script |-> u.script, keychain |-> u.keychain,
                   satisfaction_weight |-> SatisfactionWeight[u.keychain], foreign |-> <<>>]
get_utxo(w, outpoint) == SelectSeq(w.utxos, LAMBDA u : u.outpoint = outpoint)
\* <<>> when the builder refuses the output.
add_utxo(w, params, outpoint) ==
  LET u == get_utxo(w, outpoint)
  IN IF u = <<>> THEN <<>> ELSE <<[params EXCEPT !.utxos = Append(@, Weighted(w, u[1]))]>>
\* A foreign input brings its own PSBT fields: `witness_utxo' is a Boolean, `non_witness_utxo' is
\* <<>> or the transaction it came with and its number of outputs.
add_foreign_utxo(params, outpoint, value, script, psbt_input, weight) ==
  IF /\ ~psbt_input.witness_utxo
     /\ \/ psbt_input.non_witness_utxo = <<>>
        \/ psbt_input.non_witness_utxo[1].txid # outpoint[1]
        \/ psbt_input.non_witness_utxo[1].outputs <= outpoint[2]
    THEN <<>>
    ELSE <<[params EXCEPT !.utxos = Append(@, [outpoint |-> outpoint, value |-> value, script |-> script,
              keychain |-> "External", satisfaction_weight |-> weight, foreign |-> <<psbt_input>>])]>>
allow_shrinking(params, script) ==
  LET at == {i \in DOMAIN params.recipients : params.recipients[i].script = script}
  IN IF at = {} THEN <<>>
     ELSE <<[params EXCEPT !.recipients = RemoveAt(@, Min(at)), !.drain_to = <<script>>]>>
is_satisfied_by(change_policy, u) ==
  CASE change_policy = "ChangeAllowed" -> TRUE
    [] change_policy = "OnlyChange" -> u.keychain = "Internal"
    [] change_policy = "ChangeForbidden" -> u.keychain = "External"

(***************************************************************************)
(* create_tx.                                                              *)
(***************************************************************************)
\* What the policies of both keychains ask for: <<>> for an error.
KeychainRequirement(policy, path, unused) ==
  IF ~unused /\ path = <<>> /\ requires_path(policy) THEN <<>> ELSE get_condition(policy, Else(path, <<>>))
MergedRequirement(of) ==
  IF \E k \in DOMAIN of : of[k] = <<>> THEN <<>>
  ELSE IF "Internal" \in DOMAIN of THEN merge(of.External[1], of.Internal[1]) ELSE of.External
Requirements(w, params) ==
  LET path(k) == IF k = "External" THEN params.external_policy_path ELSE params.internal_policy_path
      unused(k) == params.change_policy = IF k = "External" THEN "OnlyChange" ELSE "ChangeForbidden"
  IN MergedRequirement([k \in DOMAIN w.desc |->
       KeychainRequirement(Descriptor_extract_policy(w.desc[k], w.signers, BuildNone)[1], path(k), unused(k))])
TxVersion(requirements, params) ==
  CASE params.version \in {<<0>>} -> <<>>
    [] params.version = <<1>> /\ requirements.csv # <<>> -> <<>>
    [] OTHER -> <<Else(params.version, IF requirements.csv # <<>> THEN 2 ELSE 1)>>
TxLockTime(requirements, params, current_height) ==
  LET sniping == Else(current_height, 0)
      r == requirements.timelock
  IN IF params.locktime = <<>>
       THEN <<IF r = <<>> \/ (r[1] < LOCK_TIME_THRESHOLD /\ r[1] < sniping) THEN sniping ELSE r[1]>>
     ELSE IF r = <<>> \/ (is_same_unit(r[1], params.locktime[1]) /\ params.locktime[1] >= r[1]) THEN params.locktime
     ELSE <<>>
TxSequence(requirements, params, lock_time) ==
  LET csv == requirements.csv
      rbf == params.rbf
  IN CASE rbf = <<>> -> <<Else(csv, IF lock_time # 0 THEN ENABLE_LOCKTIME_NO_RBF ELSE SEQUENCE_MAX)>>
       [] rbf # <<>> /\ rbf[1].value = <<>> -> <<Else(csv, ENABLE_RBF_NO_LOCKTIME)>>
       [] rbf # <<>> /\ rbf[1].value # <<>> ->
            IF is_rbf(rbf[1].value[1]) /\ (csv # <<>> => check_nsequence_rbf(rbf[1].value[1], csv[1]))
              THEN rbf[1].value ELSE <<>>
LocksOf(version, lock_time, n_sequence) ==
  IF version = <<>> \/ lock_time = <<>> \/ n_sequence = <<>> THEN Fail("Generic")
  ELSE [ok |-> TRUE, version |-> version[1], lock_time |-> lock_time[1], n_sequence |-> n_sequence[1]]
TxLocks(requirements, params, current_height) ==
  LET lock_time == TxLockTime(requirements, params, current_height)
  IN LocksOf(TxVersion(requirements, params), lock_time, TxSequence(requirements, params, Else(lock_time, 0)))

\* [ok, rate, fee]: a replacement pays at least the previous fee, or one satoshi per byte more.
FeeOf(params) ==
  LET f == params.fee_policy
      before == params.bumping_fee
  IN IF f.kind = "FeeAmount"
       THEN IF before # <<>> /\ f.v < before[1].absolute THEN Fail("FeeTooLow") ELSE [ok |-> TRUE, rate |-> 0, fee |-> f.v]
       ELSE IF before # <<>> /\ f.v * before[1].vbytes < 2 * (before[1].absolute + before[1].vbytes)
              THEN Fail("FeeRateTooLow") ELSE [ok |-> TRUE, rate |-> f.v, fee |-> 0]

get_available_utxos(w) == [i \in DOMAIN w.utxos |-> Weighted(w, w.utxos[i])]
SpendableNow(w, u, confirmed_only, current_height) ==
  LET tx == w.txs[u.outpoint[1]]
  IN /\ u.outpoint[1] \in DOMAIN w.txs
     /\ confirmed_only => tx.height # <<>>
     /\ tx.coinbase /\ current_height # <<>> =>
          tx.height # <<>> /\ current_height[1] - tx.height[1] >= COINBASE_MATURITY
preselect_utxos(w, params, current_height) ==
  LET manual == params.utxos
      may == SelectSeq(get_available_utxos(w), LAMBDA u :
               /\ \A i \in DOMAIN manual : manual[i].outpoint # u.outpoint
               /\ is_satisfied_by(params.change_policy, u)
               /\ u.outpoint \notin params.unspendable
               /\ SpendableNow(w, u, params.bumping_fee # <<>>, current_height))
  IN IF params.manually_selected_only THEN [required |-> manual, optional |-> <<>>]
     ELSE IF params.drain_wallet THEN [required |-> manual \o may, optional |-> <<>>]
     ELSE [required |-> manual, optional |-> may]

get_internal_script(w) == IF "Internal" \in DOMAIN w.desc THEN "int" ELSE "ext"
is_mine(w, script) == script \in DOMAIN w.mine
\* The PSBT input of one of the wallet's own outputs.
EmptyInput == [sighash |-> <<>>, witness_utxo |-> FALSE, non_witness_utxo |-> <<>>, desc |-> <<>>,
               partial_sigs |-> {}, tap_key_sig |-> FALSE, tap_script_sigs |-> {}, final |-> FALSE]
get_psbt_input(w, u, params) ==
  LET desc == w.desc[w.mine[u.script]]
      raw == u.outpoint[1] \in DOMAIN w.txs /\ w.txs[u.outpoint[1]].raw # <<>>
      only_witness == desc.context = "Segwitv0" /\ params.only_witness_utxo
  IN IF ~is_mine(w, u.script) THEN [EmptyInput EXCEPT !.sighash = params.sighash]
     ELSE [EmptyInput EXCEPT !.sighash = params.sighash, !.desc = <<desc>>,
             !.witness_utxo = raw /\ desc.context # "Legacy",
             !.non_witness_utxo = IF raw /\ desc.context # "Tap" /\ ~only_witness
                                    THEN <<[txid |-> u.outpoint[1], outputs |-> 1]>> ELSE <<>>]
get_utxo_for(i) == i.witness_utxo \/ i.non_witness_utxo # <<>>
update_psbt_with_descriptor(w, psbt) ==
  [psbt EXCEPT !.inputs = [n \in DOMAIN psbt.inputs |->
     IF get_utxo_for(psbt.inputs[n]) /\ is_mine(w, psbt.tx.input[n].script)
       THEN [psbt.inputs[n] EXCEPT !.desc = <<w.desc[w.mine[psbt.tx.input[n].script]]>>] ELSE psbt.inputs[n]]]
complete_transaction(w, tx, params) ==
  LET refused(u) == u.foreign # <<>> /\ ~u.foreign[1].taproot /\ ~params.only_witness_utxo
                    /\ u.foreign[1].non_witness_utxo = <<>>
      of(u) == IF u.foreign = <<>> THEN get_psbt_input(w, u, params)
               ELSE [EmptyInput EXCEPT !.witness_utxo = u.foreign[1].witness_utxo,
                                       !.non_witness_utxo = u.foreign[1].non_witness_utxo]
  IN IF \E n \in DOMAIN tx.input : refused(tx.input[n]) THEN Fail("Generic")
     ELSE [ok |-> TRUE,
           psbt |-> update_psbt_with_descriptor(w, [tx |-> tx, inputs |-> [n \in DOMAIN tx.input |-> of(tx.input[n])]])]

BaseFee(params, fees) ==
  fees.fee + fee_wu(fees.rate, HeaderWeight + OutputWeight * Len(params.recipients)) + fee_wu(fees.rate, 2)
\* The transaction with the coins of the selection `cs', its change and its PSBT.  Nothing depends
\* on the order sort_tx gives the inputs and the outputs, which is left out.
Assemble(w, params, locks, base, drain_script, cs) ==
  LET output == params.recipients
      excess == cs.excess
      mine(o) == IF is_mine(w, o.script) THEN o.value ELSE 0
      drain == IF excess.change THEN <<[script |-> drain_script, value |-> excess.amount]>> ELSE <<>>
      tx == [version |-> locks.version, lock_time |-> locks.lock_time, n_sequence |-> locks.n_sequence,
             input |-> cs.selected, output |-> output \o drain]
      done == complete_transaction(w, tx, params)
  IN IF ~cs.ok THEN cs
     ELSE IF output = <<>> /\ (params.drain_to = <<>> \/ (~params.drain_wallet /\ params.utxos = <<>>)) THEN Fail("NoRecipients")
     ELSE IF output = <<>> /\ ~excess.change
       THEN InsufficientFunds(excess.dust_threshold,
                              IF excess.remaining > excess.change_fee THEN excess.remaining - excess.change_fee ELSE 0)
     ELSE IF ~done.ok THEN done
     ELSE [ok |-> TRUE, psbt |-> done.psbt, received |-> SumSeq(mine, tx.output),
           sent |-> SumSeq(LAMBDA u : IF u.foreign = <<>> THEN u.value ELSE 0, cs.selected),
           fee |-> base + cs.fee_amount + IF excess.change THEN excess.fee ELSE excess.remaining]
\* The coins, the fee and the change for recipients that passed the checks; the address taken for
\* the change stays taken when this fails.
Fund(w, params, algorithm, shuffle, locks, fees, current_height) ==
  LET base == BaseFee(params, fees)
      outgoing == SumSeq(LAMBDA o : o.value, params.recipients)
      pre == preselect_utxos(w, params, current_height)
      drain_script == Else(params.drain_to, get_internal_script(w))
  IN Assemble(w, params, locks, base, drain_script,
              coin_select(w, algorithm, pre.required, pre.optional, fees.rate, outgoing + base, drain_script, shuffle))
\* The checks of create_tx, in its order.
Checked(w, params, algorithm, shuffle, current_height, locks, fees) ==
  LET dust(o) == ~params.allow_dust /\ is_dust(o.value, o.script) /\ o.script # "op_return"
  IN IF ~locks.ok THEN locks
     ELSE IF ~fees.ok THEN fees
     ELSE IF params.manually_selected_only /\ params.utxos = <<>> THEN Fail("NoUtxosSelected")
     ELSE IF \E i \in DOMAIN params.recipients : dust(params.recipients[i]) THEN Fail("OutputBelowDustLimit")
     ELSE IF params.change_policy # "ChangeAllowed" /\ "Internal" \notin DOMAIN w.desc THEN Fail("Generic")
     ELSE Fund(w, params, algorithm, shuffle, locks, fees, current_height)
create_tx(w, params, algorithm, shuffle) ==
  LET current_height == IF params.current_height # <<>> THEN params.current_height ELSE w.sync_height
      locks(requirements) == IF requirements = <<>> THEN Fail("SpendingPolicyRequired")
                             ELSE TxLocks(requirements[1], params, current_height)
  IN Checked(w, params, algorithm, shuffle, current_height, locks(Requirements(w, params)), FeeOf(params))

(***************************************************************************)
(* build_fee_bump: the parameters of the replacement.  A raw transaction   *)
(* has [input, output, n_sequence], an input being [outpoint, weight].     *)
(***************************************************************************)
get_previous_output(w, outpoint) ==
  IF outpoint[1] \in DOMAIN w.txs /\ w.txs[outpoint[1]].raw # <<>>
    THEN <<w.txs[outpoint[1]].raw[1].output[outpoint[2] + 1]>> ELSE <<>>
build_fee_bump(w, txid) ==
  LET stored == w.txs[txid]
      tx == stored.raw[1]
      change == {i \in DOMAIN tx.output : tx.output[i].script \in DOMAIN w.mine
                                          /\ w.mine[tx.output[i].script] = (IF "Internal" \in DOMAIN w.desc THEN "Internal" ELSE "External")}
      kept == IF Len(tx.output) > 1 /\ change # {} THEN RemoveAt(tx.output, Max(change)) ELSE tx.output
      of(i) == LET o == get_previous_output(w, i.outpoint)[1]
                   keychain == IF is_mine(w, o.script) THEN w.mine[o.script] ELSE "External"
               IN [outpoint |-> i.outpoint, value |-> o.value, script |-> o.script, keychain |-> keychain,
                   satisfaction_weight |-> IF is_mine(w, o.script) THEN SatisfactionWeight[keychain] ELSE i.weight,
                   foreign |-> <<>>]
      weight == HeaderWeight + OutputWeight * Len(tx.output) + SumSeq(LAMBDA i : TXIN_BASE_WEIGHT + i.weight, tx.input)
  IN IF txid \notin DOMAIN w.txs THEN Fail("TransactionNotFound")
     ELSE IF stored.raw = <<>> THEN Fail("TransactionNotFound")
     ELSE IF stored.height # <<>> THEN Fail("TransactionConfirmed")
     ELSE IF ~is_rbf(tx.n_sequence) THEN Fail("IrreplaceableTransaction")
     ELSE IF stored.fee = <<>> THEN Fail("FeeRateUnavailable")
     ELSE IF \E i \in DOMAIN tx.input : get_previous_output(w, tx.input[i].outpoint) = <<>> THEN Fail("UnknownUtxo")
     ELSE [ok |-> TRUE,
           params |-> [TxParams_default EXCEPT !.version = <<tx.version>>, !.recipients = kept,
                         !.utxos = [i \in DOMAIN tx.input |-> of(tx.input[i])],
                         !.bumping_fee = <<[absolute |-> stored.fee[1], vbytes |-> to_vbytes_ceil(weight)]>>]]

(***************************************************************************)
(* Signing.                                                                *)
(***************************************************************************)
RECURSIVE KeysOf(_)
KeysOf(script) ==
  CASE script[1] = "pk" -> {script[2]}
    [] script[1] = "multi" -> Range(script[3])
    [] script[1] = "thresh" -> UNION {KeysOf(script[3][i]) : i \in DOMAIN script[3]}
    [] script[1] \in {"and", "or", "andor"} -> UNION {KeysOf(script[i]) : i \in 2 .. Len(script)}
    [] OTHER -> {}
DescriptorKeys(d) ==
  IF d.context # "Tap" THEN KeysOf(d.script) ELSE {d.internal_key} \cup UNION {KeysOf(d.leaves[l]) : l \in DOMAIN d.leaves}
OlderOf(d) ==
  LET RECURSIVE In(_)
      In(script) ==
        CASE script[1] = "older" -> {script[2]}
          [] script[1] = "thresh" -> UNION {In(script[3][i]) : i \in DOMAIN script[3]}
          [] script[1] \in {"and", "or", "andor"} -> UNION {In(script[i]) : i \in 2 .. Len(script)}
          [] OTHER -> {}
  IN IF d.context # "Tap" THEN In(d.script) ELSE UNION {In(d.leaves[l]) : l \in DOMAIN d.leaves}
\* A private key signs an input it has not signed yet; <<>> for an error.
SignEcdsa(psbt, n, key) ==
  LET i == psbt.inputs[n]
  IN IF key \in i.partial_sigs THEN <<psbt>>
     ELSE IF ~get_utxo_for(i) THEN <<>>
     ELSE <<[psbt EXCEPT !.inputs[n].partial_sigs = @ \cup {key}]>>
SignSchnorr(psbt, n, key, options) ==
  LET i == psbt.inputs[n]
      d == i.desc[1]
      by_key == key = d.internal_key /\ ~i.tap_key_sig /\ options.sign_with_tap_internal_key
      by_leaf == {l \in DOMAIN d.leaves \cap options.tap_leaves :
                    key \in KeysOf(d.leaves[l]) /\ <<key, l>> \notin i.tap_script_sigs}
      prevouts == \A m \in DOMAIN psbt.inputs : get_utxo_for(psbt.inputs[m])
  IN IF ~by_key /\ by_leaf = {} THEN <<psbt>>
     ELSE IF ~prevouts THEN <<>>
     ELSE <<[psbt EXCEPT !.inputs[n].tap_key_sig = @ \/ by_key,
                         !.inputs[n].tap_script_sigs = @ \cup {<<key, l>> : l \in by_leaf}]>>
PrivateKey_sign_input(psbt, n, key, options) ==
  IF psbt.inputs[n].final THEN <<psbt>>
  ELSE IF psbt.inputs[n].desc[1].context = "Tap" THEN SignSchnorr(psbt, n, key, options) ELSE SignEcdsa(psbt, n, key)
\* Mutant: an input somebody signed is left alone.
Xkey_sign_inputOnce(psbt, n, key, options) ==
  LET i == psbt.inputs[n]
  IN IF i.final \/ i.desc = <<>> \/ i.partial_sigs # {} THEN <<psbt>>
     ELSE IF key \notin DescriptorKeys(i.desc[1]) THEN <<psbt>>
     ELSE PrivateKey_sign_input(psbt, n, key, options)
\* An extended key derives the key that the input's derivations name, if they name one of it.
Xkey_sign_input(psbt, n, key, options) ==
  LET i == psbt.inputs[n]
  IN IF i.final \/ i.desc = <<>> THEN <<psbt>>
     ELSE IF key \notin DescriptorKeys(i.desc[1]) THEN <<psbt>>
     ELSE PrivateKey_sign_input(psbt, n, key, options)
sign_transaction(psbt, key, options) ==
  FoldLeftDomain(LAMBDA acc, n : IF acc = <<>> THEN <<>> ELSE Xkey_sign_input(acc[1], n, key, options),
                 <<psbt>>, psbt.inputs)
\* An unconfirmed input counts as created at the highest height there is, which overflows as soon
\* as a relative lock is added to it.
finalize_psbt(w, psbt, options) ==
  LET height == IF options.assume_height # <<>> THEN options.assume_height ELSE w.sync_height
      stored(n) == LET id == psbt.tx.input[n].outpoint[1] IN IF id \in DOMAIN w.txs THEN <<w.txs[id]>> ELSE <<>>
      created(n) == IF stored(n) = <<>> THEN <<0>> ELSE stored(n)[1].height
      after == {m \in 0 .. 7 : TxAfter(psbt.tx, m) \/ (height # <<>> /\ After_check_after(height[1], m))}
      older(n) == {m \in 0 .. 15 : TxOlder(psbt.tx, m)
                                   \/ (height # <<>> /\ created(n) # <<>> /\ Older_check_older(height[1], created(n)[1], m))}
      satisfied(n) ==
        LET i == psbt.inputs[n]
            d == i.desc[1]
        IN IF d.context # "Tap" THEN Satisfied(d.script, i.partial_sigs, after, older(n))
           ELSE i.tap_key_sig \/ \E l \in DOMAIN d.leaves :
                  Satisfied(d.leaves[l], {k \in KeysOf(d.leaves[l]) : <<k, l>> \in i.tap_script_sigs}, after, older(n))
      overflows(n) ==
        /\ psbt.inputs[n].desc # <<>> /\ ~psbt.inputs[n].final /\ ~psbt.inputs[n].tap_key_sig
        /\ height # <<>> /\ created(n) = <<>>
        /\ \E m \in 1 .. 15 : m \in OlderOf(psbt.inputs[n].desc[1]) /\ ~TxOlder(psbt.tx, m)
      finished(n) == psbt.inputs[n].final \/ (psbt.inputs[n].desc # <<>> /\ satisfied(n))
  IN IF \E n \in DOMAIN psbt.inputs : overflows(n) THEN Fail("panic")
     ELSE [ok |-> TRUE, finished |-> \A n \in DOMAIN psbt.inputs : finished(n),
           psbt |-> [psbt EXCEPT !.inputs = [n \in DOMAIN @ |->
             IF @[n].final \/ ~finished(n) THEN @[n]
             ELSE [@[n] EXCEPT !.final = TRUE, !.partial_sigs = IF options.remove_partial_sigs THEN {} ELSE @]]]]
SignOptions_default ==
  [trust_witness_utxo |-> FALSE, assume_height |-> <<>>, allow_all_sighashes |-> FALSE, remove_partial_sigs |-> TRUE,
   try_finalize |-> TRUE, tap_leaves |-> 1 .. 9, sign_with_tap_internal_key |-> TRUE]
sign(w, unsigned, options) ==
  LET psbt == update_psbt_with_descriptor(w, unsigned)
      untrusted(i) == ~i.final /\ ~(i.desc # <<>> /\ i.desc[1].context = "Tap") /\ i.non_witness_utxo = <<>>
      inputs == {psbt.inputs[n] : n \in DOMAIN psbt.inputs}
      finish(signed) == IF signed = <<>> THEN Fail("Signer")
                        ELSE IF options.try_finalize THEN finalize_psbt(w, signed[1], options)
                        ELSE [ok |-> TRUE, finished |-> FALSE, psbt |-> signed[1]]
  IN IF ~options.trust_witness_utxo /\ \E i \in inputs : untrusted(i) THEN Fail("MissingNonWitnessUtxo")
     ELSE IF ~options.allow_all_sighashes /\ \E i \in inputs : i.sighash \notin {<<>>, <<"All">>, <<"Default">>}
       THEN Fail("NonStandardSighash")
     ELSE finish(FoldSet(LAMBDA key, acc : IF acc = <<>> THEN <<>> ELSE sign_transaction(acc[1], key, options),
                         <<psbt>>, w.signers))
=============================================================================
