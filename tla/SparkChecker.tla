---------------------------- MODULE SparkChecker ----------------------------
(***************************************************************************)
(* crates/tx-check/src/service.rs, for Spark: what the checks conclude     *)
(* from the storage, and spark_queue, where an exit or a transfer waits    *)
(* for the transaction whose output it takes.  One child waits per parent: *)
(* the next one replaces it.                                               *)
(***************************************************************************)
EXTENDS SparkStorage

CONSTANTS
  SPARK_THRESHOLD,        \* operators that must sign
  MaxAmount,              \* the largest u128
  validate_announcement,  \* mints of unannounced tokens are refused
  Announced,              \* tokens with an announcement
  ForgedMints,            \* mints that the issuer of their token did not sign
  ExitLeaves              \* what an exit withdraws: [tx, id], by output

ASSUME SparkCheckerAssumption ==
  /\ SPARK_THRESHOLD \in Nat \ {0} /\ MaxAmount \in Nat
  /\ validate_announcement \in BOOLEAN
  /\ ForgedMints \subseteq Mint

VARIABLE spark_queue   \* the child that waits for a transaction, or None

(* SparkChild.                                                             *)
TokenTx(h) == [kind |-> "TokenTx", tx |-> h]
ExitTx(e)  == [kind |-> "ExitTx", tx |-> e]

-----------------------------------------------------------------------------
(* check_spark_txs, over a batch.  The outputs spent and the ids created   *)
(* by the batch so far are remembered, those of invalid members included.  *)

NoneChecked ==
  [checked |-> {}, invalid |-> {}, spent |-> {}, ids |-> {}, queue |-> spark_queue,
   missing |-> {}]

(* The first position of a sequence at which P holds, or one past its end. *)
FirstWhere(s, P(_)) == Min({i \in 1 .. Len(s) : P(i)} \cup {Len(s) + 1})

KnownParent(b, p) == Found(p) \/ p \in b.checked

(* The loop over the inputs ends at the first one refused.                 *)
RefusedInput(b, h) ==
  FirstWhere(Inputs[h], LAMBDA i :
    LET l == Inputs[h][i]
    IN  \/ l \in b.spent \/ \E j \in 1 .. i - 1 : Inputs[h][j] = l
        \/ ~KnownParent(b, l[1])
        \/ OperatorsOf[l[1]] # OperatorsOf[h]
        \/ l \notin Leaf)

(* The id of an output is new, or that of the same output as stored.       *)
IdTaken(b, h, i) ==
  LET id == Outputs[h][i].id
  IN  \/ id \in b.ids \/ \E j \in 1 .. i - 1 : Outputs[h][j].id = id
      \/ \E l \in OutputsWithId(id) : l[1] # h

(* check_spark_issue asks for the announcement of the token, too.          *)
Mintable(h, i) == validate_announcement => Outputs[h][i].token \in Announced

RefusedOutput(b, h) ==
  FirstWhere(Outputs[h], LAMBDA i : IdTaken(b, h, i) \/ (h \in Mint /\ ~Mintable(h, i)))

(* sum_amount_by_token_pubkey: None when a sum overflows.                  *)
SumByToken(outputs) ==
  LET tokens   == {o.token : o \in Range(outputs)}
      total(t) == FoldFunction(LAMBDA o, n : IF o.token = t THEN n + o.amount ELSE n, 0, outputs)
  IN  IF \E t \in tokens : total(t) > MaxAmount THEN None
      ELSE [t \in tokens |-> total(t)]

check_spark_conservation_rules(inputs, outputs) == SumByToken(inputs) = SumByToken(outputs)

(* check_spark_transaction: a mint has no inputs to refuse and nothing to  *)
(* conserve.  A transfer with an unknown parent waits for it.              *)
check_spark_transaction(b, h) ==
  LET in     == RefusedInput(b, h)
      out    == RefusedOutput(b, h)
      inOk   == in > Len(Inputs[h]) /\ h \notin ForgedMints
      outOk  == out > Len(Outputs[h])
      valid  == /\ inOk /\ outOk
                /\ h \in Mint \/ check_spark_conservation_rules(
                                   [i \in 1 .. Len(Inputs[h]) |-> OutputOf(Inputs[h][i])],
                                   Outputs[h])
      orphan == /\ in <= Len(Inputs[h]) /\ Inputs[h][in] \notin b.spent
                /\ ~KnownParent(b, Inputs[h][in][1])
  IN  [checked |-> IF valid THEN b.checked \cup {h} ELSE b.checked,
       invalid |-> IF valid THEN b.invalid ELSE b.invalid \cup {h},
       spent   |-> b.spent \cup {Inputs[h][i] : i \in 1 .. in - 1},
       ids     |-> IF inOk THEN b.ids \cup {Outputs[h][i].id : i \in 1 .. out - 1} ELSE b.ids,
       queue   |-> IF orphan THEN [b.queue EXCEPT ![Inputs[h][in][1]] = TokenTx(h)]
                   ELSE b.queue,
       missing |-> IF orphan THEN b.missing \cup {Inputs[h][in][1]} ELSE b.missing]

(* What is known after the first n of the batch.                           *)
CheckBatch(txs) ==
  LET after[n \in 0 .. Len(txs)] ==
        IF n = 0 THEN NoneChecked ELSE check_spark_transaction(after[n - 1], txs[n])
  IN  after[Len(txs)]

-----------------------------------------------------------------------------
(* Signatures.                                                             *)

(* check_spark_signature_data.  The message that was signed is the hash of *)
(* the transaction as it is read back.                                     *)
check_spark_signature_data(sig) ==
  /\ Found(sig.tx)
  /\ sig.op \in OperatorsOf[sig.tx]
  /\ Intact(sig.tx)

(* The outputs whose secrets a signature reveals.                          *)
Revealed(sig) == IF sig.secrets THEN Spent(sig.tx) ELSE {}

(* A transaction read back without inputs is taken for a mint.             *)
check_spark_tx_finalization(inputs, signers, secrets) ==
  IF signers < SPARK_THRESHOLD THEN "Started"
  ELSE IF secrets >= inputs THEN "Finalized" ELSE "Signed"

-----------------------------------------------------------------------------
(* check_spark_exit, for one proof of an exit.                             *)

(* The outputs that the proof names.                                       *)
ExitLeaf(proof) == {l \in LeavesOf(proof.tx) : OutputOf(l).id = proof.id}

(* The exit has to wait for the transaction.                               *)
ExitWaits(proof) ==
  ~Found(proof.tx) \/ get_token_transaction_status(proof.tx) # "Finalized"

Withdrawable(proof) ==
  ExitLeaf(proof) # {} /\ \A l \in ExitLeaf(proof) : spark_output[l].withdraw = None

(* handle_child_spark_transactions: the children whose parents are given.  *)
ChildrenOf(queue, parents) ==
  {queue[p] : p \in {q \in SparkHash : q \in parents /\ queue[q] # None}}

WithoutChildrenOf(queue, parents) ==
  [p \in SparkHash |-> IF p \in parents THEN None ELSE queue[p]]

=============================================================================
