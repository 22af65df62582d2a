---------------------------- MODULE SparkStorage ----------------------------
(***************************************************************************)
(* crates/storage: the rows about Spark transactions (traits/spark.rs,     *)
(* converters/spark.rs, traits/inventory.rs).  A transaction is known by   *)
(* its hash; what it spends, creates and names is given by constants.      *)
(*                                                                         *)
(* A row of spark_output names the transaction that spends it, so the      *)
(* inputs of a stored transaction are read back from the outputs of        *)
(* others.  When another transaction takes an output, the one that had it  *)
(* is read back with fewer inputs, and its hash is another one.            *)
(***************************************************************************)
EXTENDS Naturals, Sequences, FiniteSetsExt

CONSTANTS
  SparkHash,    \* the hashes of token transactions
  Mint,         \* those that mint
  Inputs,       \* the outputs a transfer spends: <<hash, vout>>, in order
  Outputs,      \* the outputs created: [id, owner, token, amount], in order
  OperatorsOf,  \* the operators a transaction names
  Operator,     \* all operators
  Unsigned,     \* mints without an issuer's signature
  Exit,         \* L1 transactions that withdraw outputs
  NoRow, None

(* TokenTransactionStatus, and what a row of spark_output says.            *)
SparkStatus == {"Started", "Signed", "Finalized"}
OutputRow == [spend : SparkHash \cup {None}, secret : BOOLEAN, withdraw : Exit \cup {None}]

ASSUME SparkAssumption ==
  /\ Mint \subseteq SparkHash /\ Unsigned \subseteq Mint
  /\ OperatorsOf \in [SparkHash -> SUBSET Operator]
  /\ Inputs \in [SparkHash -> Seq(SparkHash \X Nat)]
  /\ \A h \in Mint : Inputs[h] = <<>>
  /\ \A h \in SparkHash : Len(Outputs[h]) \in Nat
  /\ IsFiniteSet(Operator)
  /\ None \notin SparkHash \cup Exit
  /\ NoRow \notin SparkStatus \cup OutputRow

VARIABLES
  spark_transaction,   \* the status in the row of a transaction
  spark_output,        \* the row of an output
  operator_signature   \* the operators' signatures: <<hash, operator>>

sparkRows == <<spark_transaction, spark_output, operator_signature>>

Leaf == UNION {{<<h, v>> : v \in 0 .. Len(Outputs[h]) - 1} : h \in SparkHash}

LeavesOf(h) == {l \in Leaf : l[1] = h}

OutputOf(l) == Outputs[l[1]][l[2] + 1]

Spent(h) == Range(Inputs[h])

(* The rows when the transactions of S are all there, and final.           *)
StorageInit(S) ==
  /\ spark_transaction = [h \in SparkHash |-> IF h \in S THEN "Finalized" ELSE NoRow]
  /\ spark_output = [l \in Leaf |->
       IF l[1] \notin S THEN NoRow
       ELSE LET by == {h \in S : l \in Spent(h)}
            IN  [spend |-> IF by = {} THEN None ELSE CHOOSE h \in by : TRUE,
                 secret |-> by # {}, withdraw |-> None]]
  /\ operator_signature = UNION {{<<h, o>> : o \in OperatorsOf[h]} : h \in S}

-----------------------------------------------------------------------------
(* Queries.                                                                *)

(* get_spark_transaction_model_by_hash.                                    *)
HasRow(h) == spark_transaction[h] # NoRow

(* get_spark_tx_with_outputs: a transaction without outputs is not found.  *)
Found(h) == HasRow(h) /\ Outputs[h] # <<>>

(* The outputs that name h as the one that spends them.                    *)
SpentBy(h) == {l \in Leaf : spark_output[l] # NoRow /\ spark_output[l].spend = h}

(* create_token_transaction: the number of inputs h is read back with.     *)
InputsRead(h) == Cardinality(SpentBy(h))

(* What is read back is what was inserted, and has the same hash.          *)
Intact(h) == h \in Mint \/ InputsRead(h) = Len(Inputs[h])

(* get_spark_output_model.                                                 *)
OutputsWithId(id) == {l \in Leaf : spark_output[l] # NoRow /\ OutputOf(l).id = id}

(* get_spark_outputs_by_owner_pubkey, of one token.                        *)
OutputsOfOwner(owner, token) ==
  {l \in Leaf : /\ spark_output[l] # NoRow
                /\ OutputOf(l).owner = owner /\ OutputOf(l).token = token}

(* get_spark_signatures: every row of operator_signature once, whatever    *)
(* the number of users' signatures they are paired with.                   *)
Signers(h) == {o \in Operator : <<h, o>> \in operator_signature}

(* get_revocation_secret_keys.                                             *)
SecretsOf(h) == {l \in SpentBy(h) : spark_output[l].secret}

(* get_issue_leaves_by_token_pubkey, summed.                               *)
MintedSupply(token) ==
  MapThenSumSet(LAMBDA l : OutputOf(l).amount,
                {l \in Leaf : /\ spark_output[l] # NoRow /\ l[1] \in Mint
                              /\ OutputOf(l).token = token})

(* get_token_transaction_status: Started when there is no row.             *)
get_token_transaction_status(h) == IF HasRow(h) THEN spark_transaction[h] ELSE "Started"

-----------------------------------------------------------------------------
(* Updates.                                                                *)

(* insert_spark_transaction is one database transaction.  It fails when an *)
(* output has the id of another, when the outputs it spends are not there, *)
(* and for a mint without the issuer's signature.                          *)
Insertable(h) ==
  /\ \A l \in LeavesOf(h) : OutputsWithId(OutputOf(l).id) = {}
  /\ \A l, k \in LeavesOf(h) : OutputOf(l).id = OutputOf(k).id => l = k
  /\ \A l \in Spent(h) : l \in Leaf /\ spark_output[l] # NoRow
  /\ h \notin Unsigned

(* insert_spent_output takes the output from whoever had it.               *)
Inserted(outputs, h) ==
  [l \in Leaf |->
     IF l[1] = h THEN [spend |-> None, secret |-> FALSE, withdraw |-> None]
     ELSE IF l \in Spent(h) /\ outputs[l] # NoRow THEN [outputs[l] EXCEPT !.spend = h]
     ELSE outputs[l]]

insert_spark_transaction(h) ==
  /\ spark_transaction' = [spark_transaction EXCEPT ![h] = "Started"]
  /\ spark_output' = Inserted(spark_output, h)

set_revocation_secret_keys(leaves) ==
  spark_output' = [l \in Leaf |-> IF l \in leaves /\ spark_output[l] # NoRow
                                  THEN [spark_output[l] EXCEPT !.secret = TRUE]
                                  ELSE spark_output[l]]

insert_signature_data(h, o) ==
  operator_signature' = operator_signature \cup {<<h, o>>}

mark_spark_output_as_withdrawn(leaves, exit) ==
  spark_output' = [l \in Leaf |-> IF l \in leaves
                                  THEN [spark_output[l] EXCEPT !.withdraw = exit]
                                  ELSE spark_output[l]]

-----------------------------------------------------------------------------
(* Pages.                                                                  *)

(* get_token_transactions_by_page: the rows after the token, by hash, and  *)
(* no more than a page.  `order` lists the hashes in their order.          *)
RowsAfter(order, token) ==
  LET place(h) == CHOOSE i \in 1 .. Len(order) : order[i] = h
  IN  SelectSeq(order, LAMBDA h : HasRow(h) /\ (token = None \/ place(token) < place(h)))

get_token_transactions_by_page(order, token, size) ==
  LET rows == RowsAfter(order, token)
  IN  SelectSeq(SubSeq(rows, 1, Min({size, Len(rows)})), LAMBDA h : Outputs[h] # <<>>)

(* get_withdrawn_leaves_by_page, the first page.  No output is read back   *)
(* with the height of its withdrawal, so none passes a filter by height.   *)
get_withdrawn_leaves(height) ==
  IF height # None THEN {}
  ELSE {l \in Leaf : spark_output[l] # NoRow /\ spark_output[l].withdraw # None}

(* get_token_txs_inventory: the newest rows first, no more than inv_size.  *)
(* `created` lists the hashes by the time of their insertion.              *)
get_token_txs_inventory(created, inv_size) ==
  LET newest == [i \in DOMAIN created |-> created[Len(created) + 1 - i]]
  IN  SubSeq(newest, 1, Min({inv_size, Len(newest)}))

=============================================================================
