------------------------------ MODULE SparkRpc ------------------------------
(***************************************************************************)
(* crates/rpc-server/src/spark: the requests that only read.  The          *)
(* requests that have an effect are actions of SparkFlow.                  *)
(***************************************************************************)
EXTENDS SparkChecker

CONSTANTS
  enforce_announcement,  \* mints and freezes ask for the announcement
  MaxSupply,             \* max_supply.to_be() of an announced token; 0: no limit
  Freezable,             \* tokens that their announcement lets freeze
  HashOrder              \* the hashes in their order

ASSUME SparkRpcAssumption ==
  /\ enforce_announcement \in BOOLEAN
  /\ MaxSupply \in [Announced -> Nat]
  /\ Range(HashOrder) = SparkHash /\ Len(HashOrder) = Cardinality(SparkHash)

-----------------------------------------------------------------------------
(* send_spark_signature and verify_spark_tx look at the supply of a mint's *)
(* token.  All the outputs of the mint count, and the sum saturates.       *)
AddedSupply(h) ==
  Min({MaxAmount, FoldFunction(LAMBDA o, n : n + o.amount, 0, Outputs[h])})

SupplyLeft(h) ==
  (enforce_announcement /\ h \in Mint /\ Outputs[h] # <<>>) =>
    LET token == Outputs[h][1].token
    IN  /\ token \in Announced
        /\ MaxSupply[token] > 0 =>
             Min({MaxAmount, MintedSupply(token) + AddedSupply(h)}) <= MaxSupply[token]

(* freeze_tokens.                                                          *)
MayFreeze(token) == enforce_announcement => token \in Announced \cap Freezable

-----------------------------------------------------------------------------
(* verify_spark_tx: SparkTxEmulator.                                       *)

EmulatedStatus(h) ==
  check_spark_tx_finalization(InputsRead(h), Cardinality(Signers(h)), Cardinality(SecretsOf(h)))

(* Faulty: the parents need not be known.                                  *)
emulate_without_parents(h) ==
  /\ \A i, j \in 1 .. Len(Inputs[h]) : Inputs[h][i] = Inputs[h][j] => i = j
  /\ check_spark_conservation_rules(
       [i \in 1 .. Len(Inputs[h]) |-> OutputOf(Inputs[h][i])], Outputs[h])

(* SparkTxEmulator::check_spark_transfer.  That an output is spent is      *)
(* logged only.                                                            *)
emulate_spark_transfer(h) ==
  /\ \A i, j \in 1 .. Len(Inputs[h]) : Inputs[h][i] = Inputs[h][j] => i = j
  /\ \A l \in Spent(h) : Found(l[1]) /\ l \in Leaf /\ EmulatedStatus(l[1]) = "Finalized"
  /\ check_spark_conservation_rules(
       [i \in 1 .. Len(Inputs[h]) |-> OutputOf(Inputs[h][i])], Outputs[h])

(* check_created_leaves.                                                   *)
check_created_leaves(h, existing) ==
  /\ \A i, j \in 1 .. Len(Outputs[h]) : Outputs[h][i].id = Outputs[h][j].id => i = j
  /\ existing => \A l \in LeavesOf(h) : OutputsWithId(OutputOf(l).id) = {}

(* A stored transfer that is not finalized may be verified again, as long  *)
(* as it is read back with all its inputs.                                 *)
emulate_spark_tx(h) ==
  /\ h \notin Mint => emulate_spark_transfer(h)
  /\ (Found(h) /\ h \notin Mint) => InputsRead(h) = Len(Inputs[h])
  /\ check_created_leaves(h, ~Found(h) \/ h \in Mint \/ spark_transaction[h] = "Finalized")

verify_spark_tx(h) == SupplyLeft(h) /\ emulate_spark_tx(h)

-----------------------------------------------------------------------------
(* list_transactions and list_spark_txs: a page, and the cursor for the    *)
(* next one, which is the element after the page.                          *)
ListPage(token, size) ==
  LET stored == get_token_transactions_by_page(HashOrder, token, size)
  IN  [txs |-> SubSeq(stored, 1, Min({size, Len(stored)})),
       next |-> IF Len(stored) > size THEN stored[size + 1] ELSE None]

(* list_transactions fails when a parent of a transaction on the page is   *)
(* not found.                                                              *)
ListFails(page) == \E h \in Range(page.txs) : \E l \in SpentBy(h) : ~Found(l[1])

=============================================================================
