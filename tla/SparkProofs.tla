---------------------------- MODULE SparkProofs ----------------------------
(***************************************************************************)
(* What a final Spark transaction can be relied on for, and what callers   *)
(* and waiting transactions can, for any transactions, operators, exits    *)
(* and messages in the channels.                                           *)
(*                                                                         *)
(* The status of a transaction is computed by the checker from reads at    *)
(* several moments, while the controller inserts others that may take its  *)
(* inputs.  SparkInv says what the rows have to do with each other, and    *)
(* what the checker knows between ReadBack and SetStatus.                  *)
(*                                                                         *)
(* WaitInv is about what waits: what a stored transfer spends is stored,   *)
(* so that only exits are queued, and none of them for a transaction that  *)
(* is final.  CallsInv: an operator that waits for an answer is named by   *)
(* the message or the job that will give it.  Both rest on what CheckBatch *)
(* does with a batch of any length.  It is a recursive function on         *)
(* positions, and what it keeps is shown at the first position at which it *)
(* would fail.                                                             *)
(***************************************************************************)
EXTENDS SparkFlow, FiniteSetTheorems, NaturalsInduction, WellFoundedInduction, TLAPS

(* Unless a leaf names another prover, Zenon is the one that checks it.     *)
USE Zenon

(* The rows have their types, and the outputs of a transaction are there   *)
(* when it is.  An output is spent by a transaction that spends it.        *)
RowsFit ==
  /\ spark_transaction \in [SparkHash -> SparkStatus \cup {NoRow}]
  /\ spark_output \in [Leaf -> OutputRow \cup {NoRow}]
  /\ \A l \in Leaf : spark_output[l] # NoRow <=> HasRow(l[1])
  /\ \A l \in Leaf : spark_output[l] # NoRow /\ spark_output[l].spend # None
                       => l \in Spent(spark_output[l].spend)

(* Enough operators have signed h.                                         *)
SignedEnough(h) == Cardinality(Signers(h)) >= SPARK_THRESHOLD

(* The secrets of all that h spends are known.                             *)
Revoked(h) == \A l \in Spent(h) : l \in Leaf /\ spark_output[l] # NoRow /\ spark_output[l].secret

(* The status of a row is earned, and so is a withdrawal.                  *)
StatusEarned ==
  /\ \A h \in SparkHash : /\ spark_transaction[h] \in {"Signed", "Finalized"} => SignedEnough(h)
                          /\ spark_transaction[h] = "Finalized" => Revoked(h)
  /\ \A l \in Leaf : spark_output[l] # NoRow /\ spark_output[l].withdraw # None
                       => SignedEnough(l[1]) /\ Revoked(l[1])

SigFields == {"stage", "rest", "sigs", "from", "finalized", "inputs", "same"}
ExitFields == {"stage", "exit", "rest", "later"}

(* What the checker has read back of the transaction whose status it is    *)
(* about to set.                                                           *)
JobFits ==
  /\ job.stage \in {"store", "read", "status"} =>
       /\ job = [x \in DOMAIN job |-> job[x]] /\ DOMAIN job = SigFields
  /\ job.stage = "exit" =>
       /\ job = [x \in DOMAIN job |-> job[x]] /\ DOMAIN job = ExitFields
  /\ job.stage = "status" =>
       LET h == Head(job.rest).tx
       IN  /\ h \in SparkHash => HasRow(h)
           /\ job.same /\ h \in SparkHash => job.inputs = Len(Inputs[h])

SparkInv == RowsFit /\ StatusEarned /\ JobFits

-----------------------------------------------------------------------------
(* The operators of the storage.                                           *)

(* A transaction has no more inputs than places for them.                  *)
LEMMA SpentFinite ==
  ASSUME NEW h \in SparkHash
  PROVE  IsFiniteSet(Spent(h)) /\ Cardinality(Spent(h)) <= Len(Inputs[h])
<1> DEFINE s == Inputs[h]
           n == Len(s)
<1>1. s \in Seq(SparkHash \X Nat) /\ n \in Nat /\ DOMAIN s = 1 .. n
  BY SMT, SparkAssumption
<1>2. Spent(h) = {s[i] : i \in 1 .. n}
  BY <1>1 DEF Spent, Range
<1>3. [i \in 1 .. n |-> s[i]] \in Surjection(1 .. n, Spent(h))
  BY <1>2 DEF Surjection
<1>4. ExistsSurjection(1 .. n, Spent(h))
  BY <1>3 DEF ExistsSurjection
<1>5. IsFiniteSet(1 .. n)
  BY SMT, <1>1, FS_Interval
<1>6. IsFiniteSet(Spent(h))
  BY <1>3, <1>5, FS_Surjection
<1>7. Cardinality(Spent(h)) <= n
  BY <1>1, <1>4, FS_SurjCardinalityBound
<1> QED BY <1>6, <1>7

(* What is read back as spent by h is spent by h, and when as many secrets *)
(* are known as h has inputs, then those of all of them are.               *)
LEMMA ReadBackFits ==
  ASSUME RowsFit, NEW h \in SparkHash
  PROVE  /\ SpentBy(h) \subseteq Spent(h)
         /\ InputsRead(h) \in Nat
         /\ Cardinality(SecretsOf(h)) \in Nat
         /\ h \in Mint => InputsRead(h) = 0
         /\ Cardinality(SecretsOf(h)) >= Len(Inputs[h]) => Revoked(h)
         /\ Revoked(h) => SecretsOf(h) = SpentBy(h)
<1>1. h # None
  BY SparkAssumption
<1>2. SpentBy(h) \subseteq Spent(h)
  BY <1>1 DEF RowsFit, SpentBy
<1>3. IsFiniteSet(Spent(h)) /\ Cardinality(Spent(h)) <= Len(Inputs[h])
  BY SpentFinite
<1>4. SecretsOf(h) \subseteq SpentBy(h)
  BY DEF SecretsOf
<1>5. IsFiniteSet(SpentBy(h)) /\ InputsRead(h) \in Nat
  BY <1>2, <1>3, FS_Subset, FS_CardinalityType DEF InputsRead
<1>6. SecretsOf(h) \in SUBSET Spent(h)
  BY <1>2, <1>4
<1>7. /\ IsFiniteSet(SecretsOf(h))
      /\ Cardinality(SecretsOf(h)) <= Cardinality(Spent(h))
      /\ Cardinality(Spent(h)) = Cardinality(SecretsOf(h)) => Spent(h) = SecretsOf(h)
  BY <1>3, <1>6, FS_Subset
<1>8. Cardinality(SecretsOf(h)) \in Nat /\ Cardinality(Spent(h)) \in Nat
  BY <1>3, <1>7, FS_CardinalityType
<1>9. Len(Inputs[h]) \in Nat
  BY SMT, SparkAssumption
<1>10. ASSUME h \in Mint PROVE InputsRead(h) = 0
  <2>1. Spent(h) = {}
    BY SMT, <1>10, SparkAssumption DEF Spent, Range
  <2> QED BY <2>1, <1>2, FS_EmptySet DEF InputsRead
<1>11. ASSUME Cardinality(SecretsOf(h)) >= Len(Inputs[h]) PROVE Revoked(h)
  <2>1. Cardinality(SecretsOf(h)) = Cardinality(Spent(h))
    BY SMT, <1>3, <1>7, <1>8, <1>9, <1>11
  <2>2. Spent(h) = SecretsOf(h)
    BY <2>1, <1>7
  <2> QED BY <2>2 DEF Revoked, SecretsOf, SpentBy
<1>12. ASSUME Revoked(h) PROVE SecretsOf(h) = SpentBy(h)
  BY <1>2, <1>12 DEF Revoked, SecretsOf
<1> QED BY <1>2, <1>5, <1>8, <1>10, <1>11, <1>12

(* The operators who have signed can be counted.                           *)
LEMMA SignersFinite ==
  ASSUME NEW h
  PROVE  IsFiniteSet(Signers(h)) /\ Cardinality(Signers(h)) \in Nat
<1>1. Signers(h) \in SUBSET Operator
  BY DEF Signers
<1> QED BY <1>1, SparkAssumption, FS_Subset, FS_CardinalityType

(* No signature is lost while none is deleted.                             *)
LEMMA SignersGrow ==
  ASSUME operator_signature \subseteq operator_signature', NEW h, SignedEnough(h)
  PROVE  SignedEnough(h)'
<1>1. Signers(h) \subseteq Signers(h)' /\ Signers(h)' \in SUBSET Operator
  BY DEF Signers
<1>2. IsFiniteSet(Signers(h)') /\ Cardinality(Signers(h)') \in Nat
  BY <1>1, SparkAssumption, FS_Subset, FS_CardinalityType
<1>3. Cardinality(Signers(h)) <= Cardinality(Signers(h)')
  BY <1>1, <1>2, FS_Subset
<1>4. Cardinality(Signers(h)) \in Nat
  BY SignersFinite
<1> QED BY SMT, <1>2, <1>3, <1>4, SparkCheckerAssumption DEF SignedEnough

(* No output loses its row or its secret.                                  *)
RowsGrow ==
  \A l \in Leaf : spark_output[l] # NoRow =>
    /\ spark_output'[l] # NoRow
    /\ spark_output[l].secret => spark_output'[l].secret

(* What is revoked stays revoked.                                          *)
LEMMA RevokedGrow ==
  ASSUME RowsGrow, NEW h, Revoked(h)
  PROVE  Revoked(h)'
BY DEF RowsGrow, Revoked

-----------------------------------------------------------------------------
(* The steps.                                                              *)

(* A step that leaves the rows alone has to mind the job of the checker.   *)
LEMMA RowsRest ==
  ASSUME SparkInv, UNCHANGED sparkRows, JobFits'
  PROVE  SparkInv'
<1>1. RowsFit'
  BY DEF SparkInv, RowsFit, sparkRows, HasRow
<1>2. ASSUME NEW h PROVE /\ SignedEnough(h)' = SignedEnough(h)
                         /\ Revoked(h)' = Revoked(h)
  BY DEF sparkRows, SignedEnough, Signers, Revoked
<1>3. StatusEarned'
  BY <1>2 DEF SparkInv, StatusEarned, sparkRows
<1> QED BY <1>1, <1>3 DEF SparkInv

(* What the checker has read back of a row is still so while nobody else   *)
(* writes the statuses.                                                    *)
LEMMA JobRests ==
  ASSUME SparkInv, UNCHANGED <<spark_transaction, job>>
  PROVE  JobFits'
BY DEF SparkInv, JobFits, HasRow

(* Between two messages the checker has read nothing back.                 *)
LEMMA IdleFits ==
  ASSUME job' = NoJob
  PROVE  JobFits'
BY DEF JobFits, NoJob

(* While it checks exits the checker has read no transaction back.         *)
LEMMA ExitJobFits ==
  ASSUME NEW ex, job' = ExitJob(ex)
  PROVE  JobFits'
BY DEF JobFits, ExitJob, NoJob, ExitFields

(* insert_spark_transaction takes outputs from others, and no secret.      *)
LEMMA InsertKeeps ==
  ASSUME SparkInv, NEW h \in SparkHash, ~HasRow(h), insert_spark_transaction(h),
         UNCHANGED <<operator_signature, job>>
  PROVE  SparkInv'
<1> USE DEF SparkInv
<1>0. NoRow \notin SparkStatus /\ NoRow \notin OutputRow /\ None \notin SparkHash
  BY SparkAssumption
<1> DEFINE fresh == [spend |-> None, secret |-> FALSE, withdraw |-> None]
<1>1. fresh \in OutputRow /\ fresh # NoRow /\ fresh.spend = None /\ fresh.withdraw = None
  <2>1. fresh \in OutputRow
    BY DEF OutputRow
  <2> QED BY <2>1, <1>0
<1>2. \A x \in SparkHash : spark_transaction'[x] = IF x = h THEN "Started" ELSE spark_transaction[x]
  BY DEF insert_spark_transaction, RowsFit
<1>3. \A l \in Leaf : l[1] = h => spark_output[l] = NoRow /\ spark_output'[l] = fresh
  BY DEF insert_spark_transaction, Inserted, RowsFit
<1>4. ASSUME NEW l \in Leaf, l[1] # h, spark_output[l] # NoRow
      PROVE  /\ spark_output'[l] \in OutputRow /\ spark_output'[l] # NoRow
             /\ spark_output'[l].secret = spark_output[l].secret
             /\ spark_output'[l].withdraw = spark_output[l].withdraw
             /\ \/ spark_output'[l].spend = spark_output[l].spend
                \/ spark_output'[l].spend = h /\ l \in Spent(h)
  <2>1. spark_output[l] \in OutputRow
    BY <1>4 DEF RowsFit
  <2>2. spark_output'[l] = IF l \in Spent(h) THEN [spark_output[l] EXCEPT !.spend = h]
                           ELSE spark_output[l]
    BY <1>4 DEF insert_spark_transaction, Inserted
  <2> QED BY <2>1, <2>2, <1>0 DEF OutputRow
<1>5. ASSUME NEW l \in Leaf, l[1] # h, spark_output[l] = NoRow
      PROVE  spark_output'[l] = NoRow
  BY <1>5 DEF insert_spark_transaction, Inserted
<1>6. RowsFit'
  <2>1. spark_transaction' \in [SparkHash -> SparkStatus \cup {NoRow}]
    BY DEF insert_spark_transaction, RowsFit, SparkStatus
  <2>2. spark_output' = [l \in Leaf |-> spark_output'[l]]
    BY DEF insert_spark_transaction, Inserted
  <2>3. \A l \in Leaf : spark_output'[l] \in OutputRow \cup {NoRow}
    BY <1>1, <1>3, <1>4, <1>5
  <2>4. spark_output' \in [Leaf -> OutputRow \cup {NoRow}]
    BY <2>2, <2>3
  <2>5. \A l \in Leaf : l[1] \in SparkHash
    BY SMT DEF Leaf
  <2>6. \A l \in Leaf : spark_output'[l] # NoRow <=> spark_transaction'[l[1]] # NoRow
    BY ZenonT(30), <1>0, <1>1, <1>2, <1>3, <1>4, <1>5, <2>5 DEF RowsFit, HasRow, SparkStatus
  <2>7. \A l \in Leaf : spark_output'[l] # NoRow /\ spark_output'[l].spend # None
                          => l \in Spent(spark_output'[l].spend)
    BY <1>1, <1>3, <1>4, <1>5 DEF RowsFit
  <2> QED BY <2>1, <2>4, <2>6, <2>7 DEF RowsFit, HasRow
<1>7. RowsGrow
  BY <1>3, <1>4 DEF RowsGrow
<1>8. ASSUME NEW x, SignedEnough(x) PROVE SignedEnough(x)'
  BY <1>8, SignersGrow
<1>9. ASSUME NEW x, Revoked(x) PROVE Revoked(x)'
  BY <1>9, <1>7, RevokedGrow
<1>10. StatusEarned'
  <2>1. \A x \in SparkHash :
          /\ spark_transaction'[x] \in {"Signed", "Finalized"} => SignedEnough(x)'
          /\ spark_transaction'[x] = "Finalized" => Revoked(x)'
    BY <1>2, <1>8, <1>9 DEF StatusEarned
  <2>2. \A l \in Leaf : spark_output'[l] # NoRow /\ spark_output'[l].withdraw # None
                          => SignedEnough(l[1])' /\ Revoked(l[1])'
    BY <1>1, <1>3, <1>4, <1>5, <1>8, <1>9 DEF StatusEarned
  <2> QED BY <2>1, <2>2 DEF StatusEarned
<1>11. JobFits'
  <2>1. \A x \in SparkHash : HasRow(x) => HasRow(x)'
    BY <1>0, <1>2 DEF HasRow, SparkStatus
  <2> QED BY <2>1 DEF JobFits
<1> QED BY <1>6, <1>10, <1>11

(* StoreSignature, when the signature is valid.                            *)
LEMMA SignatureKeeps ==
  ASSUME SparkInv, NEW sig, insert_signature_data(sig.tx, sig.op),
         set_revocation_secret_keys(Revealed(sig)), UNCHANGED spark_transaction, JobFits'
  PROVE  SparkInv'
<1> USE DEF SparkInv
<1>0. NoRow \notin OutputRow
  BY SparkAssumption
<1>1. ASSUME NEW l \in Leaf, spark_output[l] # NoRow
      PROVE  /\ spark_output'[l] \in OutputRow /\ spark_output'[l] # NoRow
             /\ spark_output[l].secret => spark_output'[l].secret
             /\ spark_output'[l].withdraw = spark_output[l].withdraw
             /\ spark_output'[l].spend = spark_output[l].spend
  <2>1. spark_output[l] \in OutputRow
    BY <1>1 DEF RowsFit
  <2>2. spark_output'[l] = IF l \in Revealed(sig) THEN [spark_output[l] EXCEPT !.secret = TRUE]
                           ELSE spark_output[l]
    BY <1>1 DEF set_revocation_secret_keys
  <2> QED BY <2>1, <2>2, <1>0 DEF OutputRow
<1>2. ASSUME NEW l \in Leaf, spark_output[l] = NoRow
      PROVE  spark_output'[l] = NoRow
  BY <1>2 DEF set_revocation_secret_keys
<1>3. spark_output' \in [Leaf -> OutputRow \cup {NoRow}]
  <2>1. spark_output' = [l \in Leaf |-> spark_output'[l]]
    BY DEF set_revocation_secret_keys
  <2> QED BY <2>1, <1>1, <1>2
<1>4. RowsFit'
  BY <1>1, <1>2, <1>3 DEF RowsFit, HasRow
<1>5. RowsGrow
  BY <1>1 DEF RowsGrow
<1>6. operator_signature \subseteq operator_signature'
  BY DEF insert_signature_data
<1>7. ASSUME NEW x, SignedEnough(x) PROVE SignedEnough(x)'
  BY <1>6, <1>7, SignersGrow
<1>8. ASSUME NEW x, Revoked(x) PROVE Revoked(x)'
  BY <1>5, <1>8, RevokedGrow
<1>9. StatusEarned'
  BY <1>1, <1>2, <1>7, <1>8 DEF StatusEarned
<1> QED BY <1>4, <1>9

(* check_spark_exit marks outputs of a transaction that is final.          *)
LEMMA MarkKeeps ==
  ASSUME SparkInv, NEW e \in Exit, NEW proof, ~ExitWaits(proof),
         mark_spark_output_as_withdrawn(ExitLeaf(proof), e),
         UNCHANGED <<spark_transaction, operator_signature>>, JobFits'
  PROVE  SparkInv'
<1> USE DEF SparkInv
<1>0. NoRow \notin OutputRow
  BY SparkAssumption
<1>1. HasRow(proof.tx) /\ spark_transaction[proof.tx] = "Finalized"
  BY DEF ExitWaits, Found, get_token_transaction_status
<1>2. \A l \in ExitLeaf(proof) : l \in Leaf /\ l[1] = proof.tx /\ l[1] \in SparkHash
  BY SMT DEF ExitLeaf, LeavesOf, Leaf
<1>3. \A l \in ExitLeaf(proof) : /\ spark_output[l] # NoRow
                                 /\ SignedEnough(l[1]) /\ Revoked(l[1])
  BY <1>1, <1>2 DEF RowsFit, StatusEarned
<1>4. ASSUME NEW l \in Leaf, spark_output[l] # NoRow
      PROVE  /\ spark_output'[l] \in OutputRow /\ spark_output'[l] # NoRow
             /\ spark_output'[l].secret = spark_output[l].secret
             /\ spark_output'[l].spend = spark_output[l].spend
             /\ l \notin ExitLeaf(proof) => spark_output'[l].withdraw = spark_output[l].withdraw
  <2>1. spark_output[l] \in OutputRow
    BY <1>4 DEF RowsFit
  <2>2. spark_output'[l] = IF l \in ExitLeaf(proof) THEN [spark_output[l] EXCEPT !.withdraw = e]
                           ELSE spark_output[l]
    BY <1>4 DEF mark_spark_output_as_withdrawn
  <2> QED BY <2>1, <2>2, <1>0 DEF OutputRow
<1>5. ASSUME NEW l \in Leaf, spark_output[l] = NoRow
      PROVE  spark_output'[l] = NoRow
  BY <1>3, <1>5 DEF mark_spark_output_as_withdrawn
<1>6. spark_output' \in [Leaf -> OutputRow \cup {NoRow}]
  <2>1. spark_output' = [l \in Leaf |-> spark_output'[l]]
    BY DEF mark_spark_output_as_withdrawn
  <2> QED BY <2>1, <1>4, <1>5
<1>7. RowsFit'
  BY <1>4, <1>5, <1>6 DEF RowsFit, HasRow
<1>8. RowsGrow
  BY <1>4 DEF RowsGrow
<1>9. ASSUME NEW x, SignedEnough(x) PROVE SignedEnough(x)'
  BY <1>9, SignersGrow
<1>10. ASSUME NEW x, Revoked(x) PROVE Revoked(x)'
  BY <1>8, <1>10, RevokedGrow
<1>11. StatusEarned'
  BY <1>3, <1>4, <1>5, <1>9, <1>10 DEF StatusEarned
<1> QED BY <1>7, <1>11

(* The status that check_spark_tx_finalization gives.                      *)
LEMMA StatusGiven ==
  ASSUME NEW inputs, NEW signers \in Nat, NEW secrets
  PROVE  LET st == check_spark_tx_finalization(inputs, signers, secrets)
         IN  /\ st \in SparkStatus
             /\ st \in {"Signed", "Finalized"} <=> signers >= SPARK_THRESHOLD
             /\ st = "Finalized" <=> signers >= SPARK_THRESHOLD /\ secrets >= inputs
BY SMT, SparkCheckerAssumption DEF check_spark_tx_finalization, SparkStatus

(* What SetStatus writes, where it writes at all.                          *)
LEMMA StatusSet ==
  ASSUME SparkInv, SetStatus, NEW h \in SparkHash, spark_transaction'[h] # spark_transaction[h]
  PROVE  /\ HasRow(h)
         /\ spark_transaction'[h] \in SparkStatus
         /\ spark_transaction'[h] \in {"Signed", "Finalized"} <=> SignedEnough(h)
         /\ spark_transaction'[h] = "Finalized" <=>
              SignedEnough(h) /\ Cardinality(SecretsOf(h)) >= Len(Inputs[h])
<1> DEFINE g  == Head(job.rest).tx
           st == check_spark_tx_finalization(job.inputs, Cardinality(Signers(g)),
                                             Cardinality(SecretsOf(g)))
<1>1. /\ job.stage = "status"
      /\ spark_transaction' = IF job.same THEN [spark_transaction EXCEPT ![g] = st]
                              ELSE spark_transaction
  BY DEF SetStatus
<1>2. spark_transaction \in [SparkHash -> SparkStatus \cup {NoRow}]
  BY DEF SparkInv, RowsFit
<1> HIDE DEF g, st
<1>3. job.same /\ h = g /\ spark_transaction'[h] = st
  BY <1>1, <1>2
<1>4. HasRow(g) /\ job.inputs = Len(Inputs[g])
  BY <1>1, <1>3 DEF SparkInv, JobFits, g
<1>5. Cardinality(Signers(g)) \in Nat
  BY SignersFinite
<1>6. /\ st \in SparkStatus
      /\ st \in {"Signed", "Finalized"} <=> Cardinality(Signers(g)) >= SPARK_THRESHOLD
      /\ st = "Finalized" <=> /\ Cardinality(Signers(g)) >= SPARK_THRESHOLD
                              /\ Cardinality(SecretsOf(g)) >= job.inputs
  BY <1>5, StatusGiven DEF st
<1> QED BY <1>3, <1>4, <1>6 DEF SignedEnough

(* SetStatus: the status is earned, although signatures, secrets and       *)
(* inputs were read at different moments.                                  *)
LEMMA SetStatusKeeps ==
  ASSUME SparkInv, SetStatus
  PROVE  SparkInv'
<1> USE DEF SparkInv
<1>1. UNCHANGED <<spark_output, operator_signature>>
  BY DEF SetStatus
<1>2. NoRow \notin SparkStatus
  BY SparkAssumption
<1>3. \A h \in SparkHash : spark_transaction'[h] # spark_transaction[h] =>
        /\ HasRow(h)
        /\ spark_transaction'[h] \in SparkStatus
        /\ spark_transaction'[h] \in {"Signed", "Finalized"} => SignedEnough(h)
        /\ spark_transaction'[h] = "Finalized" => Revoked(h)
  BY StatusSet, ReadBackFits
<1>4. spark_transaction' \in [SparkHash -> SparkStatus \cup {NoRow}]
  <2>1. spark_transaction' = [h \in SparkHash |-> spark_transaction'[h]]
    BY DEF SetStatus, RowsFit
  <2>2. \A h \in SparkHash : spark_transaction'[h] \in SparkStatus \cup {NoRow}
    BY <1>3 DEF RowsFit
  <2> QED BY <2>1, <2>2
<1>5. \A h \in SparkHash : HasRow(h)' <=> HasRow(h)
  BY <1>2, <1>3 DEF HasRow
<1>6. \A l \in Leaf : l[1] \in SparkHash
  BY SMT DEF Leaf
<1>7. RowsFit'
  BY <1>1, <1>4, <1>5, <1>6 DEF RowsFit
<1>8. ASSUME NEW h PROVE /\ SignedEnough(h)' = SignedEnough(h)
                         /\ Revoked(h)' = Revoked(h)
  BY <1>1 DEF SignedEnough, Signers, Revoked
<1>9. StatusEarned'
  <2>1. \A h \in SparkHash :
          /\ spark_transaction'[h] \in {"Signed", "Finalized"} => SignedEnough(h)'
          /\ spark_transaction'[h] = "Finalized" => Revoked(h)'
    BY <1>3, <1>8 DEF StatusEarned
  <2>2. \A l \in Leaf : spark_output'[l] # NoRow /\ spark_output'[l].withdraw # None
                          => SignedEnough(l[1])' /\ Revoked(l[1])'
    BY <1>1, <1>8 DEF StatusEarned
  <2> QED BY <2>1, <2>2 DEF StatusEarned
<1>10. JobFits'
  <2>1. job = [x \in DOMAIN job |-> job[x]] /\ DOMAIN job = SigFields
    BY DEF SetStatus, JobFits
  <2>2. DOMAIN job' = SigFields /\ job' = [x \in DOMAIN job' |-> job'[x]] /\ job'.stage = "read"
    BY <2>1 DEF SetStatus, SigFields
  <2> QED BY <2>2 DEF JobFits
<1> QED BY <1>7, <1>9, <1>10

(* Every step of the node keeps SparkInv.                                  *)
LEMMA SparkStep ==
  ASSUME SparkInv, [Next]_flowVars
  PROVE  SparkInv'
<1>1. ASSUME UNCHANGED <<sparkRows, job>> PROVE SparkInv'
  BY <1>1, RowsRest, JobRests DEF sparkRows
<1>2. ASSUME UNCHANGED sparkRows, JobFits' PROVE SparkInv'
  BY <1>2, RowsRest
<1>3. CASE UNCHANGED flowVars
  BY <1>1, <1>3 DEF flowVars
<1>4. ASSUME NEW h \in SparkHash, NEW o \in Operator, NEW s \in BOOLEAN,
             send_spark_signature(h, o, s)
      PROVE  SparkInv'
  BY <1>1, <1>4 DEF send_spark_signature
<1>5. ASSUME NEW o \in Operator, SignatureFollows(o) PROVE SparkInv'
  BY <1>1, <1>5 DEF SignatureFollows
<1>6. ASSUME NEW r \in FreezeRequests, freeze_tokens(r) PROVE SparkInv'
  BY <1>1, <1>6 DEF freeze_tokens
<1>7. ASSUME NEW h \in SparkHash, handle_new_spark_tx(h) PROVE SparkInv'
  <2>1. UNCHANGED <<operator_signature, job>>
    BY <1>7 DEF handle_new_spark_tx
  <2>2. CASE UNCHANGED <<spark_transaction, spark_output>>
    BY <1>1, <2>1, <2>2 DEF sparkRows
  <2>3. CASE ~HasRow(h) /\ insert_spark_transaction(h)
    BY <2>1, <2>3, InsertKeeps
  <2> QED BY <1>7, <2>2, <2>3 DEF handle_new_spark_tx
<1>8. CASE handle_new_spark_txs_done
  BY <1>1, <1>8 DEF handle_new_spark_txs_done
<1>9. CASE PassOn
  BY <1>1, <1>9 DEF PassOn
<1>10. CASE handle_checked_spark_txs
  BY <1>1, <1>10 DEF handle_checked_spark_txs
<1>11. ASSUME NEW order, handle_inv(order) PROVE SparkInv'
  BY <1>1, <1>11 DEF handle_inv
<1>12. CASE check_spark_txs
  BY <1>1, <1>12 DEF check_spark_txs
<1>13. CASE check_spark_signatures
  <2>1. PICK sigs, from : job' = [stage |-> "store", rest |-> sigs, sigs |-> sigs, from |-> from,
                                  finalized |-> {}, inputs |-> 0, same |-> FALSE]
    BY <1>13 DEF check_spark_signatures
  <2>2. JobFits'
    BY <2>1 DEF JobFits, SigFields
  <2> QED BY <1>2, <1>13, <2>2 DEF check_spark_signatures
<1>14. CASE StoreSignature
  <2>1. job = [x \in DOMAIN job |-> job[x]] /\ DOMAIN job = SigFields /\ job.stage = "store"
    BY <1>14 DEF StoreSignature, SparkInv, JobFits
  <2>2. /\ DOMAIN job' = SigFields /\ job' = [x \in DOMAIN job' |-> job'[x]]
        /\ job'.stage \in {"store", "read"}
    BY <1>14, <2>1 DEF StoreSignature, SigFields
  <2>3. JobFits'
    BY <2>2 DEF JobFits
  <2>4. CASE UNCHANGED <<operator_signature, spark_output>>
    BY <1>2, <1>14, <2>3, <2>4 DEF StoreSignature, sparkRows
  <2>5. ASSUME NEW sig, insert_signature_data(sig.tx, sig.op),
               set_revocation_secret_keys(Revealed(sig))
        PROVE  SparkInv'
    <3>1. UNCHANGED spark_transaction
      BY <1>14 DEF StoreSignature
    <3> QED BY <2>3, <2>5, <3>1, SignatureKeeps
  <2> QED BY <1>14, <2>4, <2>5 DEF StoreSignature
<1>15. CASE ReadBack
  <2> DEFINE h == Head(job.rest).tx
  <2>1. job = [x \in DOMAIN job |-> job[x]] /\ DOMAIN job = SigFields /\ job.stage = "read"
    BY <1>15 DEF ReadBack, SparkInv, JobFits
  <2>2. UNCHANGED sparkRows
    BY <1>15 DEF ReadBack
  <2>3. CASE ~Found(h)
    <3>1. /\ DOMAIN job' = SigFields /\ job' = [x \in DOMAIN job' |-> job'[x]]
          /\ job'.stage = "read"
      BY <1>15, <2>1, <2>3 DEF ReadBack, SigFields
    <3> QED BY <1>2, <2>2, <3>1 DEF JobFits
  <2>4. CASE Found(h)
    <3>1. job' = [job EXCEPT !.stage = "status", !.inputs = InputsRead(h), !.same = Intact(h)]
      BY <1>15, <2>4 DEF ReadBack
    <3>2. /\ DOMAIN job' = SigFields /\ job' = [x \in DOMAIN job' |-> job'[x]]
          /\ job'.stage = "status" /\ job'.rest = job.rest
          /\ job'.inputs = InputsRead(h) /\ job'.same = Intact(h)
      BY <2>1, <3>1 DEF SigFields
    <3>3. spark_transaction'[h] # NoRow
      BY <2>2, <2>4 DEF Found, HasRow, sparkRows
    <3>4. ASSUME h \in SparkHash, Intact(h) PROVE InputsRead(h) = Len(Inputs[h])
      BY SMT, <3>4, ReadBackFits, SparkAssumption DEF Intact, SparkInv
    <3>5. JobFits'
      BY <3>2, <3>3, <3>4 DEF JobFits, HasRow
    <3> QED BY <1>2, <2>2, <3>5
  <2> QED BY <2>3, <2>4
<1>16. CASE SetStatus
  BY <1>16, SetStatusKeeps
<1>17. CASE SignaturesChecked
  BY <1>2, <1>17, IdleFits DEF SignaturesChecked
<1>18. CASE check_token_freezes
  BY <1>1, <1>18 DEF check_token_freezes
<1>19. CASE check_txs_full
  BY <1>2, <1>19, ExitJobFits DEF check_txs_full
<1>20. ASSUME NEW e \in Exit, check_spark_exit_proof(e) PROVE SparkInv'
  <2> DEFINE proof == Head(job.rest)
  <2>1. /\ job.stage = "exit"
        /\ UNCHANGED <<spark_transaction, operator_signature>>
    BY <1>20 DEF check_spark_exit_proof
  <2>2. CASE UNCHANGED spark_output /\ job' = ExitJob(job.later)
    BY <1>2, <2>1, <2>2, ExitJobFits DEF sparkRows
  <2>3. CASE /\ ~ExitWaits(proof) /\ mark_spark_output_as_withdrawn(ExitLeaf(proof), e)
             /\ job' = [job EXCEPT !.rest = Tail(@)]
    <3>0. job = [x \in DOMAIN job |-> job[x]] /\ DOMAIN job = ExitFields
      BY <2>1 DEF SparkInv, JobFits
    <3>1. /\ DOMAIN job' = ExitFields /\ job' = [x \in DOMAIN job' |-> job'[x]]
          /\ job'.stage = "exit"
      BY <2>1, <2>3, <3>0 DEF ExitFields
    <3>2. JobFits'
      BY <3>1 DEF JobFits
    <3> QED BY <2>1, <2>3, <3>2, MarkKeeps
  <2> QED BY <1>20, <2>2, <2>3 DEF check_spark_exit_proof, ExitEnds
<1>21. ASSUME NEW e \in Exit, check_spark_exit_done(e) PROVE SparkInv'
  BY <1>2, <1>21, ExitJobFits DEF check_spark_exit_done, ExitEnds
<1>22. ASSUME NEW e \in Exit, ExitConfirmed(e) PROVE SparkInv'
  BY <1>1, <1>22 DEF ExitConfirmed
<1>23. ASSUME NEW h \in SparkHash, handle_cleanup(h) PROVE SparkInv'
  BY <1>1, <1>23 DEF handle_cleanup
<1>24. CASE Restart
  BY <1>2, <1>24, IdleFits DEF Restart
<1> QED BY <1>3, <1>4, <1>5, <1>6, <1>7, <1>8, <1>9, <1>10, <1>11, <1>12, <1>13, <1>14, <1>15,
           <1>16, <1>17, <1>18, <1>19, <1>20, <1>21, <1>22, <1>23, <1>24 DEF Next

(* What is final at the start was signed, and revoked what it spends.      *)
LEMMA SparkStart == Init => SparkInv
<1> SUFFICES ASSUME Init PROVE SparkInv
  OBVIOUS
<1>1. PICK S \in FirstFinal : StorageInit(S)
  BY DEF Init
<1>2. \A h \in S : /\ h \in SparkHash
                   /\ Cardinality(OperatorsOf[h]) >= SPARK_THRESHOLD
                   /\ \A l \in Spent(h) : l \in Leaf /\ l[1] \in S
  BY SparkFlowAssumption
<1>3. NoRow \notin SparkStatus /\ NoRow \notin OutputRow /\ None \notin SparkHash
  BY SparkAssumption
<1>4. \A h \in SparkHash : spark_transaction[h] = IF h \in S THEN "Finalized" ELSE NoRow
  BY <1>1 DEF StorageInit
<1>5. \A l \in Leaf : l[1] \in SparkHash
  BY SMT DEF Leaf
<1>6. ASSUME NEW l \in Leaf, l[1] \in S
      PROVE  /\ spark_output[l] \in OutputRow /\ spark_output[l].withdraw = None
             /\ (\E h \in S : l \in Spent(h)) => spark_output[l].secret
             /\ spark_output[l].spend # None => l \in Spent(spark_output[l].spend)
  <2> DEFINE by == {h \in S : l \in Spent(h)}
             to == IF by = {} THEN None ELSE CHOOSE h \in by : TRUE
             has == by # {}
  <2>1. spark_output[l] = [spend |-> to, secret |-> has, withdraw |-> None]
    BY <1>1, <1>6 DEF StorageInit
  <2>2. to # None => to \in by
    OBVIOUS
  <2>3. by \subseteq SparkHash
    BY <1>2
  <2>4. to \in SparkHash \cup {None} /\ has \in BOOLEAN
    BY <2>2, <2>3
  <2>5. (\E h \in S : l \in Spent(h)) => has
    OBVIOUS
  <2>6. to # None => l \in Spent(to)
    BY <2>2
  <2> HIDE DEF to, has, by
  <2> QED BY SMT, <2>1, <2>4, <2>5, <2>6 DEF OutputRow
<1>7. ASSUME NEW l \in Leaf, l[1] \notin S PROVE spark_output[l] = NoRow
  BY <1>1, <1>7 DEF StorageInit
<1>8. RowsFit
  <2>1. spark_transaction \in [SparkHash -> SparkStatus \cup {NoRow}]
    BY <1>1 DEF StorageInit, SparkStatus
  <2>2. spark_output = [l \in Leaf |-> spark_output[l]]
    BY <1>1 DEF StorageInit
  <2>3. spark_output \in [Leaf -> OutputRow \cup {NoRow}]
    BY <2>2, <1>6, <1>7
  <2>4. \A l \in Leaf : spark_output[l] # NoRow <=> HasRow(l[1])
    BY <1>3, <1>4, <1>5, <1>6, <1>7 DEF HasRow, SparkStatus
  <2> QED BY <2>1, <2>3, <2>4, <1>6, <1>7 DEF RowsFit
<1>9. StatusEarned
  <2>1. ASSUME NEW h \in S PROVE SignedEnough(h)
    <3>1. OperatorsOf[h] \subseteq Signers(h)
      BY SMT, <1>1, <1>2, SparkAssumption DEF StorageInit, Signers
    <3>2. IsFiniteSet(Signers(h)) /\ Cardinality(Signers(h)) \in Nat
      BY SignersFinite
    <3>3. /\ Cardinality(OperatorsOf[h]) <= Cardinality(Signers(h))
          /\ Cardinality(OperatorsOf[h]) \in Nat
      BY <3>1, <3>2, FS_Subset, FS_CardinalityType
    <3> QED BY SMT, <1>2, <3>2, <3>3, SparkCheckerAssumption DEF SignedEnough
  <2>2. ASSUME NEW h \in S PROVE Revoked(h)
    BY <1>2, <1>3, <1>6, <2>2 DEF Revoked
  <2>3. \A h \in SparkHash : spark_transaction[h] \in {"Signed", "Finalized"} => h \in S
    BY <1>3, <1>4 DEF SparkStatus
  <2> QED BY <1>4, <1>6, <1>7, <2>1, <2>2, <2>3 DEF StatusEarned
<1>10. JobFits
  BY DEF Init, JobFits, NoJob
<1> QED BY <1>8, <1>9, <1>10 DEF SparkInv

-----------------------------------------------------------------------------
(* The theorems.                                                           *)

(* SparkInv holds in every state the node reaches.                         *)
THEOREM SparkInvariant == Spec => []SparkInv
BY SparkStart, SparkStep, PTL DEF Spec

(* What is final, and what an exit was let withdraw, was signed by enough  *)
(* operators and has had all its inputs revoked, whatever the controller   *)
(* inserts between the reads of check_spark_signatures and between the     *)
(* proofs of check_spark_exit.                                             *)
THEOREM FinalAlwaysBacked == Spec => []FinalIsBacked
<1>1. SparkInv => FinalIsBacked
  <2> SUFFICES ASSUME SparkInv PROVE FinalIsBacked
    OBVIOUS
  <2>1. ASSUME NEW h, SignedEnough(h), Revoked(h) PROVE Backed(h)
    BY <2>1 DEF SignedEnough, Revoked, Backed
  <2>2. \A h \in SparkHash : spark_transaction[h] = "Finalized" => Backed(h)
    BY <2>1 DEF SparkInv, StatusEarned
  <2>3. \A l \in get_withdrawn_leaves(None) : Backed(l[1])
    BY <2>1 DEF SparkInv, StatusEarned, get_withdrawn_leaves
  <2> QED BY <2>2, <2>3 DEF FinalIsBacked
<1> QED BY <1>1, SparkInvariant, PTL

(* A status that is set again from a transaction read back whole is no     *)
(* lower than the one before.                                              *)
LEMMA IntactNotBack ==
  ASSUME SparkInv, [Next]_flowVars, NEW h \in SparkHash,
         Rank(spark_transaction'[h]) < Rank(spark_transaction[h])
  PROVE  ~Intact(h)
<1>0. /\ NoRow \notin SparkStatus /\ SparkStatus = {"Started", "Signed", "Finalized"}
      /\ spark_transaction[h] \in SparkStatus \cup {NoRow}
  BY SparkAssumption DEF SparkStatus, SparkInv, RowsFit
<1>1. spark_transaction'[h] # spark_transaction[h]
  <2>1. Rank(spark_transaction[h]) \in Nat
    BY <1>0 DEF Rank
  <2> QED BY SMT, <2>1
<1>2. ASSUME NEW x \in SparkHash, handle_new_spark_tx(x) PROVE FALSE
  <2>1. \/ spark_transaction'[h] = spark_transaction[h]
        \/ spark_transaction[h] = NoRow /\ spark_transaction'[h] = "Started"
    BY <1>2 DEF handle_new_spark_tx, insert_spark_transaction, HasRow, SparkInv, RowsFit
  <2>2. spark_transaction[h] = NoRow /\ spark_transaction'[h] = "Started"
    BY <1>1, <2>1
  <2> QED BY SMT, <1>0, <2>2 DEF Rank
<1>3. SetStatus
  <2>1. ASSUME UNCHANGED spark_transaction PROVE FALSE
    BY <1>1, <2>1
  <2> QED BY <1>2, <2>1 DEF Next, flowVars, sparkRows, send_spark_signature, SignatureFollows,
         freeze_tokens, handle_new_spark_txs_done, PassOn, handle_checked_spark_txs, handle_inv,
         check_spark_txs, check_spark_signatures, StoreSignature, ReadBack, SignaturesChecked,
         check_token_freezes, check_txs_full, check_spark_exit_proof, check_spark_exit_done,
         ExitConfirmed, handle_cleanup, Restart
<1>4. /\ spark_transaction'[h] \in SparkStatus /\ HasRow(h)
      /\ spark_transaction'[h] \in {"Signed", "Finalized"} <=> SignedEnough(h)
      /\ spark_transaction'[h] = "Finalized" <=>
           SignedEnough(h) /\ Cardinality(SecretsOf(h)) >= Len(Inputs[h])
  BY <1>1, <1>3, StatusSet
<1>5. /\ spark_transaction[h] \in {"Signed", "Finalized"} => SignedEnough(h)
      /\ spark_transaction[h] = "Finalized" => Revoked(h)
  BY DEF SparkInv, StatusEarned
<1>6. spark_transaction[h] = "Finalized" /\ spark_transaction'[h] = "Signed"
  BY SMT, <1>0, <1>4, <1>5 DEF Rank, HasRow
<1>7. SecretsOf(h) = SpentBy(h)
  BY <1>5, <1>6, ReadBackFits DEF SparkInv
<1>8. ~(InputsRead(h) >= Len(Inputs[h]))
  BY <1>4, <1>5, <1>6, <1>7 DEF InputsRead
<1>9. h \in Mint => InputsRead(h) = 0 /\ Len(Inputs[h]) = 0
  BY SMT, ReadBackFits, SparkAssumption DEF SparkInv
<1>10. InputsRead(h) \in Nat /\ Len(Inputs[h]) \in Nat
  BY SMT, ReadBackFits, SparkAssumption DEF SparkInv
<1> QED BY SMT, <1>8, <1>9, <1>10 DEF Intact

(* The status of a transaction goes back only when another transfer has    *)
(* taken one of its inputs between the reads of check_spark_signatures.    *)
THEOREM StatusBackOnlyWhenRespent == Spec => BackOnlyWhenRespent
<1>1. SparkInv /\ [Next]_flowVars
        => [\A h \in SparkHash : Rank(spark_transaction'[h]) < Rank(spark_transaction[h])
                                   => ~Intact(h)]_flowVars
  BY IntactNotBack
<1> QED BY <1>1, SparkInvariant, PTL DEF Spec, BackOnlyWhenRespent

-----------------------------------------------------------------------------
(* A batch is checked one transaction after the other.                     *)

(* A set of naturals that is not empty has a least member.                 *)
LEMMA LeastNatural ==
  ASSUME NEW T \in SUBSET Nat, T # {}
  PROVE  \E x \in T : \A y \in T : x <= y
<1>1. PICK x \in T : \A y \in T : <<y, x>> \notin OpToRel(<, Nat)
  BY WFMin, NatLessThanWellFounded
<1>2. \A y \in T : ~(y < x)
  BY <1>1 DEF OpToRel
<1> QED
  BY SMT, <1>2

-----------------------------------------------------------------------------
(* check_spark_txs, over a batch.                                          *)

(* f is what is known of a batch after each of its first k transactions.   *)
Known(txs, k, f) ==
  f = [n \in 0 .. k |-> IF n = 0 THEN NoneChecked
                        ELSE check_spark_transaction(f[n - 1], txs[n])]

(* The loop over a batch has a result, whatever its length.                *)
LEMMA BatchEnds ==
  ASSUME NEW txs, NEW k \in Nat
  PROVE  \E f : Known(txs, k, f)
<1> DEFINE T == {m \in Nat : ~ \E f : Known(txs, m, f)}
<1>1. ASSUME T # {} PROVE FALSE
  <2>1. PICK x \in T : \A y \in T : x <= y
    <3>1. T \in SUBSET Nat
      OBVIOUS
    <3> HIDE DEF T
    <3> QED BY <1>1, <3>1, LeastNatural
  <2>2. x \in Nat /\ ~ \E f : Known(txs, x, f)
    OBVIOUS
  <2>3. x # 0
    <3> DEFINE g == [n \in 0 .. 0 |-> NoneChecked]
    <3>1. \A n \in 0 .. 0 : n = 0
      BY SMT
    <3>2. g = [n \in 0 .. 0 |-> IF n = 0 THEN NoneChecked
                                ELSE check_spark_transaction(g[n - 1], txs[n])]
      BY <3>1
    <3>3. Known(txs, 0, g)
      BY <3>2 DEF Known
    <3> QED BY <2>2, <3>3
  <2>4. x - 1 \in Nat /\ x - 1 \notin T
    <3>1. x - 1 \in Nat /\ ~(x <= x - 1)
      BY SMT, <2>2, <2>3
    <3> HIDE DEF T
    <3> QED BY <2>1, <3>1
  <2>5. PICK f : Known(txs, x - 1, f)
    BY <2>4
  <2> DEFINE g == [n \in 0 .. x |-> IF n = x THEN check_spark_transaction(f[x - 1], txs[x])
                                    ELSE f[n]]
             step(n) == IF n = 0 THEN NoneChecked ELSE check_spark_transaction(g[n - 1], txs[n])
  <2>6. \A n \in 0 .. x : /\ n = x => n # 0 /\ n - 1 \in 0 .. x /\ n - 1 # x
                          /\ n # x => n \in 0 .. x - 1
                          /\ n # x /\ n # 0 => n - 1 \in 0 .. x /\ n - 1 # x
    BY SMT, <2>2, <2>3
  <2>7. \A n \in 0 .. x - 1 : f[n] = IF n = 0 THEN NoneChecked
                                     ELSE check_spark_transaction(f[n - 1], txs[n])
    BY <2>5 DEF Known
  <2>8. \A n \in 0 .. x : n # x => g[n] = f[n]
    OBVIOUS
  <2>9. ASSUME NEW n \in 0 .. x PROVE g[n] = step(n)
    <3>1. CASE n = x
      <4>1. g[n - 1] = f[n - 1]
        BY <3>1, <2>6, <2>8
      <4>2. g[n] = check_spark_transaction(f[n - 1], txs[n])
        BY <3>1
      <4> QED BY <3>1, <2>6, <4>1, <4>2
    <3>2. CASE n # x /\ n = 0
      BY <3>2, <2>6, <2>7, <2>8
    <3>3. CASE n # x /\ n # 0
      <4>1. g[n - 1] = f[n - 1] /\ g[n] = f[n]
        BY <3>3, <2>6, <2>8
      <4> QED BY <3>3, <2>6, <2>7, <4>1
    <3> QED BY <3>1, <3>2, <3>3
  <2>10. g = [n \in 0 .. x |-> step(n)]
    <3>1. g = [n \in 0 .. x |-> g[n]]
      OBVIOUS
    <3> HIDE DEF g, step
    <3> QED BY <2>9, <3>1
  <2>11. Known(txs, x, g)
    <3> HIDE DEF g
    <3> QED BY <2>10 DEF Known
  <2> QED BY <2>2, <2>11
<1> QED BY <1>1

(* What check_spark_txs concludes of a batch is the last of these.         *)
LEMMA BatchResult ==
  ASSUME NEW txs, Len(txs) \in Nat
  PROVE  \E f : Known(txs, Len(txs), f) /\ CheckBatch(txs) = f[Len(txs)]
<1> DEFINE after == CHOOSE f : Known(txs, Len(txs), f)
<1>1. Known(txs, Len(txs), after)
  BY BatchEnds
<1>2. CheckBatch(txs) = after[Len(txs)]
  BY DEF CheckBatch, Known
<1> QED BY <1>1, <1>2

(* A batch of one.                                                         *)
LEMMA BatchOfOne ==
  ASSUME NEW h
  PROVE  CheckBatch(<<h>>) = check_spark_transaction(NoneChecked, h)
<1>1. Len(<<h>>) = 1 /\ <<h>>[1] = h
  OBVIOUS
<1>2. PICK f : Known(<<h>>, 1, f) /\ CheckBatch(<<h>>) = f[1]
  <2>1. 1 \in Nat
    OBVIOUS
  <2> QED BY <1>1, <2>1, BatchResult
<1>3. 0 \in 0 .. 1 /\ 1 \in 0 .. 1 /\ 1 # 0 /\ 1 - 1 = 0
  BY SMT
<1>4. f[0] = NoneChecked /\ f[1] = check_spark_transaction(f[1 - 1], <<h>>[1])
  BY <1>2, <1>3 DEF Known
<1> QED BY <1>1, <1>2, <1>3, <1>4

(* The least member of a set of naturals is in the set.                    *)
LEMMA MinOfNaturals ==
  ASSUME NEW S \in SUBSET Nat, S # {}
  PROVE  Min(S) \in S
<1>1. \E x \in S : \A y \in S : x <= y
  BY LeastNatural
<1> QED BY <1>1 DEF Min

(* A search for the first of N places ends at one of them or at the end.   *)
LEMMA FirstPlace ==
  ASSUME NEW N \in Nat, NEW S \in SUBSET (1 .. N)
  PROVE  Min(S \cup {N + 1}) \in 1 .. N + 1
<1> DEFINE T == S \cup {N + 1}
<1>1. 1 .. N \subseteq 1 .. N + 1 /\ N + 1 \in 1 .. N + 1 /\ 1 .. N + 1 \subseteq Nat
  BY SMT
<1>2. T \in SUBSET Nat /\ T # {} /\ T \subseteq 1 .. N + 1
  BY <1>1
<1>3. Min(T) \in T
  <2> HIDE DEF T
  <2> QED BY <1>2, MinOfNaturals
<1> QED BY <1>2, <1>3

(* Every transfer that is stored has its parents stored.                   *)
ParentsStored ==
  \A h \in SparkHash : HasRow(h) => \A l \in Spent(h) : l \in Leaf /\ HasRow(l[1])

(* A leaf is an output of a transaction that has outputs.                  *)
LEMMA LeafHasOutputs ==
  ASSUME NEW l \in Leaf
  PROVE  l[1] \in SparkHash /\ Outputs[l[1]] # <<>>
<1>1. PICK h \in SparkHash : \E v \in 0 .. Len(Outputs[h]) - 1 : l = <<h, v>>
  BY DEF Leaf
<1>2. l[1] = h
  BY SMT, <1>1
<1>3. ASSUME Outputs[h] = <<>> PROVE FALSE
  <2>1. Len(Outputs[h]) = 0
    BY SMT, <1>3
  <2> QED BY SMT, <1>1, <2>1
<1> QED BY <1>2, <1>3

(* A stored transfer does not wait for a parent: the checker queues        *)
(* nothing when it checks it.                                              *)
LEMMA NoOrphan ==
  ASSUME ParentsStored, NEW h \in SparkHash, HasRow(h), NEW b
  PROVE  /\ check_spark_transaction(b, h).queue = b.queue
         /\ check_spark_transaction(b, h).checked \in {b.checked, b.checked \cup {h}}
<1> DEFINE in == RefusedInput(b, h)
           orphan == /\ in <= Len(Inputs[h]) /\ Inputs[h][in] \notin b.spent
                     /\ ~KnownParent(b, Inputs[h][in][1])
<1>1. Inputs[h] \in Seq(SparkHash \X Nat) /\ Len(Inputs[h]) \in Nat
  BY SMT, SparkAssumption
<1>2. in \in 1 .. Len(Inputs[h]) + 1
  <2>1. ASSUME NEW S \in SUBSET (1 .. Len(Inputs[h]))
        PROVE  Min(S \cup {Len(Inputs[h]) + 1}) \in 1 .. Len(Inputs[h]) + 1
    BY <1>1, <2>1, FirstPlace
  <2> QED BY <2>1 DEF RefusedInput, FirstWhere
<1>3. ~orphan
  <2> SUFFICES ASSUME orphan PROVE FALSE
    OBVIOUS
  <2> DEFINE l == Inputs[h][in]
  <2>1. in \in 1 .. Len(Inputs[h])
    <3>1. in <= Len(Inputs[h])
      OBVIOUS
    <3> HIDE DEF in
    <3> QED BY SMT, <1>1, <1>2, <3>1
  <2>2. l \in Spent(h)
    <3>1. in \in DOMAIN Inputs[h]
      <4> HIDE DEF in
      <4> QED BY SMT, <1>1, <2>1
    <3> QED BY <3>1 DEF Spent, Range
  <2>3. l \in Leaf /\ HasRow(l[1])
    BY <2>2 DEF ParentsStored
  <2>4. Found(l[1])
    BY <2>3, LeafHasOutputs DEF Found
  <2> QED BY <2>4 DEF KnownParent
<1>4. check_spark_transaction(b, h).queue = IF orphan
        THEN [b.queue EXCEPT ![Inputs[h][in][1]] = TokenTx(h)] ELSE b.queue
  BY DEF check_spark_transaction
<1>5. check_spark_transaction(b, h).queue = b.queue
  <2> HIDE DEF orphan, in
  <2> QED BY <1>3, <1>4
<1>6. check_spark_transaction(b, h).checked \in {b.checked, b.checked \cup {h}}
  BY DEF check_spark_transaction
<1> QED BY <1>5, <1>6

(* A batch of stored transactions leaves spark_queue as it is, and what it *)
(* finds checked is of the batch.                                          *)
LEMMA StoredBatch ==
  ASSUME ParentsStored, NEW txs \in Seq({h \in SparkHash : HasRow(h)})
  PROVE  /\ CheckBatch(txs).queue = spark_queue
         /\ CheckBatch(txs).checked \subseteq {h \in SparkHash : HasRow(h)}
<1> DEFINE R == {h \in SparkHash : HasRow(h)}
<1>1. Len(txs) \in Nat /\ \A n \in 1 .. Len(txs) : txs[n] \in R
  <2> HIDE DEF R
  <2>1. txs \in Seq(R)
    BY DEF R
  <2> QED BY SMT, <2>1
<1>2. PICK f : Known(txs, Len(txs), f) /\ CheckBatch(txs) = f[Len(txs)]
  BY <1>1, BatchResult
<1> DEFINE good(b) == b.queue = spark_queue /\ b.checked \subseteq R
           T == {n \in 0 .. Len(txs) : ~good(f[n])}
<1>3. ASSUME T # {} PROVE FALSE
  <2>1. PICK x \in T : \A y \in T : x <= y
    <3>1. T \in SUBSET Nat
      <4>1. 0 .. Len(txs) \subseteq Nat
        BY SMT, <1>1
      <4> QED BY <4>1
    <3> HIDE DEF T
    <3> QED BY <1>3, <3>1, LeastNatural
  <2>2. x \in 0 .. Len(txs) /\ ~good(f[x])
    OBVIOUS
  <2>3. f[x] = IF x = 0 THEN NoneChecked ELSE check_spark_transaction(f[x - 1], txs[x])
    BY <1>2, <2>2 DEF Known
  <2>4. good(NoneChecked)
    BY DEF NoneChecked
  <2>5. x # 0
    <3> HIDE DEF good
    <3> QED BY <2>2, <2>3, <2>4
  <2>6. x \in 1 .. Len(txs) /\ x - 1 \in 0 .. Len(txs) /\ ~(x <= x - 1)
    <3> HIDE DEF T, good
    <3> QED BY SMT, <1>1, <2>2, <2>5
  <2>7. good(f[x - 1])
    <3>1. x - 1 \notin T
      <4> HIDE DEF T
      <4> QED BY <2>1, <2>6
    <3> HIDE DEF good
    <3> QED BY <2>6, <3>1
  <2>8. txs[x] \in SparkHash /\ HasRow(txs[x])
    BY <1>1, <2>6
  <2>9. f[x] = check_spark_transaction(f[x - 1], txs[x])
    BY <2>3, <2>5
  <2>10. /\ f[x].queue = f[x - 1].queue
         /\ f[x].checked \in {f[x - 1].checked, f[x - 1].checked \cup {txs[x]}}
    BY <2>8, <2>9, NoOrphan
  <2>11. txs[x] \in R
    BY <2>8
  <2>12. good(f[x])
    <3> HIDE DEF R
    <3> QED BY <2>7, <2>10, <2>11
  <2> QED BY <2>2, <2>12
<1>4. Len(txs) \in 0 .. Len(txs)
  BY SMT, <1>1
<1>5. good(f[Len(txs)])
  <2> HIDE DEF good
  <2> QED BY <1>3, <1>4
<1> QED BY <1>2, <1>5

-----------------------------------------------------------------------------
(* The channels.                                                           *)

IsChannel(q) == q \in Seq(Range(q))

(* A sequence over some set is a channel.                                  *)
LEMMA SeqIsChannel ==
  ASSUME NEW M, NEW q \in Seq(M)
  PROVE  IsChannel(q) /\ Range(q) \subseteq M
<1>1. DOMAIN q = 1 .. Len(q) /\ Len(q) \in Nat /\ \A i \in 1 .. Len(q) : q[i] \in M
  BY SMT
<1>2. \A i \in 1 .. Len(q) : q[i] \in Range(q)
  BY <1>1 DEF Range
<1>3. q \in Seq(Range(q))
  <2> HIDE DEF Range
  <2> QED BY SMT, <1>1, <1>2
<1> QED BY <1>1, <1>3 DEF IsChannel, Range

(* No message, and one.                                                    *)
LEMMA ShortChannel ==
  ASSUME NEW m
  PROVE  /\ IsChannel(<<>>) /\ Range(<<>>) = {}
         /\ IsChannel(<<m>>) /\ Range(<<m>>) = {m}
<1>1. <<m>> \in Seq({m})
  BY SMT
<1>2. IsChannel(<<m>>) /\ Range(<<m>>) \subseteq {m}
  BY <1>1, SeqIsChannel
<1>4. IsChannel(<<>>) /\ Range(<<>>) = {}
  <2>1. DOMAIN <<>> = {}
    BY SMT
  <2>2. \A M : <<>> \in Seq(M)
    BY SMT
  <2>3. Range(<<>>) = {}
    BY <2>1 DEF Range
  <2> QED BY <2>2, <2>3 DEF IsChannel
<1>3. m \in Range(<<m>>)
  <2>1. 1 \in DOMAIN <<m>> /\ <<m>>[1] = m
    BY SMT
  <2> QED BY <2>1 DEF Range
<1> QED BY <1>2, <1>3, <1>4

(* A message at the end.                                                   *)
LEMMA AppendChannel ==
  ASSUME NEW q, IsChannel(q), NEW m
  PROVE  IsChannel(Append(q, m)) /\ Range(Append(q, m)) = Range(q) \cup {m}
<1> DEFINE M == Range(q)
           r == Append(q, m)
<1>1. /\ Len(q) \in Nat /\ r \in Seq(M \cup {m}) /\ DOMAIN r = 1 .. Len(q) + 1
      /\ DOMAIN q = 1 .. Len(q)
      /\ \A i \in 1 .. Len(q) : i \in 1 .. Len(q) + 1 /\ r[i] = q[i]
      /\ Len(q) + 1 \in 1 .. Len(q) + 1 /\ r[Len(q) + 1] = m
  <2>1. q \in Seq(M)
    BY DEF IsChannel
  <2> HIDE DEF M
  <2> QED BY SMT, <2>1
<1>2. IsChannel(r) /\ Range(r) \subseteq M \cup {m}
  <2> HIDE DEF M, r
  <2> QED BY <1>1, SeqIsChannel
<1>3. M \subseteq Range(r) /\ m \in Range(r)
  <2> HIDE DEF r
  <2> QED BY <1>1 DEF Range
<1> QED BY <1>2, <1>3

(* The first message, and the others.                                      *)
LEMMA TailChannel ==
  ASSUME NEW q, IsChannel(q), q # <<>>
  PROVE  IsChannel(Tail(q)) /\ Range(q) = {Head(q)} \cup Range(Tail(q))
<1> DEFINE M == Range(q)
           r == Tail(q)
<1>1. /\ r \in Seq(M) /\ Len(q) \in Nat \ {0} /\ DOMAIN q = 1 .. Len(q)
      /\ DOMAIN r = 1 .. Len(q) - 1 /\ Head(q) = q[1] /\ 1 \in 1 .. Len(q)
      /\ \A i \in 1 .. Len(q) - 1 : i + 1 \in 1 .. Len(q) /\ r[i] = q[i + 1]
  <2>1. q \in Seq(M)
    BY DEF IsChannel
  <2> HIDE DEF M
  <2> QED BY SMT, <2>1
<1>2. IsChannel(r) /\ Range(r) \subseteq M
  <2> HIDE DEF M, r
  <2> QED BY <1>1, SeqIsChannel
<1>3. Head(q) \in M
  BY <1>1 DEF Range
<1>4. ASSUME NEW i \in 1 .. Len(q) PROVE q[i] \in {Head(q)} \cup Range(r)
  <2>1. CASE i = 1
    BY <1>1, <2>1
  <2>2. CASE i # 1
    <3>1. i - 1 \in 1 .. Len(q) - 1 /\ (i - 1) + 1 = i
      <4> HIDE DEF M, r
      <4> QED BY SMT, <1>1, <2>2
    <3>2. i - 1 \in DOMAIN r /\ r[i - 1] = q[i]
      BY <1>1, <3>1
    <3> QED BY <3>2 DEF Range
  <2> QED BY <2>1, <2>2
<1>5. M \subseteq {Head(q)} \cup Range(r)
  <2> HIDE DEF r
  <2> QED BY <1>1, <1>4 DEF Range
<1> QED BY <1>2, <1>3, <1>5

(* The messages of one channel after those of another.                     *)
LEMMA ConcatChannel ==
  ASSUME NEW q, NEW p, IsChannel(q), IsChannel(p)
  PROVE  IsChannel(q \o p) /\ Range(q \o p) = Range(q) \cup Range(p)
<1> DEFINE M == Range(q)
           N == Range(p)
           r == q \o p
<1>1. q \in Seq(M) /\ p \in Seq(N)
  BY DEF IsChannel
<1>2. q \in Seq(M \cup N) /\ p \in Seq(M \cup N)
  <2> HIDE DEF M, N
  <2> QED BY SMT, <1>1
<1>3. /\ r \in Seq(M \cup N) /\ DOMAIN r = 1 .. Len(q) + Len(p)
      /\ Len(q) \in Nat /\ Len(p) \in Nat
      /\ DOMAIN q = 1 .. Len(q) /\ DOMAIN p = 1 .. Len(p)
      /\ \A i \in 1 .. Len(q) : i \in 1 .. Len(q) + Len(p) /\ r[i] = q[i]
      /\ \A i \in 1 .. Len(p) : Len(q) + i \in 1 .. Len(q) + Len(p) /\ r[Len(q) + i] = p[i]
  <2> HIDE DEF M, N
  <2> QED BY SMT, <1>2
<1>4. IsChannel(r) /\ Range(r) \subseteq M \cup N
  <2> HIDE DEF M, N, r
  <2> QED BY <1>3, SeqIsChannel
<1>5. M \subseteq Range(r) /\ N \subseteq Range(r)
  <2> HIDE DEF r
  <2> QED BY <1>3 DEF Range
<1> QED BY <1>4, <1>5

-----------------------------------------------------------------------------
(* Nobody waits for what the node has.                                     *)

StoredHashes == {h \in SparkHash : HasRow(h)}

(* What is final has been found, so it has outputs, and so has what the    *)
(* checker is about to set the status of.                                  *)
FinalFound ==
  /\ \A h \in SparkHash : spark_transaction[h] = "Finalized" => Outputs[h] # <<>>
  /\ job.stage = "status" => Outputs[Head(job.rest).tx] # <<>>

SignatureJob == job.stage \in {"store", "read", "status"}

(* Only exits wait in spark_queue.  One that waits for a transaction that  *)
(* became final meanwhile is let go on when the checker is done with the   *)
(* signatures that made it so.                                             *)
QueueFits ==
  /\ DOMAIN spark_queue = SparkHash
  /\ \A h \in SparkHash : spark_queue[h] # None => spark_queue[h].kind = "ExitTx"
  /\ \A h \in SparkHash : spark_queue[h] # None /\ spark_transaction[h] = "Finalized"
                            => SignatureJob /\ h \in job.finalized

(* What is sent to be checked or attached has been stored.                 *)
FitsController(m) ==
  \/ \E txs, new, from : /\ m = [type |-> "NewSparkTxs", txs |-> txs, new |-> new, from |-> from]
                         /\ new \in Seq(StoredHashes)
  \/ \E sigs, from : m = Signatures(sigs, from)
  \/ \E S \in SUBSET StoredHashes : m = CheckedSparkTxs(S)
  \/ \E r : m = FreezeTokens(r)

FitsChecker(m) ==
  \/ \E txs, from : m = SparkCheck(txs, from) /\ txs \in Seq(StoredHashes)
  \/ \E sigs, from : m = Signatures(sigs, from)
  \/ \E r : m = FreezeTokens(r)
  \/ \E e : m = FullCheck(e)

MessagesFit ==
  /\ IsChannel(toController) /\ \A m \in Range(toController) : FitsController(m)
  /\ IsChannel(toChecker) /\ \A m \in Range(toChecker) : FitsChecker(m)

WaitInv ==
  /\ ParentsStored
  /\ FinalFound
  /\ QueueFits
  /\ deps = [h \in SparkHash |-> {}]
  /\ MessagesFit

(* A row that is there stays.                                              *)
LEMMA RowsStay ==
  ASSUME SparkInv, WaitInv, [Next]_flowVars
  PROVE  /\ ParentsStored'
         /\ StoredHashes \subseteq StoredHashes'
         /\ \A h \in SparkHash : spark_transaction'[h] = "Finalized" => Outputs[h] # <<>>
         /\ \/ UNCHANGED spark_transaction
            \/ \E h \in SparkHash : handle_new_spark_tx(h)
            \/ SetStatus
<1>1. CASE UNCHANGED spark_transaction
  <2>1. \A h : HasRow(h)' <=> HasRow(h)
    BY <1>1 DEF HasRow
  <2> QED BY <1>1, <2>1 DEF WaitInv, ParentsStored, FinalFound, StoredHashes
<1>2. ASSUME NEW x \in SparkHash, handle_new_spark_tx(x), ~UNCHANGED spark_transaction
      PROVE  /\ ParentsStored'
             /\ StoredHashes \subseteq StoredHashes'
             /\ \A h \in SparkHash : spark_transaction'[h] = "Finalized" => Outputs[h] # <<>>
  <2>1. Insertable(x) /\ insert_spark_transaction(x)
    BY <1>2 DEF handle_new_spark_tx
  <2>2. spark_transaction \in [SparkHash -> SparkStatus \cup {NoRow}]
    BY DEF SparkInv, RowsFit
  <2>3. /\ spark_transaction'[x] = "Started"
        /\ \A h \in SparkHash : h # x => spark_transaction'[h] = spark_transaction[h]
    BY <2>1, <2>2 DEF insert_spark_transaction
  <2>4. "Started" # NoRow
    BY SparkAssumption DEF SparkStatus
  <2>5. \A h \in SparkHash : HasRow(h)' <=> h = x \/ HasRow(h)
    BY <2>3, <2>4 DEF HasRow
  <2>6. ASSUME NEW h \in SparkHash, HasRow(h)', NEW l \in Spent(h)
        PROVE  l \in Leaf /\ HasRow(l[1])'
    <3>1. l \in Leaf /\ HasRow(l[1])
      <4>1. CASE h = x
        BY <2>1, <2>6, <4>1 DEF Insertable, SparkInv, RowsFit
      <4>2. CASE h # x
        BY <2>5, <2>6, <4>2 DEF WaitInv, ParentsStored
      <4> QED BY <4>1, <4>2
    <3>2. l[1] \in SparkHash
      BY <3>1, LeafHasOutputs
    <3> QED BY <2>5, <3>1, <3>2
  <2>7. StoredHashes \subseteq StoredHashes'
    BY <2>5 DEF StoredHashes
  <2>8. \A h \in SparkHash : spark_transaction'[h] = "Finalized" => Outputs[h] # <<>>
    BY <2>3 DEF WaitInv, FinalFound
  <2> QED BY <2>6, <2>7, <2>8 DEF ParentsStored
<1>3. ASSUME SetStatus
      PROVE  /\ ParentsStored'
             /\ StoredHashes \subseteq StoredHashes'
             /\ \A h \in SparkHash : spark_transaction'[h] = "Finalized" => Outputs[h] # <<>>
  <2>1. \A h \in SparkHash : spark_transaction'[h] # spark_transaction[h]
          => HasRow(h) /\ spark_transaction'[h] \in SparkStatus
    BY <1>3, StatusSet
  <2>2. \A h \in SparkHash : HasRow(h)' <=> HasRow(h)
    BY <2>1, SparkAssumption DEF HasRow
  <2>3. \A l \in Leaf : l[1] \in SparkHash
    BY LeafHasOutputs
  <2>4. ParentsStored' /\ StoredHashes \subseteq StoredHashes'
    BY <2>2, <2>3 DEF WaitInv, ParentsStored, StoredHashes
  <2>5. ASSUME NEW h \in SparkHash, spark_transaction'[h] = "Finalized"
        PROVE  Outputs[h] # <<>>
    <3>1. CASE spark_transaction'[h] = spark_transaction[h]
      BY <2>5, <3>1 DEF WaitInv, FinalFound
    <3>2. CASE spark_transaction'[h] # spark_transaction[h]
      <4>1. h = Head(job.rest).tx /\ job.stage = "status"
        BY <1>3, <3>2 DEF SetStatus, SparkInv, RowsFit
      <4> QED BY <4>1 DEF WaitInv, FinalFound
    <3> QED BY <3>1, <3>2
  <2> QED BY <2>4, <2>5
<1>4. \/ UNCHANGED spark_transaction
      \/ \E h \in SparkHash : handle_new_spark_tx(h)
      \/ SetStatus
  BY DEF Next, flowVars, sparkRows, send_spark_signature, SignatureFollows,
         freeze_tokens, handle_new_spark_txs_done, PassOn, handle_checked_spark_txs, handle_inv,
         check_spark_txs, check_spark_signatures, StoreSignature, ReadBack, SignaturesChecked,
         check_token_freezes, check_txs_full, check_spark_exit_proof, check_spark_exit_done,
         ExitConfirmed, handle_cleanup, Restart
<1> QED BY <1>1, <1>2, <1>3, <1>4

(* Messages that fit go on fitting.                                        *)
LEMMA FitsStays ==
  ASSUME StoredHashes \subseteq StoredHashes', NEW m
  PROVE  /\ FitsController(m) => FitsController(m)'
         /\ FitsChecker(m) => FitsChecker(m)'
<1>1. Seq(StoredHashes) \subseteq Seq(StoredHashes')
  <2>1. ASSUME NEW A, NEW B, A \subseteq B PROVE Seq(A) \subseteq Seq(B)
    BY SMT, <2>1
  <2> QED BY <2>1
<1>2. SUBSET StoredHashes \subseteq SUBSET StoredHashes'
  OBVIOUS
<1>3. FitsController(m) => FitsController(m)'
  BY <1>1, <1>2 DEF FitsController, Signatures, CheckedSparkTxs, FreezeTokens
<1>4. FitsChecker(m) => FitsChecker(m)'
  BY <1>1 DEF FitsChecker, Signatures, SparkCheck, FreezeTokens, FullCheck
<1> QED BY <1>3, <1>4

(* What comes new into a channel has to fit, too.                          *)
LEMMA FitAfter ==
  ASSUME MessagesFit, StoredHashes \subseteq StoredHashes',
         IsChannel(toController'), IsChannel(toChecker'),
         \A m \in Range(toController') : m \in Range(toController) \/ FitsController(m)',
         \A m \in Range(toChecker') : m \in Range(toChecker) \/ FitsChecker(m)'
  PROVE  MessagesFit'
<1>1. \A m \in Range(toController') : FitsController(m)'
  BY FitsStays DEF MessagesFit
<1>2. \A m \in Range(toChecker') : FitsChecker(m)'
  BY FitsStays DEF MessagesFit
<1> QED BY <1>1, <1>2 DEF MessagesFit

(* Requests and signatures fit wherever they come from.                    *)
LEMMA RequestsFit ==
  ASSUME NEW a, NEW from
  PROVE  /\ FitsController(NewSparkTxs(a, from))
         /\ FitsController(Signatures(a, from)) /\ FitsChecker(Signatures(a, from))
         /\ FitsController(FreezeTokens(a)) /\ FitsChecker(FreezeTokens(a))
         /\ FitsChecker(FullCheck(a))
<1>1. <<>> \in Seq(StoredHashes)
  <2>1. \A M : <<>> \in Seq(M)
    BY SMT
  <2> QED BY <2>1
<1>2. FitsController(NewSparkTxs(a, from))
  BY <1>1 DEF FitsController, NewSparkTxs
<1> QED BY <1>2 DEF FitsController, FitsChecker

(* What a peer answers fits.                                               *)
LEMMA AnswerFits ==
  ASSUME NEW txs, NEW open, NEW order
  PROVE  /\ IsChannel(handle_get_data(txs, open, order))
         /\ \A m \in Range(handle_get_data(txs, open, order)) :
              FitsController(m)
<1>1. PICK sigs : handle_get_data(txs, open, order)
        = (IF txs = <<>> THEN <<>> ELSE <<NewSparkTxs(txs, "peer")>>)
            \o (IF sigs = <<>> THEN <<>> ELSE <<Signatures(sigs, "peer")>>)
  BY DEF handle_get_data
<1> DEFINE a == IF txs = <<>> THEN <<>> ELSE <<NewSparkTxs(txs, "peer")>>
           c == IF sigs = <<>> THEN <<>> ELSE <<Signatures(sigs, "peer")>>
<1>2. IsChannel(a) /\ \A m \in Range(a) : FitsController(m)
  <2>1. IsChannel(<<>>) /\ Range(<<>>) = {}
    BY ShortChannel
  <2>2. /\ IsChannel(<<NewSparkTxs(txs, "peer")>>)
        /\ Range(<<NewSparkTxs(txs, "peer")>>) = {NewSparkTxs(txs, "peer")}
    BY ShortChannel
  <2>3. FitsController(NewSparkTxs(txs, "peer"))
    BY RequestsFit
  <2> QED BY <2>1, <2>2, <2>3
<1>3. IsChannel(c) /\ \A m \in Range(c) : FitsController(m)
  <2>1. IsChannel(<<>>) /\ Range(<<>>) = {}
    BY ShortChannel
  <2>2. /\ IsChannel(<<Signatures(sigs, "peer")>>)
        /\ Range(<<Signatures(sigs, "peer")>>) = {Signatures(sigs, "peer")}
    BY ShortChannel
  <2>3. FitsController(Signatures(sigs, "peer"))
    BY RequestsFit
  <2> QED BY <2>1, <2>2, <2>3
<1>4. handle_get_data(txs, open, order) = a \o c
  BY <1>1
<1> HIDE DEF a, c
<1> QED BY <1>2, <1>3, <1>4, ConcatChannel

(* The children of a batch are exits.                                      *)
LEMMA ChildrenFit ==
  ASSUME QueueFits, NEW parents
  PROVE  /\ IsChannel(ForChildren(ChildrenOf(spark_queue, parents)))
         /\ \A m \in Range(ForChildren(ChildrenOf(spark_queue, parents))) : \E e : m = FullCheck(e)
<1> DEFINE ch == ChildrenOf(spark_queue, parents)
           tx == {c.tx : c \in {d \in ch : d.kind = "TokenTx"}}
           ex == InSomeOrder({c.tx : c \in {d \in ch : d.kind = "ExitTx"}})
           a == IF ex = <<>> THEN <<>> ELSE <<FullCheck(ex)>>
           c == IF InSomeOrder(tx) = <<>> THEN <<>> ELSE <<SparkCheck(InSomeOrder(tx), None)>>
<1>1. \A d \in ch : d.kind = "ExitTx"
  BY DEF ChildrenOf, QueueFits
<1>2. tx = {}
  <2>1. \A d \in ch : d.kind # "TokenTx"
    <3> HIDE DEF ch
    <3> QED BY <1>1
  <2> HIDE DEF ch
  <2> QED BY <2>1
<1>3. InSomeOrder({}) = <<>>
  <2>1. Cardinality({}) = 0
    BY FS_EmptySet
  <2>2. [1 .. 0 -> {}] = {<<>>}
    <3>1. ASSUME NEW f \in [1 .. 0 -> {}] PROVE f = <<>>
      <4>1. f \in Seq({}) /\ Len(f) = 0
        BY SMT
      <4> QED BY SMT, <4>1
    <3>2. <<>> \in [1 .. 0 -> {}]
      <4>1. DOMAIN <<>> = {} /\ 1 .. 0 = {}
        BY SMT
      <4> QED BY SMT, <4>1
    <3> QED BY <3>1, <3>2
  <2>3. IsInjective(<<>>)
    <3>1. DOMAIN <<>> = {}
      BY SMT
    <3> QED BY <3>1 DEF IsInjective
  <2>4. <<>> \in Bijection(1 .. 0, {})
    BY <2>2, <2>3 DEF Bijection, Injection, Surjection
  <2>5. Bijection(1 .. 0, {}) \subseteq {<<>>}
    BY <2>2 DEF Bijection, Injection
  <2>6. InSomeOrder({}) \in Bijection(1 .. 0, {})
    BY <2>1, <2>4 DEF InSomeOrder
  <2> QED BY <2>5, <2>6
<1>4. ForChildren(ch) = a \o c
  BY DEF ForChildren
<1>5. c = <<>>
  <2> HIDE DEF tx
  <2> QED BY <1>2, <1>3
<1>6. IsChannel(a) /\ \A m \in Range(a) : \E e : m = FullCheck(e)
  <2>1. IsChannel(<<>>) /\ Range(<<>>) = {}
    BY ShortChannel
  <2>2. IsChannel(<<FullCheck(ex)>>) /\ Range(<<FullCheck(ex)>>) = {FullCheck(ex)}
    BY ShortChannel
  <2> HIDE DEF ex
  <2> QED BY <2>1, <2>2
<1>7. IsChannel(c) /\ Range(c) = {}
  <2> HIDE DEF c
  <2> QED BY <1>5, ShortChannel
<1>8. IsChannel(a \o c) /\ Range(a \o c) = Range(a) \cup Range(c)
  <2> HIDE DEF a, c
  <2> QED BY <1>6, <1>7, ConcatChannel
<1> QED
  <2> HIDE DEF a, c, ch
  <2>1. IsChannel(ForChildren(ch)) /\ \A m \in Range(ForChildren(ch)) : \E e : m = FullCheck(e)
    BY <1>4, <1>6, <1>7, <1>8
  <2> QED BY <2>1 DEF ch

-----------------------------------------------------------------------------
(* Operators are answered.                                                 *)

(* The operator waits for an answer.                                       *)
Asks(o) == calls[o].stage \in {"tx", "signature"}

(* A message that will be answered to o.                                   *)
IsFrom(m, o) == m.type \in {"NewSparkTxs", "Signatures", "SparkCheck"} /\ m.from = o

(* Somebody will answer o: a message that is on its way, or the job of the *)
(* checker.                                                                *)
AnswerComing(o) ==
  \/ \E m \in Range(toController) \cup Range(toChecker) : IsFrom(m, o)
  \/ SignatureJob /\ job.from = o

CallsFit ==
  /\ DOMAIN calls = Operator
  /\ \A o \in Operator : calls[o] = NoCall \/ \E st, sig : calls[o] = [stage |-> st, sig |-> sig]

CallsInv == CallsFit /\ \A o \in Operator : Asks(o) => AnswerComing(o)

(* An answer, whatever it says, is the end of the wait.                    *)
LEMMA ReplyEnds ==
  ASSUME CallsFit, NEW from, NEW answer, calls' = Reply(from, answer)
  PROVE  CallsFit' /\ \A o \in Operator : Asks(o)' => Asks(o) /\ o # from
<1>1. CASE from \in Operator /\ calls[from].stage \in {"tx", "signature"}
  <2>1. PICK st, sig : calls[from] = [stage |-> st, sig |-> sig]
    <3>1. calls[from] # NoCall
      BY SMT, <1>1 DEF NoCall
    <3> QED BY <1>1, <3>1 DEF CallsFit
  <2> DEFINE new == IF answer /\ calls[from].stage = "tx"
                    THEN [calls[from] EXCEPT !.stage = "valid"] ELSE NoCall
  <2>2. calls' = [calls EXCEPT ![from] = new]
    BY <1>1 DEF Reply
  <2>3. new = NoCall \/ new = [stage |-> "valid", sig |-> sig]
    <3>1. [calls[from] EXCEPT !.stage = "valid"] = [stage |-> "valid", sig |-> sig]
      BY SMT, <2>1
    <3> QED BY <3>1
  <2>4. new.stage \notin {"tx", "signature"}
    <3> HIDE DEF new
    <3> QED BY SMT, <2>3 DEF NoCall
  <2> HIDE DEF new
  <2>5. /\ DOMAIN calls' = Operator /\ calls'[from] = new
        /\ \A o \in Operator : o # from => calls'[o] = calls[o]
    BY <1>1, <2>2 DEF CallsFit
  <2>6. \A o \in Operator : calls'[o] = NoCall \/ \E x, y : calls'[o] = [stage |-> x, sig |-> y]
    BY <2>3, <2>5 DEF CallsFit
  <2>7. \A o \in Operator : Asks(o)' => Asks(o) /\ o # from
    BY <2>4, <2>5 DEF Asks
  <2> QED BY <2>5, <2>6, <2>7 DEF CallsFit
<1>2. CASE ~(from \in Operator /\ calls[from].stage \in {"tx", "signature"})
  <2>1. calls' = calls
    BY <1>2 DEF Reply
  <2> QED BY <1>2, <2>1 DEF CallsFit, Asks
<1> QED BY <1>1, <1>2

(* A message for the controller.                                           *)
LEMMA ToControllerStep ==
  ASSUME WaitInv, CallsInv, StoredHashes \subseteq StoredHashes',
         NEW m, FitsController(m), toController' = Append(toController, m),
         toChecker' = toChecker, job' = job, CallsFit',
         \A o \in Operator : Asks(o)' => Asks(o) \/ IsFrom(m, o)
  PROVE  MessagesFit' /\ CallsInv'
<1>1. MessagesFit /\ IsChannel(toController) /\ IsChannel(toChecker)
  BY DEF WaitInv, MessagesFit
<1>2. IsChannel(toController') /\ Range(toController') = Range(toController) \cup {m}
  BY <1>1, AppendChannel
<1>3. FitsController(m)'
  BY FitsStays
<1>4. MessagesFit'
  BY <1>1, <1>2, <1>3, FitAfter
<1>5. ASSUME NEW o \in Operator, Asks(o)' PROVE AnswerComing(o)'
  <2>1. CASE IsFrom(m, o)
    BY <1>2, <2>1 DEF AnswerComing
  <2>2. CASE Asks(o)
    <3>1. AnswerComing(o)
      BY <2>2 DEF CallsInv
    <3> QED BY <1>2, <3>1 DEF AnswerComing, SignatureJob
  <2> QED BY <1>5, <2>1, <2>2
<1> QED BY <1>4, <1>5 DEF CallsInv

(* An operator that has asked has a message on its way.                    *)
LEMMA AskStep ==
  ASSUME CallsFit, NEW o \in Operator, NEW st, NEW sig,
         calls' = [calls EXCEPT ![o] = [stage |-> st, sig |-> sig]]
  PROVE  CallsFit' /\ \A p \in Operator : Asks(p)' => Asks(p) \/ p = o
<1>1. /\ DOMAIN calls' = Operator /\ calls'[o] = [stage |-> st, sig |-> sig]
      /\ \A p \in Operator : p # o => calls'[p] = calls[p]
  BY DEF CallsFit
<1>2. CallsFit'
  <2>1. ASSUME NEW p \in Operator
        PROVE  calls'[p] = NoCall \/ \E u, v : calls'[p] = [stage |-> u, sig |-> v]
    <3>1. CASE p = o
      <4>1. calls'[p] = [stage |-> st, sig |-> sig]
        BY <1>1, <3>1
      <4> QED BY <4>1
    <3>2. CASE p # o
      <4>1. calls'[p] = calls[p]
        BY <1>1, <3>2
      <4>2. calls[p] = NoCall \/ \E u, v : calls[p] = [stage |-> u, sig |-> v]
        BY DEF CallsFit
      <4> QED BY <4>1, <4>2
    <3> QED BY <3>1, <3>2
  <2> QED BY <1>1, <2>1 DEF CallsFit
<1> QED BY <1>1, <1>2 DEF Asks

(* send_spark_signature.                                                   *)
LEMMA SendStep ==
  ASSUME WaitInv, CallsInv, StoredHashes \subseteq StoredHashes',
         NEW h \in SparkHash, NEW o \in Operator, NEW s \in BOOLEAN, send_spark_signature(h, o, s)
  PROVE  MessagesFit' /\ CallsInv'
<1>1. toChecker' = toChecker /\ job' = job
  BY DEF send_spark_signature
<1>2. CASE UNCHANGED <<toController, calls>>
  <2>1. toController' = toController /\ calls' = calls
    BY <1>2
  <2>2. MessagesFit'
    BY <1>1, <2>1, FitAfter DEF WaitInv, MessagesFit
  <2>3. \A p \in Operator : (Asks(p)' <=> Asks(p)) /\ (AnswerComing(p)' <=> AnswerComing(p))
    BY <1>1, <2>1 DEF Asks, AnswerComing, SignatureJob
  <2>4. CallsFit'
    BY <2>1 DEF CallsInv, CallsFit
  <2> QED BY <2>2, <2>3, <2>4 DEF CallsInv
<1>3. CASE ~UNCHANGED <<toController, calls>>
  <2> DEFINE g == Signature(h, o, s)
             a == Signatures(<<g>>, o)
             c == NewSparkTxs(<<h>>, o)
  <2>1. CASE Found(h)
    <3>1. toController' = Append(toController, a)
      BY <1>3, <2>1 DEF send_spark_signature
    <3>2. calls' = [calls EXCEPT ![o] = [stage |-> "signature", sig |-> g]]
      BY <1>3, <2>1 DEF send_spark_signature
    <3>3. FitsController(a) /\ IsFrom(a, o)
      BY RequestsFit DEF IsFrom, Signatures
    <3> HIDE DEF a, g
    <3>4. CallsFit' /\ \A p \in Operator : Asks(p)' => Asks(p) \/ p = o
      BY <3>2, AskStep DEF CallsInv
    <3> QED BY <1>1, <3>1, <3>3, <3>4, ToControllerStep
  <2>2. CASE ~Found(h)
    <3>1. toController' = Append(toController, c)
      BY <1>3, <2>2 DEF send_spark_signature
    <3>2. calls' = [calls EXCEPT ![o] = [stage |-> "tx", sig |-> g]]
      BY <1>3, <2>2 DEF send_spark_signature
    <3>3. FitsController(c) /\ IsFrom(c, o)
      BY RequestsFit DEF IsFrom, NewSparkTxs
    <3> HIDE DEF c, g
    <3>4. CallsFit' /\ \A p \in Operator : Asks(p)' => Asks(p) \/ p = o
      BY <3>2, AskStep DEF CallsInv
    <3> QED BY <1>1, <3>1, <3>3, <3>4, ToControllerStep
  <2> QED BY <2>1, <2>2
<1> QED BY <1>2, <1>3

(* The second half of send_spark_signature.                                *)
LEMMA FollowStep ==
  ASSUME WaitInv, CallsInv, StoredHashes \subseteq StoredHashes',
         NEW o \in Operator, SignatureFollows(o)
  PROVE  MessagesFit' /\ CallsInv'
<1>1. PICK m : m = Signatures(<<calls[o].sig>>, o)
  OBVIOUS
<1>2. /\ toChecker' = toChecker /\ job' = job /\ calls[o].stage = "valid"
      /\ toController' = Append(toController, m)
      /\ calls' = [calls EXCEPT ![o] = [calls[o] EXCEPT !.stage = "signature"]]
  BY <1>1 DEF SignatureFollows
<1>3. PICK sig : [calls[o] EXCEPT !.stage = "signature"] = [stage |-> "signature", sig |-> sig]
  <2>1. calls[o] # NoCall
    BY SMT, <1>2 DEF NoCall
  <2>2. PICK st, sig : calls[o] = [stage |-> st, sig |-> sig]
    BY <2>1 DEF CallsInv, CallsFit
  <2>3. [calls[o] EXCEPT !.stage = "signature"] = [stage |-> "signature", sig |-> sig]
    BY SMT, <2>2
  <2> QED BY <2>3
<1>4. calls' = [calls EXCEPT ![o] = [stage |-> "signature", sig |-> sig]]
  BY <1>2, <1>3
<1>5. CallsFit' /\ \A p \in Operator : Asks(p)' => Asks(p) \/ p = o
  BY <1>4, AskStep DEF CallsInv
<1>6. FitsController(m) /\ IsFrom(m, o)
  BY <1>1, RequestsFit DEF IsFrom, Signatures
<1> QED BY <1>2, <1>5, <1>6, ToControllerStep

(* What is left to show of a step that starts no wait.                     *)
LEMMA FlowAfter ==
  ASSUME WaitInv, CallsInv, StoredHashes \subseteq StoredHashes',
         IsChannel(toController'), IsChannel(toChecker'),
         \A m \in Range(toController') : m \in Range(toController) \/ FitsController(m)',
         \A m \in Range(toChecker') : m \in Range(toChecker) \/ FitsChecker(m)',
         CallsFit', \A o \in Operator : Asks(o)' => Asks(o),
         \A o \in Operator : Asks(o)' /\ AnswerComing(o) => AnswerComing(o)'
  PROVE  MessagesFit' /\ CallsInv'
<1>1. MessagesFit'
  BY FitAfter DEF WaitInv
<1> QED BY <1>1 DEF CallsInv

(* The waits stay as they are.                                             *)
LEMMA CallsRest ==
  ASSUME CallsInv, calls' = calls
  PROVE  CallsFit' /\ \A o \in Operator : Asks(o)' <=> Asks(o)
BY DEF CallsInv, CallsFit, Asks

(* The steps that change neither channels nor requests, and leave the      *)
(* signatures that are checked to be answered.                             *)
LEMMA QuietStep ==
  ASSUME WaitInv, CallsInv, StoredHashes \subseteq StoredHashes',
         toController' = toController, toChecker' = toChecker, calls' = calls,
         SignatureJob => SignatureJob' /\ job'.from = job.from
  PROVE  MessagesFit' /\ CallsInv'
<1>1. IsChannel(toController) /\ IsChannel(toChecker)
  BY DEF WaitInv, MessagesFit
<1>2. \A o \in Operator : AnswerComing(o) => AnswerComing(o)'
  BY DEF AnswerComing
<1>3. CallsFit' /\ \A o \in Operator : Asks(o)' <=> Asks(o)
  BY CallsRest
<1> QED BY <1>1, <1>2, <1>3, FlowAfter

(* One turn of the loop of handle_new_spark_txs.                           *)
LEMMA NewTxStep ==
  ASSUME WaitInv, CallsInv, StoredHashes \subseteq StoredHashes', SparkInv,
         NEW h \in SparkHash, handle_new_spark_tx(h)
  PROVE  MessagesFit' /\ CallsInv'
<1>1. /\ toController # <<>> /\ Head(toController).type = "NewSparkTxs"
      /\ toChecker' = toChecker /\ job' = job
  BY DEF handle_new_spark_tx, IsNext
<1>2. /\ IsChannel(toController) /\ IsChannel(toChecker)
      /\ IsChannel(Tail(toController))
      /\ Range(toController) = {Head(toController)} \cup Range(Tail(toController))
  BY <1>1, TailChannel DEF WaitInv, MessagesFit
<1>3. FitsController(Head(toController))
  BY <1>2 DEF WaitInv, MessagesFit
<1>4. PICK txs, new, from :
        /\ Head(toController) = [type |-> "NewSparkTxs", txs |-> txs, new |-> new, from |-> from]
        /\ new \in Seq(StoredHashes)
  <2>1. \A sigs, f : Head(toController) # Signatures(sigs, f)
    BY SMT, <1>1 DEF Signatures
  <2>2. \A S : Head(toController) # CheckedSparkTxs(S)
    BY SMT, <1>1 DEF CheckedSparkTxs
  <2>3. \A r : Head(toController) # FreezeTokens(r)
    BY SMT, <1>1 DEF FreezeTokens
  <2> QED BY <1>3, <2>1, <2>2, <2>3 DEF FitsController
<1>5. ASSUME NEW m, NEW n \in Seq(StoredHashes'), NEW t,
             m = [type |-> "NewSparkTxs", txs |-> t, new |-> n, from |-> from],
             toController' = <<m>> \o Tail(toController), calls' = calls
      PROVE  MessagesFit' /\ CallsInv'
  <2>1. IsChannel(<<m>>) /\ Range(<<m>>) = {m}
    BY ShortChannel
  <2>2. IsChannel(toController') /\ Range(toController') = {m} \cup Range(Tail(toController))
    BY <1>2, <1>5, <2>1, ConcatChannel
  <2>3. FitsController(m)'
    BY <1>5 DEF FitsController
  <2>4. \A o : IsFrom(Head(toController), o) => IsFrom(m, o)
    BY SMT, <1>4, <1>5 DEF IsFrom
  <2>5. \A o \in Operator : AnswerComing(o) => AnswerComing(o)'
    BY <1>1, <1>2, <2>2, <2>4 DEF AnswerComing, SignatureJob
  <2>6. CallsFit' /\ \A o \in Operator : Asks(o)' <=> Asks(o)
    BY <1>5, CallsRest
  <2>7. \A m1 \in Range(toController') : m1 \in Range(toController) \/ FitsController(m1)'
    BY <1>2, <2>2, <2>3
  <2>8. \A m1 \in Range(toChecker') : m1 \in Range(toChecker) \/ FitsChecker(m1)'
    BY <1>1
  <2> QED BY <1>1, <1>2, <2>2, <2>5, <2>6, <2>7, <2>8, FlowAfter
<1>6. Seq(StoredHashes) \subseteq Seq(StoredHashes')
  <2>1. ASSUME NEW A, NEW B, A \subseteq B PROVE Seq(A) \subseteq Seq(B)
    BY SMT, <2>1
  <2> QED BY <2>1
<1>7. PICK rest : rest = [Head(toController) EXCEPT !.txs = Tail(@)]
  OBVIOUS
<1>8. rest = [type |-> "NewSparkTxs", txs |-> Tail(txs), new |-> new, from |-> from]
  <2> DEFINE hd == Head(toController)
  <2> HIDE DEF hd
  <2>1. hd = [type |-> "NewSparkTxs", txs |-> txs, new |-> new, from |-> from]
    BY <1>4 DEF hd
  <2>2. hd.txs = txs /\ \A x : [hd EXCEPT !.txs = x]
                        = [type |-> "NewSparkTxs", txs |-> x, new |-> new, from |-> from]
    BY SMT, <2>1
  <2>3. rest = [hd EXCEPT !.txs = Tail(hd.txs)]
    BY <1>7 DEF hd
  <2> QED BY <2>2, <2>3
<1>9. CASE HasRow(h)
  <2>1. toController' = <<rest>> \o Tail(toController) /\ calls' = calls
    BY <1>7, <1>9 DEF handle_new_spark_tx
  <2> QED BY <1>4, <1>5, <1>6, <1>8, <2>1
<1>10. CASE ~HasRow(h) /\ Insertable(h)
  <2>1. /\ toController' = <<[rest EXCEPT !.new = Append(@, h)]>> \o Tail(toController)
        /\ calls' = calls /\ insert_spark_transaction(h)
    BY <1>7, <1>10 DEF handle_new_spark_tx
  <2>2. [rest EXCEPT !.new = Append(@, h)]
          = [type |-> "NewSparkTxs", txs |-> Tail(txs), new |-> Append(new, h), from |-> from]
    <3> DEFINE tl == Tail(txs)
    <3> HIDE DEF tl
    <3>0. rest = [type |-> "NewSparkTxs", txs |-> tl, new |-> new, from |-> from]
      BY <1>8 DEF tl
    <3>1. rest.new = new /\ \A x : [rest EXCEPT !.new = x]
                        = [type |-> "NewSparkTxs", txs |-> tl, new |-> x, from |-> from]
      BY SMT, <3>0
    <3>2. [rest EXCEPT !.new = Append(@, h)] = [rest EXCEPT !.new = Append(rest.new, h)]
      OBVIOUS
    <3> QED BY <3>1, <3>2 DEF tl
  <2>3. h \in StoredHashes'
    <3>1. spark_transaction'[h] = "Started"
      BY <2>1 DEF insert_spark_transaction, SparkInv, RowsFit
    <3>2. "Started" # NoRow
      BY SparkAssumption DEF SparkStatus
    <3> QED BY <3>1, <3>2 DEF StoredHashes, HasRow
  <2>4. Append(new, h) \in Seq(StoredHashes')
    <3>1. new \in Seq(StoredHashes')
      BY <1>4, <1>6
    <3>2. ASSUME NEW S, NEW s \in Seq(S), NEW x \in S PROVE Append(s, x) \in Seq(S)
      BY SMT
    <3> QED BY <2>3, <3>1, <3>2
  <2> QED BY <1>5, <2>1, <2>2, <2>4
<1>11. CASE ~HasRow(h) /\ ~Insertable(h)
  <2>1. toController' = Tail(toController) /\ calls' = Reply(Head(toController).from, FALSE)
    BY <1>11 DEF handle_new_spark_tx
  <2>2. CallsFit' /\ \A o \in Operator : Asks(o)' => Asks(o) /\ o # Head(toController).from
    BY <2>1, ReplyEnds DEF CallsInv
  <2>3. \A o \in Operator : Asks(o)' /\ AnswerComing(o) => AnswerComing(o)'
    BY <1>1, <1>2, <2>1, <2>2 DEF AnswerComing, SignatureJob, IsFrom
  <2> QED BY <1>1, <1>2, <2>1, <2>2, <2>3, FlowAfter
<1> QED BY <1>9, <1>10, <1>11

(* The head of the controller's channel goes to the checker, as the        *)
(* message n.                                                              *)
LEMMA PassStep ==
  ASSUME WaitInv, CallsInv, StoredHashes \subseteq StoredHashes',
         toController # <<>>, toController' = Tail(toController), NEW n,
         toChecker' = Append(toChecker, n), FitsChecker(n), calls' = calls, job' = job,
         \A o : IsFrom(Head(toController), o) => IsFrom(n, o)
  PROVE  MessagesFit' /\ CallsInv'
<1>1. /\ IsChannel(toController) /\ IsChannel(toChecker)
      /\ IsChannel(Tail(toController))
      /\ Range(toController) = {Head(toController)} \cup Range(Tail(toController))
  BY TailChannel DEF WaitInv, MessagesFit
<1>2. IsChannel(toChecker') /\ Range(toChecker') = Range(toChecker) \cup {n}
  BY <1>1, AppendChannel
<1>3. FitsChecker(n)'
  BY FitsStays
<1>4. CallsFit' /\ \A o \in Operator : Asks(o)' <=> Asks(o)
  BY CallsRest
<1>5. \A o \in Operator : AnswerComing(o) => AnswerComing(o)'
  BY <1>1, <1>2 DEF AnswerComing, SignatureJob
<1> QED BY <1>1, <1>2, <1>3, <1>4, <1>5, FlowAfter

(* The controller's other handlers.                                        *)
LEMMA ControllerSteps ==
  ASSUME WaitInv, CallsInv, StoredHashes \subseteq StoredHashes',
         handle_new_spark_txs_done \/ PassOn \/ handle_checked_spark_txs
  PROVE  MessagesFit' /\ CallsInv'
<1>0. /\ toController # <<>> /\ toController' = Tail(toController) /\ calls' = calls /\ job' = job
  BY DEF handle_new_spark_txs_done, PassOn, handle_checked_spark_txs, IsNext
<1>1. /\ IsChannel(toController) /\ IsChannel(toChecker)
      /\ IsChannel(Tail(toController))
      /\ Range(toController) = {Head(toController)} \cup Range(Tail(toController))
  BY <1>0, TailChannel DEF WaitInv, MessagesFit
<1>2. FitsController(Head(toController))
  BY <1>1 DEF WaitInv, MessagesFit
<1>3. CASE handle_new_spark_txs_done
  <2>1. Head(toController).type = "NewSparkTxs"
    BY <1>3 DEF handle_new_spark_txs_done, IsNext
  <2>2. PICK n : n = SparkCheck(Head(toController).new, Head(toController).from)
    OBVIOUS
  <2>3. toChecker' = Append(toChecker, n)
    BY <1>3, <2>2 DEF handle_new_spark_txs_done
  <2>4. Head(toController).new \in Seq(StoredHashes)
    <3>1. \A sigs, f : Head(toController) # Signatures(sigs, f)
      BY SMT, <2>1 DEF Signatures
    <3>2. \A S : Head(toController) # CheckedSparkTxs(S)
      BY SMT, <2>1 DEF CheckedSparkTxs
    <3>3. \A r : Head(toController) # FreezeTokens(r)
      BY SMT, <2>1 DEF FreezeTokens
    <3>4. PICK txs, new, from :
            /\ Head(toController) = [type |-> "NewSparkTxs", txs |-> txs, new |-> new, from |-> from]
            /\ new \in Seq(StoredHashes)
      BY <1>2, <3>1, <3>2, <3>3 DEF FitsController
    <3>5. Head(toController).new = new
      BY SMT, <3>4
    <3> QED BY <3>4, <3>5
  <2>5. FitsChecker(n)
    BY <2>2, <2>4 DEF FitsChecker
  <2>6. \A o : IsFrom(Head(toController), o) => IsFrom(n, o)
    BY <2>2 DEF IsFrom, SparkCheck
  <2> QED BY <1>0, <2>3, <2>5, <2>6, PassStep
<1>4. CASE PassOn
  <2>1. Head(toController).type \in {"Signatures", "FreezeTokens"}
    BY <1>4 DEF PassOn, IsNext
  <2>2. PICK n : n = Head(toController)
    OBVIOUS
  <2>3. toChecker' = Append(toChecker, n)
    BY <1>4, <2>2 DEF PassOn
  <2>4. FitsChecker(n)
    <3>1. \A t, w, f : n # [type |-> "NewSparkTxs", txs |-> t, new |-> w, from |-> f]
      BY SMT, <2>1, <2>2
    <3>2. \A S : n # CheckedSparkTxs(S)
      BY SMT, <2>1, <2>2 DEF CheckedSparkTxs
    <3> QED BY <1>2, <2>2, <3>1, <3>2 DEF FitsController, FitsChecker
  <2> QED BY <1>0, <2>2, <2>3, <2>4, PassStep
<1>5. CASE handle_checked_spark_txs
  <2>1. Head(toController).type = "CheckedSparkTxs" /\ toChecker' = toChecker
    BY <1>5 DEF handle_checked_spark_txs, IsNext
  <2>2. \A o : ~IsFrom(Head(toController), o)
    BY <2>1 DEF IsFrom
  <2>3. CallsFit' /\ \A o \in Operator : Asks(o)' <=> Asks(o)
    BY <1>0, CallsRest
  <2>4. \A o \in Operator : AnswerComing(o) => AnswerComing(o)'
    BY <1>0, <1>1, <2>1, <2>2 DEF AnswerComing, SignatureJob
  <2> QED BY <1>0, <1>1, <2>1, <2>3, <2>4, FlowAfter
<1> QED BY <1>3, <1>4, <1>5

(* The checker takes the head of its channel.                              *)
LEMMA CheckerHead ==
  ASSUME WaitInv, NEW type, CheckerTakes(type)
  PROVE  /\ toChecker # <<>> /\ Head(toChecker).type = type /\ ~SignatureJob
         /\ IsChannel(toController) /\ IsChannel(toChecker) /\ IsChannel(Tail(toChecker))
         /\ Range(toChecker) = {Head(toChecker)} \cup Range(Tail(toChecker))
         /\ FitsChecker(Head(toChecker))
<1>1. toChecker # <<>> /\ Head(toChecker).type = type /\ job = NoJob
  BY DEF CheckerTakes, IsNext
<1>2. ~SignatureJob
  BY <1>1 DEF SignatureJob, NoJob
<1>3. /\ IsChannel(toController) /\ IsChannel(toChecker) /\ IsChannel(Tail(toChecker))
      /\ Range(toChecker) = {Head(toChecker)} \cup Range(Tail(toChecker))
  BY <1>1, TailChannel DEF WaitInv, MessagesFit
<1>4. FitsChecker(Head(toChecker))
  BY <1>3 DEF WaitInv, MessagesFit
<1> QED BY <1>1, <1>2, <1>3, <1>4

(* check_spark_txs: the batch is of stored transactions, so the queue      *)
(* stays, and the children are exits.                                      *)
LEMMA CheckTxsStep ==
  ASSUME WaitInv, CallsInv, StoredHashes \subseteq StoredHashes', check_spark_txs
  PROVE  MessagesFit' /\ CallsInv'
<1>1. CheckerTakes("SparkCheck")
  BY DEF check_spark_txs
<1>2. /\ toChecker # <<>> /\ Head(toChecker).type = "SparkCheck" /\ ~SignatureJob
      /\ IsChannel(toController) /\ IsChannel(toChecker) /\ IsChannel(Tail(toChecker))
      /\ Range(toChecker) = {Head(toChecker)} \cup Range(Tail(toChecker))
      /\ FitsChecker(Head(toChecker))
  BY <1>1, CheckerHead
<1>3. Head(toChecker).txs \in Seq(StoredHashes)
  <2>1. \A sigs, f : Head(toChecker) # Signatures(sigs, f)
    BY SMT, <1>2 DEF Signatures
  <2>2. \A e : Head(toChecker) # FullCheck(e)
    BY SMT, <1>2 DEF FullCheck
  <2>3. \A r : Head(toChecker) # FreezeTokens(r)
    BY SMT, <1>2 DEF FreezeTokens
  <2>4. PICK txs, from : Head(toChecker) = SparkCheck(txs, from) /\ txs \in Seq(StoredHashes)
    BY <1>2, <2>1, <2>2, <2>3 DEF FitsChecker
  <2>5. Head(toChecker).txs = txs
    BY SMT, <2>4 DEF SparkCheck
  <2> QED BY <2>4, <2>5
<1> DEFINE b == CheckBatch(Head(toChecker).txs)
           ask == SelectSeq(PeerCreated, LAMBDA h : h \in b.missing)
<1>5. b.queue = spark_queue /\ b.checked \subseteq StoredHashes
  BY <1>3, StoredBatch DEF WaitInv, StoredHashes
<1> DEFINE more == ForChildren(ChildrenOf(spark_queue, b.checked))
           p == IF b.checked = {} THEN <<>> ELSE <<CheckedSparkTxs(b.checked)>>
           q == IF Head(toChecker).from # "peer" \/ ask = <<>> THEN <<>>
                ELSE <<NewSparkTxs(ask, "peer")>>
<1>7. /\ calls' = Reply(Head(toChecker).from, b.invalid = {})
      /\ toChecker' = Tail(toChecker) \o more
      /\ toController' = toController \o p \o q
      /\ job' = job
  <2>1. toChecker' = Tail(toChecker) \o ForChildren(ChildrenOf(b.queue, b.checked))
    BY DEF check_spark_txs
  <2>2. toController' = toController \o p \o q
    BY DEF check_spark_txs
  <2>3. calls' = Reply(Head(toChecker).from, b.invalid = {}) /\ job' = job
    BY DEF check_spark_txs
  <2> HIDE DEF b
  <2> QED BY <1>5, <2>1, <2>2, <2>3
<1> HIDE DEF ask, b
<1>8. IsChannel(more) /\ \A m \in Range(more) : FitsChecker(m)
  <2>1. IsChannel(more) /\ \A m \in Range(more) : \E e : m = FullCheck(e)
    BY ChildrenFit DEF WaitInv
  <2> HIDE DEF more
  <2> QED BY <2>1 DEF FitsChecker
<1>9. IsChannel(p) /\ \A m \in Range(p) : FitsController(m)
  <2>1. IsChannel(<<>>) /\ Range(<<>>) = {}
    BY ShortChannel
  <2>2. PICK m : m = CheckedSparkTxs(b.checked)
    OBVIOUS
  <2>3. IsChannel(<<m>>) /\ Range(<<m>>) = {m}
    BY ShortChannel
  <2>4. FitsController(m)
    BY <1>5, <2>2 DEF FitsController
  <2>5. p = <<>> \/ p = <<m>>
    BY <2>2
  <2> HIDE DEF p
  <2> QED BY <2>1, <2>3, <2>4, <2>5
<1>10. IsChannel(q) /\ \A m \in Range(q) : FitsController(m)
  <2>1. IsChannel(<<>>) /\ Range(<<>>) = {}
    BY ShortChannel
  <2>2. PICK m : m = NewSparkTxs(ask, "peer")
    OBVIOUS
  <2>3. IsChannel(<<m>>) /\ Range(<<m>>) = {m}
    BY ShortChannel
  <2>4. FitsController(m)
    BY <2>2, RequestsFit
  <2>5. q = <<>> \/ q = <<m>>
    BY <2>2
  <2> HIDE DEF q
  <2> QED BY <2>1, <2>3, <2>4, <2>5
<1> HIDE DEF more, p, q
<1>11. IsChannel(toChecker') /\ Range(toChecker') = Range(Tail(toChecker)) \cup Range(more)
  BY <1>2, <1>7, <1>8, ConcatChannel
<1>12. /\ IsChannel(toController')
       /\ Range(toController') = (Range(toController) \cup Range(p)) \cup Range(q)
  <2>1. /\ IsChannel(toController \o p)
        /\ Range(toController \o p) = Range(toController) \cup Range(p)
    BY <1>2, <1>9, ConcatChannel
  <2>2. /\ IsChannel((toController \o p) \o q)
        /\ Range((toController \o p) \o q) = Range(toController \o p) \cup Range(q)
    BY <2>1, <1>10, ConcatChannel
  <2> QED BY <1>7, <2>1, <2>2
<1>13. CallsFit' /\ \A o \in Operator : Asks(o)' => Asks(o) /\ o # Head(toChecker).from
  BY <1>7, ReplyEnds DEF CallsInv
<1>14. \A o \in Operator : Asks(o)' /\ AnswerComing(o) => AnswerComing(o)'
  BY <1>2, <1>7, <1>11, <1>12, <1>13 DEF AnswerComing, IsFrom
<1>15. \A m \in Range(toController') : m \in Range(toController) \/ FitsController(m)'
  BY <1>9, <1>10, <1>12, FitsStays
<1>16. \A m \in Range(toChecker') : m \in Range(toChecker) \/ FitsChecker(m)'
  BY <1>2, <1>8, <1>11, FitsStays
<1> QED BY <1>11, <1>12, <1>13, <1>14, <1>15, <1>16, FlowAfter

(* check_spark_signatures takes its message, which its job answers.        *)
LEMMA CheckSignaturesStep ==
  ASSUME WaitInv, CallsInv, StoredHashes \subseteq StoredHashes', check_spark_signatures
  PROVE  MessagesFit' /\ CallsInv'
<1>1. CheckerTakes("Signatures")
  BY DEF check_spark_signatures
<1>2. /\ toChecker # <<>> /\ Head(toChecker).type = "Signatures" /\ ~SignatureJob
      /\ IsChannel(toController) /\ IsChannel(toChecker) /\ IsChannel(Tail(toChecker))
      /\ Range(toChecker) = {Head(toChecker)} \cup Range(Tail(toChecker))
      /\ FitsChecker(Head(toChecker))
  BY <1>1, CheckerHead
<1>3. toChecker' = Tail(toChecker) /\ toController' = toController /\ calls' = calls
  BY DEF check_spark_signatures
<1>4. SignatureJob' /\ job'.from = Head(toChecker).from
  BY DEF check_spark_signatures, SignatureJob
<1>5. CallsFit' /\ \A o \in Operator : Asks(o)' <=> Asks(o)
  BY <1>3, CallsRest
<1>6. \A o \in Operator : AnswerComing(o) => AnswerComing(o)'
  BY <1>2, <1>3, <1>4 DEF AnswerComing, IsFrom
<1> QED BY <1>2, <1>3, <1>5, <1>6, FlowAfter

(* The steps of check_spark_signatures.                                    *)
LEMMA SignatureSteps ==
  ASSUME SparkInv, WaitInv, CallsInv, StoredHashes \subseteq StoredHashes',
         StoreSignature \/ ReadBack \/ SetStatus
  PROVE  MessagesFit' /\ CallsInv'
<1>1. /\ job.stage \in {"store", "read", "status"}
      /\ toController' = toController /\ toChecker' = toChecker
  BY DEF StoreSignature, ReadBack, SetStatus, queues
<1>2. job = [x \in DOMAIN job |-> job[x]] /\ DOMAIN job = SigFields
  BY <1>1 DEF SparkInv, JobFits
<1>3. SignatureJob' /\ job'.from = job.from
  <2>1. CASE StoreSignature
    BY <1>2, <2>1 DEF StoreSignature, SignatureJob, SigFields
  <2>2. CASE ReadBack
    BY <1>2, <2>2 DEF ReadBack, SignatureJob, SigFields
  <2>3. CASE SetStatus
    BY <1>2, <2>3 DEF SetStatus, SignatureJob, SigFields
  <2> QED BY <2>1, <2>2, <2>3
<1>4. calls' = calls \/ calls' = Reply(job.from, FALSE)
  BY DEF StoreSignature, ReadBack, SetStatus
<1>5. CASE calls' = calls
  BY <1>1, <1>3, <1>5, QuietStep
<1>6. CASE calls' = Reply(job.from, FALSE)
  <2>1. CallsFit' /\ \A o \in Operator : Asks(o)' => Asks(o) /\ o # job.from
    BY <1>6, ReplyEnds DEF CallsInv
  <2>2. \A o \in Operator : AnswerComing(o) => AnswerComing(o)'
    BY <1>1, <1>3 DEF AnswerComing
  <2>3. IsChannel(toController) /\ IsChannel(toChecker)
    BY DEF WaitInv, MessagesFit
  <2> QED BY <1>1, <2>1, <2>2, <2>3, FlowAfter
<1> QED BY <1>4, <1>5, <1>6

(* The end of check_spark_signatures.                                      *)
LEMMA SignaturesDoneStep ==
  ASSUME WaitInv, CallsInv, StoredHashes \subseteq StoredHashes', SignaturesChecked
  PROVE  MessagesFit' /\ CallsInv'
<1> DEFINE more == ForChildren(ChildrenOf(spark_queue, job.finalized))
<1>1. /\ calls' = Reply(job.from, TRUE) /\ toController' = toController
      /\ toChecker' = toChecker \o more
  BY DEF SignaturesChecked
<1>2. IsChannel(more) /\ \A m \in Range(more) : FitsChecker(m)
  <2>1. IsChannel(more) /\ \A m \in Range(more) : \E e : m = FullCheck(e)
    BY ChildrenFit DEF WaitInv
  <2> HIDE DEF more
  <2> QED BY <2>1 DEF FitsChecker
<1> HIDE DEF more
<1>3. IsChannel(toController) /\ IsChannel(toChecker)
  BY DEF WaitInv, MessagesFit
<1>4. IsChannel(toChecker') /\ Range(toChecker') = Range(toChecker) \cup Range(more)
  BY <1>1, <1>2, <1>3, ConcatChannel
<1>5. CallsFit' /\ \A o \in Operator : Asks(o)' => Asks(o) /\ o # job.from
  BY <1>1, ReplyEnds DEF CallsInv
<1>6. \A o \in Operator : Asks(o)' /\ AnswerComing(o) => AnswerComing(o)'
  BY <1>1, <1>4, <1>5 DEF AnswerComing
<1>7. \A m \in Range(toChecker') : m \in Range(toChecker) \/ FitsChecker(m)'
  BY <1>2, <1>4, FitsStays
<1> QED BY <1>1, <1>3, <1>4, <1>5, <1>6, <1>7, FlowAfter

(* Freezes and exits answer nobody.                                        *)
LEMMA OtherCheckSteps ==
  ASSUME WaitInv, CallsInv, StoredHashes \subseteq StoredHashes',
         check_token_freezes \/ check_txs_full
  PROVE  MessagesFit' /\ CallsInv'
<1>1. PICK type \in {"FreezeTokens", "FullCheck"} : CheckerTakes(type)
  BY DEF check_token_freezes, check_txs_full
<1>2. /\ toChecker # <<>> /\ Head(toChecker).type = type /\ ~SignatureJob
      /\ IsChannel(toController) /\ IsChannel(toChecker) /\ IsChannel(Tail(toChecker))
      /\ Range(toChecker) = {Head(toChecker)} \cup Range(Tail(toChecker))
  BY <1>1, CheckerHead
<1>3. toChecker' = Tail(toChecker) /\ toController' = toController /\ calls' = calls
  BY DEF check_token_freezes, check_txs_full
<1>4. \A o : ~IsFrom(Head(toChecker), o)
  BY <1>1, <1>2 DEF IsFrom
<1>5. CallsFit' /\ \A o \in Operator : Asks(o)' <=> Asks(o)
  BY <1>3, CallsRest
<1>6. \A o \in Operator : AnswerComing(o) => AnswerComing(o)'
  BY <1>2, <1>3, <1>4 DEF AnswerComing
<1> QED BY <1>2, <1>3, <1>5, <1>6, FlowAfter

(* The messages fit after every step, and every operator will be answered. *)
LEMMA FlowStep ==
  ASSUME SparkInv, WaitInv, CallsInv, StoredHashes \subseteq StoredHashes', [Next]_flowVars
  PROVE  MessagesFit' /\ CallsInv'
<1>0. IsChannel(toController) /\ IsChannel(toChecker)
  BY DEF WaitInv, MessagesFit
<1>1. CASE UNCHANGED flowVars
  <2>1. /\ toController' = toController /\ toChecker' = toChecker /\ calls' = calls /\ job' = job
    BY <1>1 DEF flowVars, queues
  <2> QED BY <2>1, QuietStep DEF SignatureJob
<1>2. ASSUME NEW r \in FreezeRequests, freeze_tokens(r) PROVE MessagesFit' /\ CallsInv'
  <2>1. /\ toController' = Append(toController, FreezeTokens(r)) /\ calls' = calls
        /\ toChecker' = toChecker /\ job' = job
    BY <1>2 DEF freeze_tokens
  <2>2. CallsFit' /\ \A o \in Operator : Asks(o)' <=> Asks(o)
    BY <2>1, CallsRest
  <2>3. FitsController(FreezeTokens(r))
    BY RequestsFit
  <2> QED BY <2>1, <2>2, <2>3, ToControllerStep
<1>3. ASSUME NEW order, handle_inv(order) PROVE MessagesFit' /\ CallsInv'
  <2>1. PICK more : /\ toController' = toController \o more
                    /\ IsChannel(more) /\ \A m \in Range(more) : FitsController(m)
    BY <1>3, AnswerFits DEF handle_inv
  <2>2. toChecker' = toChecker /\ job' = job /\ calls' = calls
    BY <1>3 DEF handle_inv
  <2>3. IsChannel(toController') /\ Range(toController') = Range(toController) \cup Range(more)
    BY <1>0, <2>1, ConcatChannel
  <2>4. CallsFit' /\ \A o \in Operator : Asks(o)' <=> Asks(o)
    BY <2>2, CallsRest
  <2>5. \A o \in Operator : AnswerComing(o) => AnswerComing(o)'
    BY <2>2, <2>3 DEF AnswerComing, SignatureJob
  <2>6. \A m \in Range(toController') : m \in Range(toController) \/ FitsController(m)'
    BY <2>1, <2>3, FitsStays
  <2> QED BY <1>0, <2>2, <2>3, <2>4, <2>5, <2>6, FlowAfter
<1>4. ASSUME NEW e \in Exit, ExitConfirmed(e) PROVE MessagesFit' /\ CallsInv'
  <2>1. /\ toChecker' = Append(toChecker, FullCheck(<<e>>)) /\ calls' = calls
        /\ toController' = toController /\ job' = job
    BY <1>4 DEF ExitConfirmed
  <2>2. CallsFit' /\ \A o \in Operator : Asks(o)' <=> Asks(o)
    BY <2>1, CallsRest
  <2>3. IsChannel(toChecker') /\ Range(toChecker') = Range(toChecker) \cup {FullCheck(<<e>>)}
    BY <1>0, <2>1, AppendChannel
  <2>4. FitsChecker(FullCheck(<<e>>))'
    <3>1. FitsChecker(FullCheck(<<e>>))
      BY RequestsFit
    <3> QED BY <3>1, FitsStays
  <2>5. \A o \in Operator : AnswerComing(o) => AnswerComing(o)'
    BY <2>1, <2>3 DEF AnswerComing, SignatureJob
  <2>6. \A m \in Range(toChecker') : m \in Range(toChecker) \/ FitsChecker(m)'
    BY <2>3, <2>4
  <2> QED BY <1>0, <2>1, <2>2, <2>3, <2>5, <2>6, FlowAfter
<1>5. ASSUME NEW e \in Exit, check_spark_exit_proof(e) \/ check_spark_exit_done(e)
      PROVE  MessagesFit' /\ CallsInv'
  <2>1. /\ job.stage = "exit"
        /\ toController' = toController /\ toChecker' = toChecker /\ calls' = calls
    BY <1>5 DEF check_spark_exit_proof, check_spark_exit_done, queues
  <2>2. ~SignatureJob
    BY <2>1 DEF SignatureJob
  <2> QED BY <2>1, <2>2, QuietStep
<1>6. ASSUME NEW h \in SparkHash, handle_cleanup(h) PROVE MessagesFit' /\ CallsInv'
  <2>1. toController' = toController /\ toChecker' = toChecker /\ calls' = calls /\ job' = job
    BY <1>6 DEF handle_cleanup, queues
  <2> QED BY <2>1, QuietStep DEF SignatureJob
<1>7. CASE Restart
  <2>1. toController' = <<>> /\ toChecker' = <<>> /\ calls' = [o \in Operator |-> NoCall]
    BY <1>7 DEF Restart
  <2>2. IsChannel(<<>>) /\ Range(<<>>) = {}
    BY ShortChannel
  <2>3. MessagesFit'
    BY <2>1, <2>2 DEF MessagesFit
  <2>4. CallsFit'
    BY <2>1 DEF CallsFit
  <2>5. \A o \in Operator : ~Asks(o)'
    BY <2>1 DEF Asks, NoCall
  <2> QED BY <2>3, <2>4, <2>5 DEF CallsInv
<1> QED
  BY <1>1, <1>2, <1>3, <1>4, <1>5, <1>6, <1>7, SendStep, FollowStep, NewTxStep,
     ControllerSteps, CheckTxsStep, CheckSignaturesStep, SignatureSteps, SignaturesDoneStep,
     OtherCheckSteps DEF Next

(* SparkGraphBuilder finds the parents of what it is sent.                 *)
LEMMA NoDeps ==
  ASSUME WaitInv, [Next]_flowVars
  PROVE  deps' = [h \in SparkHash |-> {}]
<1>1. CASE handle_checked_spark_txs
  <2> DEFINE txs == Head(toController).txs
  <2>1. /\ toController # <<>> /\ Head(toController).type = "CheckedSparkTxs"
        /\ attach_spark_txs(txs)
    BY <1>1 DEF handle_checked_spark_txs, IsNext
  <2>2. FitsController(Head(toController))
    <3>1. Range(toController) = {Head(toController)} \cup Range(Tail(toController))
      BY <2>1, TailChannel DEF WaitInv, MessagesFit
    <3> QED BY <3>1 DEF WaitInv, MessagesFit
  <2>3. txs \subseteq StoredHashes
    <3>1. \A sigs, f : Head(toController) # Signatures(sigs, f)
      BY SMT, <2>1 DEF Signatures
    <3>2. \A t, w, f : Head(toController)
                         # [type |-> "NewSparkTxs", txs |-> t, new |-> w, from |-> f]
      BY SMT, <2>1
    <3>3. \A r : Head(toController) # FreezeTokens(r)
      BY SMT, <2>1 DEF FreezeTokens
    <3>4. PICK S \in SUBSET StoredHashes : Head(toController) = CheckedSparkTxs(S)
      BY <2>2, <3>1, <3>2, <3>3 DEF FitsController
    <3>5. Head(toController).txs = S
      BY SMT, <3>4 DEF CheckedSparkTxs
    <3> QED BY <3>4, <3>5
  <2>4. \A h \in SparkHash : h \in txs => WaitsFor(h) = {}
    BY <2>3 DEF WaitsFor, WaitInv, ParentsStored, StoredHashes
  <2>5. \A h \in SparkHash : deps[h] = {}
    BY DEF WaitInv
  <2> HIDE DEF txs
  <2> QED BY <2>1, <2>4, <2>5 DEF attach_spark_txs
<1>2. CASE deps' = deps
  BY <1>2 DEF WaitInv
<1>3. CASE Restart
  BY <1>3 DEF Restart
<1>4. handle_checked_spark_txs \/ deps' = deps \/ Restart
  BY DEF Next, flowVars, send_spark_signature, SignatureFollows,
         freeze_tokens, handle_new_spark_tx, handle_new_spark_txs_done, PassOn, handle_inv,
         check_spark_txs, check_spark_signatures, StoreSignature, ReadBack, SetStatus,
         SignaturesChecked, check_token_freezes, check_txs_full, check_spark_exit_proof,
         check_spark_exit_done, ExitConfirmed, handle_cleanup
<1> QED BY <1>1, <1>2, <1>3, <1>4

(* What the checker does to its job.                                       *)
LEMMA JobSteps ==
  ASSUME [Next]_flowVars
  PROVE  \/ job' = job
         \/ check_spark_signatures \/ StoreSignature \/ ReadBack \/ SetStatus
         \/ SignaturesChecked
         \/ check_txs_full
         \/ \E e \in Exit : check_spark_exit_proof(e) \/ check_spark_exit_done(e)
         \/ Restart
BY DEF Next, flowVars, send_spark_signature, SignatureFollows,
       freeze_tokens, handle_new_spark_tx, handle_new_spark_txs_done, PassOn, handle_inv,
       handle_checked_spark_txs, check_spark_txs, check_token_freezes, ExitConfirmed, handle_cleanup

(* The job of an exit is no job of signatures.                             *)
LEMMA NotStatus ==
  ASSUME NEW j, j = NoJob \/ \E ex : j = ExitJob(ex)
  PROVE  j.stage \notin {"store", "read", "status"}
<1>1. NoJob.stage = "idle"
  BY DEF NoJob
<1>2. ASSUME NEW ex PROVE ExitJob(ex).stage \in {"idle", "exit"}
  <2>1. CASE ex = <<>>
    BY <1>1, <2>1 DEF ExitJob
  <2>2. CASE ex # <<>>
    BY <2>2 DEF ExitJob
  <2> QED BY <2>1, <2>2
<1>3. j.stage \in {"idle", "exit"}
  BY <1>1, <1>2
<1> QED BY <1>3

(* While signatures are checked, the finalized ones are kept, and only     *)
(* SetStatus adds to them.                                                 *)
LEMMA FinalizedKept ==
  ASSUME SparkInv, WaitInv, StoreSignature \/ ReadBack \/ SetStatus
  PROVE  /\ SignatureJob /\ SignatureJob' /\ job.finalized \subseteq job'.finalized
         /\ job'.stage = "status" => ReadBack /\ Outputs[Head(job'.rest).tx] # <<>>
         /\ SetStatus => \A h \in SparkHash : spark_transaction'[h] = "Finalized" =>
              spark_transaction[h] = "Finalized" \/ h \in job'.finalized
<1>1. job.stage \in {"store", "read", "status"}
  BY DEF StoreSignature, ReadBack, SetStatus
<1>2. job = [x \in DOMAIN job |-> job[x]] /\ DOMAIN job = SigFields
  BY <1>1 DEF SparkInv, JobFits
<1>3. CASE StoreSignature
  <2>1. job'.stage \in {"store", "read"} /\ job'.finalized = job.finalized
    BY <1>2, <1>3 DEF StoreSignature, SigFields
  <2>2. ~SetStatus
    BY <1>3 DEF StoreSignature, SetStatus
  <2> QED BY <1>1, <2>1, <2>2 DEF SignatureJob
<1>4. CASE ReadBack
  <2> DEFINE h == Head(job.rest).tx
  <2>1. job'.stage \in {"read", "status"} /\ job'.finalized = job.finalized
    BY <1>2, <1>4 DEF ReadBack, SigFields
  <2>2. ~SetStatus
    BY <1>4 DEF ReadBack, SetStatus
  <2>3. ASSUME job'.stage = "status" PROVE Outputs[Head(job'.rest).tx] # <<>>
    <3>1. CASE Found(h)
      <4>1. job' = [job EXCEPT !.stage = "status", !.inputs = InputsRead(h), !.same = Intact(h)]
        BY <1>4, <3>1 DEF ReadBack
      <4>2. job'.rest = job.rest
        BY <1>2, <4>1 DEF SigFields
      <4> QED BY <3>1, <4>2 DEF Found
    <3>2. CASE ~Found(h)
      <4>1. job' = [job EXCEPT !.rest = Tail(@)] /\ job.stage = "read"
        BY <1>4, <3>2 DEF ReadBack
      <4>2. job'.stage = "read"
        BY <1>2, <4>1 DEF SigFields
      <4> QED BY <2>3, <4>2
    <3> QED BY <3>1, <3>2
  <2> QED BY <1>1, <1>4, <2>1, <2>2, <2>3 DEF SignatureJob
<1>5. CASE SetStatus
  <2> DEFINE g  == Head(job.rest).tx
             st == check_spark_tx_finalization(job.inputs, Cardinality(Signers(g)),
                                               Cardinality(SecretsOf(g)))
  <2>1. spark_transaction' = IF job.same THEN [spark_transaction EXCEPT ![g] = st]
                             ELSE spark_transaction
    BY <1>5 DEF SetStatus
  <2>2. job' = [job EXCEPT !.stage = "read", !.rest = Tail(@), !.inputs = 0, !.same = FALSE,
                           !.finalized = IF st = "Finalized" THEN @ \cup {g} ELSE @]
    BY <1>5 DEF SetStatus
  <2> HIDE DEF g, st
  <2>3. /\ job'.stage = "read"
        /\ job'.finalized = IF st = "Finalized" THEN job.finalized \cup {g} ELSE job.finalized
    BY <1>2, <2>2 DEF SigFields
  <2>4. spark_transaction \in [SparkHash -> SparkStatus \cup {NoRow}]
    BY DEF SparkInv, RowsFit
  <2>5. ASSUME NEW h \in SparkHash, spark_transaction'[h] # spark_transaction[h]
        PROVE  h = g /\ spark_transaction'[h] = st
    BY <2>1, <2>4, <2>5
  <2>6. \A h \in SparkHash : spark_transaction'[h] = "Finalized" =>
          spark_transaction[h] = "Finalized" \/ h \in job'.finalized
    BY <2>3, <2>5
  <2> QED BY <1>1, <2>3, <2>6 DEF SignatureJob
<1> QED BY <1>3, <1>4, <1>5

(* What is final, and what is about to be, was found.                      *)
LEMMA FinalFoundStep ==
  ASSUME SparkInv, WaitInv, [Next]_flowVars
  PROVE  FinalFound'
<1>1. \A h \in SparkHash : spark_transaction'[h] = "Finalized" => Outputs[h] # <<>>
  BY RowsStay
<1>2. ASSUME job'.stage = "status" PROVE Outputs[Head(job'.rest).tx] # <<>>
  <2>1. CASE job' = job
    BY <1>2, <2>1 DEF WaitInv, FinalFound
  <2>2. CASE StoreSignature \/ ReadBack \/ SetStatus
    BY <1>2, <2>2, FinalizedKept
  <2>3. CASE check_spark_signatures
    BY <1>2, <2>3 DEF check_spark_signatures
  <2>4. CASE SignaturesChecked \/ check_txs_full \/ Restart
    <3>1. job' = NoJob \/ \E ex : job' = ExitJob(ex)
      BY <2>4 DEF SignaturesChecked, check_txs_full, Restart
    <3> QED BY <1>2, <3>1, NotStatus
  <2>5. ASSUME NEW e \in Exit, check_spark_exit_proof(e) \/ check_spark_exit_done(e) PROVE FALSE
    <3>1. job.stage = "exit"
      BY <2>5 DEF check_spark_exit_proof, check_spark_exit_done
    <3>2. job = [x \in DOMAIN job |-> job[x]] /\ DOMAIN job = ExitFields
      BY <3>1 DEF SparkInv, JobFits
    <3>3. (\E ex : job' = ExitJob(ex)) \/ job' = [job EXCEPT !.rest = Tail(@)]
      BY <2>5 DEF check_spark_exit_proof, check_spark_exit_done, ExitEnds
    <3>4. job' = [job EXCEPT !.rest = Tail(@)] => job'.stage = "exit"
      BY <3>1, <3>2 DEF ExitFields
    <3> QED BY <1>2, <3>3, <3>4, NotStatus
  <2> QED BY <2>1, <2>2, <2>3, <2>4, <2>5, JobSteps
<1> QED BY <1>1, <1>2 DEF FinalFound

(* A transaction becomes final in SetStatus only.                          *)
LEMMA FinalOnlyThere ==
  ASSUME SparkInv, WaitInv, [Next]_flowVars, ~SetStatus
  PROVE  \A h \in SparkHash : spark_transaction'[h] = "Finalized" => spark_transaction[h] = "Finalized"
<1>1. CASE spark_transaction' = spark_transaction
  BY <1>1
<1>2. ASSUME NEW x \in SparkHash, handle_new_spark_tx(x), spark_transaction' # spark_transaction
      PROVE  \A h \in SparkHash : spark_transaction'[h] = "Finalized"
                                    => spark_transaction[h] = "Finalized"
  <2>1. spark_transaction' = [spark_transaction EXCEPT ![x] = "Started"]
    BY <1>2 DEF handle_new_spark_tx, insert_spark_transaction
  <2>2. spark_transaction \in [SparkHash -> SparkStatus \cup {NoRow}]
    BY DEF SparkInv, RowsFit
  <2>3. /\ spark_transaction'[x] = "Started"
        /\ \A h \in SparkHash : h # x => spark_transaction'[h] = spark_transaction[h]
    BY <2>1, <2>2
  <2> QED BY <2>3
<1> QED BY <1>1, <1>2, RowsStay

(* Between two messages of the checker no exit waits for what is final.    *)
LEMMA IdleQueue ==
  ASSUME WaitInv, ~SignatureJob
  PROVE  \A h \in SparkHash : spark_queue[h] # None => spark_transaction[h] # "Finalized"
BY DEF WaitInv, QueueFits

(* A queue that lost children still fits.                                  *)
LEMMA FewerChildren ==
  ASSUME SparkInv, WaitInv, [Next]_flowVars, ~SetStatus, DOMAIN spark_queue' = SparkHash,
         \A h \in SparkHash : spark_queue'[h] # None =>
           /\ spark_queue'[h] = spark_queue[h]
           /\ SignatureJob => \/ h \notin job.finalized
                              \/ SignatureJob' /\ job.finalized \subseteq job'.finalized
  PROVE  QueueFits'
<1>1. \A h \in SparkHash : spark_queue'[h] # None => spark_queue'[h].kind = "ExitTx"
  BY DEF WaitInv, QueueFits
<1>2. ASSUME NEW h \in SparkHash, spark_queue'[h] # None, spark_transaction'[h] = "Finalized"
      PROVE  SignatureJob' /\ h \in job'.finalized
  <2>1. spark_transaction[h] = "Finalized"
    BY <1>2, FinalOnlyThere
  <2>2. SignatureJob /\ h \in job.finalized
    BY <1>2, <2>1 DEF WaitInv, QueueFits
  <2> QED BY <1>2, <2>2
<1> QED BY <1>1, <1>2 DEF QueueFits

(* Exits that wait are let go on, and only exits wait.                     *)
LEMMA QueueStep ==
  ASSUME SparkInv, WaitInv, [Next]_flowVars
  PROVE  QueueFits'
<1>0. DOMAIN spark_queue = SparkHash
  BY DEF WaitInv, QueueFits
<1>1. CASE SetStatus
  <2>1. spark_queue' = spark_queue
    BY <1>1 DEF SetStatus
  <2>2. /\ SignatureJob /\ SignatureJob' /\ job.finalized \subseteq job'.finalized
        /\ \A h \in SparkHash : spark_transaction'[h] = "Finalized" =>
             spark_transaction[h] = "Finalized" \/ h \in job'.finalized
    BY <1>1, FinalizedKept
  <2> QED BY <2>1, <2>2 DEF WaitInv, QueueFits
<1>2. CASE spark_queue' = spark_queue /\ job' = job
  <2>1. CASE ~SetStatus
    BY <1>0, <1>2, <2>1, FewerChildren DEF SignatureJob
  <2> QED BY <1>1, <2>1
<1>3. CASE StoreSignature \/ ReadBack
  <2>1. spark_queue' = spark_queue
    BY <1>3 DEF StoreSignature, ReadBack
  <2>2. SignatureJob' /\ job.finalized \subseteq job'.finalized
    BY <1>3, FinalizedKept
  <2>3. CASE ~SetStatus
    BY <1>0, <2>1, <2>2, <2>3, FewerChildren
  <2> QED BY <1>1, <2>3
<1>4. CASE SignaturesChecked
  <2>1. spark_queue' = WithoutChildrenOf(spark_queue, job.finalized) /\ ~SetStatus
    BY <1>4 DEF SignaturesChecked, SetStatus
  <2>2. /\ DOMAIN spark_queue' = SparkHash
        /\ \A h \in SparkHash : spark_queue'[h] # None =>
             spark_queue'[h] = spark_queue[h] /\ h \notin job.finalized
    BY <2>1 DEF WithoutChildrenOf
  <2> QED BY <2>1, <2>2, FewerChildren
<1>5. ASSUME ~SignatureJob, DOMAIN spark_queue' = SparkHash,
             \A h \in SparkHash : spark_queue'[h] # None => spark_queue'[h] = spark_queue[h]
      PROVE  QueueFits'
  <2>1. ~SetStatus
    BY <1>5 DEF SetStatus, SignatureJob
  <2> QED BY <1>5, <2>1, FewerChildren
<1>6. job = NoJob => ~SignatureJob
  BY SMT DEF NoJob, SignatureJob
<1>7. CASE check_spark_txs
  <2>1. CheckerTakes("SparkCheck")
    BY <1>7 DEF check_spark_txs
  <2>2. ~SignatureJob /\ Head(toChecker).type = "SparkCheck" /\ FitsChecker(Head(toChecker))
    BY <2>1, CheckerHead
  <2>3. Head(toChecker).txs \in Seq(StoredHashes)
    <3>1. \A sigs, f : Head(toChecker) # Signatures(sigs, f)
      BY SMT, <2>2 DEF Signatures
    <3>2. \A e : Head(toChecker) # FullCheck(e)
      BY SMT, <2>2 DEF FullCheck
    <3>3. \A r : Head(toChecker) # FreezeTokens(r)
      BY SMT, <2>2 DEF FreezeTokens
    <3>4. PICK txs, from : Head(toChecker) = SparkCheck(txs, from) /\ txs \in Seq(StoredHashes)
      BY <2>2, <3>1, <3>2, <3>3 DEF FitsChecker
    <3>5. Head(toChecker).txs = txs
      BY SMT, <3>4 DEF SparkCheck
    <3> QED BY <3>4, <3>5
  <2> DEFINE b == CheckBatch(Head(toChecker).txs)
  <2>4. b.queue = spark_queue
    BY <2>3, StoredBatch DEF WaitInv, StoredHashes
  <2>5. spark_queue' = WithoutChildrenOf(b.queue, b.checked)
    BY <1>7 DEF check_spark_txs
  <2> HIDE DEF b
  <2>6. /\ DOMAIN spark_queue' = SparkHash
        /\ \A h \in SparkHash : spark_queue'[h] # None => spark_queue'[h] = spark_queue[h]
    BY <2>4, <2>5 DEF WithoutChildrenOf
  <2> QED BY <1>5, <2>2, <2>6
<1>8. CASE check_spark_signatures \/ check_txs_full
  <2>1. spark_queue' = spark_queue /\ job = NoJob
    BY <1>8 DEF check_spark_signatures, check_txs_full, CheckerTakes
  <2> QED BY <1>0, <1>5, <1>6, <2>1
<1>9. ASSUME NEW e \in Exit, check_spark_exit_proof(e) PROVE QueueFits'
  <2> DEFINE p == Head(job.rest)
  <2>1. ~SignatureJob
    <3>1. job.stage = "exit"
      BY <1>9 DEF check_spark_exit_proof
    <3> QED BY <3>1 DEF SignatureJob
  <2>2. CASE spark_queue' = spark_queue
    BY <1>0, <1>5, <2>1, <2>2
  <2>3. CASE ExitWaits(p) /\ spark_queue' = [spark_queue EXCEPT ![p.tx] = ExitTx(e)]
    <3>1. /\ DOMAIN spark_queue' = SparkHash
          /\ \A h \in SparkHash : \/ spark_queue'[h] = spark_queue[h]
                                  \/ h = p.tx /\ spark_queue'[h] = ExitTx(e)
      BY <1>0, <2>3
    <3>2. ExitTx(e).kind = "ExitTx"
      BY DEF ExitTx
    <3>3. \A h \in SparkHash : spark_queue'[h] # None => spark_queue'[h].kind = "ExitTx"
      BY <3>1, <3>2 DEF WaitInv, QueueFits
    <3>4. UNCHANGED spark_transaction
      BY <1>9 DEF check_spark_exit_proof
    <3>5. p.tx \in SparkHash => spark_transaction[p.tx] # "Finalized"
      <4> SUFFICES ASSUME p.tx \in SparkHash, spark_transaction[p.tx] = "Finalized" PROVE FALSE
        OBVIOUS
      <4>1. Outputs[p.tx] # <<>>
        BY DEF WaitInv, FinalFound
      <4>2. HasRow(p.tx)
        BY SparkAssumption DEF HasRow, SparkStatus
      <4> QED BY <2>3, <4>1, <4>2 DEF ExitWaits, Found, get_token_transaction_status
    <3>6. \A h \in SparkHash : spark_queue'[h] # None => spark_transaction'[h] # "Finalized"
      BY <2>1, <3>1, <3>4, <3>5, IdleQueue
    <3> QED BY <3>1, <3>3, <3>6 DEF QueueFits
  <2> QED BY <1>9, <2>2, <2>3 DEF check_spark_exit_proof
<1>10. ASSUME NEW e \in Exit, check_spark_exit_done(e) PROVE QueueFits'
  <2>1. spark_queue' = spark_queue /\ job.stage = "exit"
    BY <1>10 DEF check_spark_exit_done
  <2>2. ~SignatureJob
    BY <2>1 DEF SignatureJob
  <2> QED BY <1>0, <1>5, <2>1, <2>2
<1>11. ASSUME NEW x \in SparkHash, handle_cleanup(x) PROVE QueueFits'
  <2>1. job = NoJob /\ spark_queue' = [spark_queue EXCEPT ![x] = None]
    BY <1>11 DEF handle_cleanup
  <2>2. /\ DOMAIN spark_queue' = SparkHash
        /\ \A h \in SparkHash : spark_queue'[h] # None => spark_queue'[h] = spark_queue[h]
    BY <1>0, <2>1
  <2> QED BY <1>5, <1>6, <2>1, <2>2
<1>12. CASE Restart
  <2>1. spark_queue' = [h \in SparkHash |-> None]
    BY <1>12 DEF Restart
  <2> QED BY <2>1 DEF QueueFits
<1>13. \/ spark_queue' = spark_queue /\ job' = job
       \/ check_spark_txs \/ check_spark_signatures \/ StoreSignature \/ ReadBack \/ SetStatus
       \/ SignaturesChecked
       \/ check_txs_full
       \/ \E e \in Exit : check_spark_exit_proof(e) \/ check_spark_exit_done(e)
       \/ \E h \in SparkHash : handle_cleanup(h)
       \/ Restart
  BY DEF Next, flowVars, send_spark_signature, SignatureFollows,
       freeze_tokens, handle_new_spark_tx, handle_new_spark_txs_done, PassOn, handle_inv,
       handle_checked_spark_txs, check_token_freezes, ExitConfirmed
<1> QED BY <1>1, <1>2, <1>3, <1>4, <1>7, <1>8, <1>9, <1>10, <1>11, <1>12, <1>13

FlowInv == SparkInv /\ WaitInv /\ CallsInv

(* Every step keeps it.                                                    *)
LEMMA FlowInvStep ==
  ASSUME FlowInv, [Next]_flowVars
  PROVE  FlowInv'
<1>1. SparkInv /\ WaitInv /\ CallsInv
  BY DEF FlowInv
<1>2. SparkInv'
  BY <1>1, SparkStep
<1>3. ParentsStored' /\ StoredHashes \subseteq StoredHashes'
  BY <1>1, RowsStay
<1>4. MessagesFit' /\ CallsInv'
  BY <1>1, <1>3, FlowStep
<1>5. FinalFound' /\ QueueFits'
  BY <1>1, FinalFoundStep, QueueStep
<1>6. deps' = [h \in SparkHash |-> {}]
  BY <1>1, NoDeps
<1>7. WaitInv'
  BY <1>3, <1>4, <1>5, <1>6 DEF WaitInv
<1> QED BY <1>2, <1>4, <1>7 DEF FlowInv

(* Nobody waits when the node starts.                                      *)
LEMMA FlowInvStart == Init => FlowInv
<1> SUFFICES ASSUME Init PROVE FlowInv
  OBVIOUS
<1>1. SparkInv
  BY SparkStart
<1>2. PICK S \in FirstFinal : StorageInit(S)
  BY DEF Init
<1>3. \A h \in S : /\ h \in SparkHash /\ Outputs[h] # <<>>
                   /\ \A l \in Spent(h) : l \in Leaf /\ l[1] \in S
  BY SparkFlowAssumption
<1>4. \A h \in SparkHash : spark_transaction[h] = IF h \in S THEN "Finalized" ELSE NoRow
  BY <1>2 DEF StorageInit
<1>5. NoRow # "Finalized"
  BY SparkAssumption DEF SparkStatus
<1>6. \A h \in SparkHash : (HasRow(h) <=> h \in S) /\ (spark_transaction[h] = "Finalized" => h \in S)
  <2>1. ASSUME NEW h \in SparkHash, h \in S
        PROVE  HasRow(h)
    BY <1>4, <1>5, <2>1 DEF HasRow
  <2>2. ASSUME NEW h \in SparkHash, h \notin S
        PROVE  ~HasRow(h) /\ spark_transaction[h] # "Finalized"
    BY <1>4, <1>5, <2>2 DEF HasRow
  <2> QED BY <2>1, <2>2
<1>7. ParentsStored
  BY <1>3, <1>6 DEF ParentsStored
<1>8. job = NoJob /\ job.stage = "idle"
  BY DEF Init, NoJob
<1>9. FinalFound
  BY <1>3, <1>6, <1>8 DEF FinalFound
<1>10. QueueFits
  BY DEF Init, QueueFits
<1>11. MessagesFit
  <2>1. IsChannel(<<>>) /\ Range(<<>>) = {}
    BY ShortChannel
  <2> QED BY <2>1 DEF Init, MessagesFit
<1>12. CallsInv
  <2>1. CallsFit
    BY DEF Init, CallsFit
  <2>2. \A o \in Operator : ~Asks(o)
    BY DEF Init, Asks, NoCall
  <2> QED BY <2>1, <2>2 DEF CallsInv
<1>13. deps = [h \in SparkHash |-> {}]
  BY DEF Init
<1> QED BY <1>1, <1>7, <1>9, <1>10, <1>11, <1>12, <1>13 DEF FlowInv, WaitInv

(* FlowInv holds in every state the node reaches.                          *)
LEMMA FlowInvariant == Spec => []FlowInv
BY FlowInvStart, FlowInvStep, PTL DEF Spec

(* Nothing is kept back for what the node has: no exit waits for a final   *)
(* transaction once the checker is done with the signatures that made it   *)
(* final, no transfer waits in spark_queue or in SparkGraphBuilder.        *)
THEOREM NobodyKeptWaiting == Spec => []NobodyWaits
<1>1. FlowInv => NobodyWaits
  <2> SUFFICES ASSUME FlowInv PROVE NobodyWaits
    OBVIOUS
  <2>1. job = NoJob => ~SignatureJob
    BY SMT DEF NoJob, SignatureJob
  <2>2. NoChildLeftWaiting
    BY <2>1 DEF FlowInv, WaitInv, QueueFits, NoChildLeftWaiting
  <2>3. GraphNeverWaits
    <3>1. \A h \in SparkHash : HasRow(h) => \A l \in Spent(h) : HasRow(l[1])
      BY DEF FlowInv, WaitInv, ParentsStored
    <3>2. \A h \in SparkHash : deps[h] = {}
      BY DEF FlowInv, WaitInv
    <3>3. \A h \in SparkHash : spark_queue[h] # None => spark_queue[h].kind = "ExitTx"
      BY DEF FlowInv, WaitInv, QueueFits
    <3> QED BY <3>1, <3>2, <3>3 DEF GraphNeverWaits
  <2> QED BY <2>2, <2>3 DEF NobodyWaits
<1> QED BY <1>1, FlowInvariant, PTL

(* Once the services have nothing to do, every operator's request has been *)
(* answered.                                                               *)
LEMMA AllAnswered == FlowInv => CallsAnswered
<1> SUFFICES ASSUME FlowInv, toController = <<>>, toChecker = <<>>, job = NoJob,
                    NEW o \in Operator, Asks(o)
             PROVE  FALSE
  BY DEF CallsAnswered, Asks
<1>1. Range(toController) = {} /\ Range(toChecker) = {}
  BY ShortChannel
<1>2. ~SignatureJob
  BY DEF NoJob, SignatureJob
<1>3. AnswerComing(o)
  BY DEF FlowInv, CallsInv
<1> QED BY <1>1, <1>2, <1>3 DEF AnswerComing

(* The least of one.                                                       *)
LEMMA SearchEnds ==
  ASSUME NEW N \in Nat
  PROVE  Min({N + 1}) = N + 1
<1>1. \E x \in {N + 1} : \A y \in {N + 1} : x <= y
  BY SMT
<1>2. Min({N + 1}) \in {N + 1}
  BY <1>1 DEF Min
<1> QED BY <1>2

(* SparkTxEmulator and the checker agree on a transfer.                    *)
LEMMA EmulatorAgrees == FlowInv => VerifyAgrees
<1> SUFFICES ASSUME FlowInv, NEW h \in SparkHash \ Mint, ~HasRow(h), verify_spark_tx(h),
                    \A l \in Spent(h) : OperatorsOf[l[1]] = OperatorsOf[h]
             PROVE  Insertable(h) /\ CheckBatch(<<h>>).invalid = {}
  BY DEF VerifyAgrees
<1>1. ~Found(h) /\ h \notin Mint /\ h \notin Unsigned /\ h \notin ForgedMints
  BY SparkAssumption, SparkCheckerAssumption DEF Found
<1>2. emulate_spark_transfer(h) /\ check_created_leaves(h, TRUE)
  BY <1>1 DEF verify_spark_tx, emulate_spark_tx, check_created_leaves
<1>3. \A l \in LeavesOf(h) : OutputsWithId(OutputOf(l).id) = {}
  BY <1>2 DEF check_created_leaves
<1>4. \A i, j \in 1 .. Len(Outputs[h]) : Outputs[h][i].id = Outputs[h][j].id => i = j
  BY <1>2 DEF check_created_leaves
<1>5. \A l \in Spent(h) : Found(l[1]) /\ l \in Leaf
  BY <1>2 DEF emulate_spark_transfer
<1>6. \A l \in Spent(h) : l \in Leaf /\ spark_output[l] # NoRow
  BY <1>5 DEF Found, FlowInv, SparkInv, RowsFit
<1>7. ASSUME NEW l \in LeavesOf(h)
      PROVE  \E v \in 0 .. Len(Outputs[h]) - 1 : l = <<h, v>>
  <2>1. PICK g \in SparkHash : \E v \in 0 .. Len(Outputs[g]) - 1 : l = <<g, v>>
    BY DEF LeavesOf, Leaf
  <2>2. l[1] = g /\ l[1] = h
    BY SMT, <2>1 DEF LeavesOf
  <2> QED BY <2>1, <2>2
<1>8. Len(Outputs[h]) \in Nat /\ Len(Inputs[h]) \in Nat /\ DOMAIN Inputs[h] = 1 .. Len(Inputs[h])
  BY SMT, SparkAssumption
<1>9. \A v \in 0 .. Len(Outputs[h]) - 1 :
        /\ v + 1 \in 1 .. Len(Outputs[h]) /\ <<h, v>>[1] = h
        /\ OutputOf(<<h, v>>) = Outputs[h][v + 1]
  BY SMT, <1>8 DEF OutputOf
<1>10. ASSUME NEW l \in LeavesOf(h), NEW k \in LeavesOf(h), OutputOf(l).id = OutputOf(k).id
       PROVE  l = k
  <2>1. PICK v \in 0 .. Len(Outputs[h]) - 1 : l = <<h, v>>
    BY <1>7
  <2>2. PICK w \in 0 .. Len(Outputs[h]) - 1 : k = <<h, w>>
    BY <1>7
  <2>3. v + 1 = w + 1
    BY <1>4, <1>9, <1>10, <2>1, <2>2
  <2>4. v = w
    BY SMT, <1>8, <2>3
  <2> QED BY <2>1, <2>2, <2>4
<1>11. Insertable(h)
  BY <1>1, <1>3, <1>6, <1>10 DEF Insertable
<1>12. RefusedInput(NoneChecked, h) = Len(Inputs[h]) + 1
  <2> DEFINE bad(i) == LET l == Inputs[h][i]
                       IN  \/ l \in NoneChecked.spent \/ \E j \in 1 .. i - 1 : Inputs[h][j] = l
                           \/ ~KnownParent(NoneChecked, l[1])
                           \/ OperatorsOf[l[1]] # OperatorsOf[h]
                           \/ l \notin Leaf
             T == {i \in 1 .. Len(Inputs[h]) : bad(i)}
  <2>1. ASSUME NEW i \in 1 .. Len(Inputs[h]) PROVE ~bad(i)
    <3>1. Inputs[h][i] \in Spent(h)
      BY <1>8 DEF Spent, Range
    <3>2. Inputs[h][i] \notin NoneChecked.spent
      BY DEF NoneChecked
    <3>3. KnownParent(NoneChecked, Inputs[h][i][1]) /\ Inputs[h][i] \in Leaf
      BY <1>5, <3>1 DEF KnownParent
    <3>4. ASSUME NEW j \in 1 .. i - 1 PROVE Inputs[h][j] # Inputs[h][i]
      <4>1. j \in 1 .. Len(Inputs[h]) /\ j # i
        BY SMT, <1>8
      <4> QED BY <1>2, <4>1 DEF emulate_spark_transfer
    <3> QED BY <3>1, <3>2, <3>3, <3>4
  <2>2. RefusedInput(NoneChecked, h) = Min(T \cup {Len(Inputs[h]) + 1})
    BY DEF RefusedInput, FirstWhere
  <2>3. T \cup {Len(Inputs[h]) + 1} = {Len(Inputs[h]) + 1}
    <3> HIDE DEF bad
    <3> QED BY <2>1
  <2> HIDE DEF T
  <2> QED BY <1>8, <2>2, <2>3, SearchEnds
<1>13. RefusedOutput(NoneChecked, h) = Len(Outputs[h]) + 1
  <2> DEFINE bad(i) == IdTaken(NoneChecked, h, i) \/ (h \in Mint /\ ~Mintable(h, i))
             T == {i \in 1 .. Len(Outputs[h]) : bad(i)}
  <2>1. ASSUME NEW i \in 1 .. Len(Outputs[h]) PROVE ~bad(i)
    <3>1. /\ i - 1 \in 0 .. Len(Outputs[h]) - 1 /\ (i - 1) + 1 = i
          /\ \A j \in 1 .. i - 1 : j \in 1 .. Len(Outputs[h]) /\ j # i
      BY SMT, <1>8
    <3>2. <<h, i - 1>> \in LeavesOf(h)
      <4>1. <<h, i - 1>>[1] = h
        BY <1>9, <3>1
      <4>2. <<h, i - 1>> \in Leaf
        <5>1. <<h, i - 1>> \in {<<h, v>> : v \in 0 .. Len(Outputs[h]) - 1}
          BY <3>1
        <5> QED BY <5>1 DEF Leaf
      <4> QED BY <4>1, <4>2 DEF LeavesOf
    <3>3. OutputsWithId(Outputs[h][i].id) = {}
      BY <1>3, <1>9, <3>1, <3>2
    <3>4. Outputs[h][i].id \notin NoneChecked.ids
      BY DEF NoneChecked
    <3>5. \A j \in 1 .. i - 1 : Outputs[h][j].id # Outputs[h][i].id
      BY <1>4, <3>1
    <3>6. ~IdTaken(NoneChecked, h, i)
      BY <3>3, <3>4, <3>5 DEF IdTaken
    <3> QED BY <1>1, <3>6
  <2>2. RefusedOutput(NoneChecked, h) = Min(T \cup {Len(Outputs[h]) + 1})
    BY DEF RefusedOutput, FirstWhere
  <2>3. T \cup {Len(Outputs[h]) + 1} = {Len(Outputs[h]) + 1}
    <3> HIDE DEF bad
    <3> QED BY <2>1
  <2> HIDE DEF T
  <2> QED BY <1>8, <2>2, <2>3, SearchEnds
<1>14. /\ RefusedInput(NoneChecked, h) > Len(Inputs[h])
       /\ RefusedOutput(NoneChecked, h) > Len(Outputs[h])
  BY SMT, <1>8, <1>12, <1>13
<1>15. check_spark_conservation_rules(
         [i \in 1 .. Len(Inputs[h]) |-> OutputOf(Inputs[h][i])], Outputs[h])
  BY <1>2 DEF emulate_spark_transfer
<1>16. check_spark_transaction(NoneChecked, h).invalid = NoneChecked.invalid
  BY <1>1, <1>14, <1>15 DEF check_spark_transaction
<1>17. NoneChecked.invalid = {}
  BY DEF NoneChecked
<1> QED BY <1>11, <1>16, <1>17, BatchOfOne

(* A caller of send_spark_tx or send_spark_signature is answered by the    *)
(* time the channels and the checker are idle, and the check that the      *)
(* server makes for verify_spark_tx and the one that the checker makes     *)
(* agree: two of the three parts of RpcReliable.                           *)
THEOREM CallersServed == Spec => [](CallsAnswered /\ VerifyAgrees)
<1>1. FlowInv => CallsAnswered /\ VerifyAgrees
  BY AllAnswered, EmulatorAgrees
<1> QED BY <1>1, FlowInvariant, PTL

=============================================================================
