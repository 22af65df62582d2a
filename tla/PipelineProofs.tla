--------------------------- MODULE PipelineProofs ---------------------------
(***************************************************************************)
(* What the attachment pipeline keeps, for every set of transactions and   *)
(* parents.  Five invariants carry the proofs.                             *)
(*                                                                         *)
(* GraphInv: the dependency maps of the graph builder stay in step.  It    *)
(* speaks of a call of attach_txs in progress: a transaction whose parent  *)
(* has just been attached is no longer in inverse_deps of that parent, but *)
(* in one of the two queues.                                               *)
(*                                                                         *)
(* Vetted: what a message, a service or a mempool status says about the    *)
(* checks of a transaction is so.  It holds across all faults.             *)
(*                                                                         *)
(* Tracked: until a cleanup, a transaction that is being handled is at one *)
(* place only, and its mempool status names the part of the way that the   *)
(* place is on.  So no handler meets an id without an entry, and every     *)
(* step of the pipeline is a step of TxLifecycle or changes nothing it can *)
(* see.                                                                    *)
(*                                                                         *)
(* Woken: a transaction that waits for a parent waits for one that is not  *)
(* attached, or the graph builder is about to hear of it.                  *)
(*                                                                         *)
(* Asked: a parent that a peer's transaction waits for is there, has been  *)
(* asked for, or is about to be.                                           *)
(*                                                                         *)
(* Vetted and Tracked need that an id names one transaction.  An issuance  *)
(* that arrives while its announcement is on its way takes the verdict of  *)
(* the latter.                                                             *)
(***************************************************************************)
EXTENDS AttachPipeline, TLAPS

(* Unless a leaf names another prover, Zenon is the one that checks it.     *)
USE Zenon

GraphTyped ==
  /\ deps \in [Txid -> SUBSET Txid]
  /\ inverse_deps \in [Txid -> SUBSET Txid]
  /\ busy \in BOOLEAN

Queued == queued_txs \cup local_queue

(* The queue of the next level is empty when that of this level is; both   *)
(* are local to a call.                                                    *)
QueuesInOrder ==
  /\ queued_txs = {} => local_queue = {}
  /\ ~busy => queued_txs = {} /\ batch = {}

(* Who waits for somebody is stored; who is stored waits for somebody, or  *)
(* is about to be looked at.                                               *)
StoredWaits ==
  \A t \in Txid : /\ deps[t] # {} => t \in stored_txs
                  /\ t \in stored_txs => deps[t] # {} \/ t \in Queued

(* A parent knows who waits for it until it is attached; from then on they *)
(* are in a queue.                                                         *)
ParentKnows ==
  \A t, p \in Txid :
    p \in deps[t] => t \in inverse_deps[p] \/ (p \in attached_txs /\ t \in Queued)

GraphInv == GraphTyped /\ QueuesInOrder /\ StoredWaits /\ ParentKnows

-----------------------------------------------------------------------------

(* Nothing that waits for a descendant is left out of Descendants, however *)
(* long the chain.                                                         *)
LEMMA DescendantsClosed ==
  ASSUME NEW t \in Txid, NEW p \in Descendants(t), NEW u \in Txid, u \in inverse_deps[p]
  PROVE  u \in Descendants(t)
  BY DEF Descendants

LEMMA Attaching ==
  ASSUME GraphInv, NEW t \in Txid, busy, busy' = busy, Attach(t),
         UNCHANGED <<deps, stored_txs, local_queue>>
  PROVE  GraphInv'
<1>1. GraphTyped'
  BY DEF GraphInv, GraphTyped, Attach
<1>2. Queued \subseteq Queued' /\ QueuesInOrder'
  BY DEF GraphInv, QueuesInOrder, Attach, Queued
<1>3. StoredWaits'
  BY <1>2 DEF GraphInv, StoredWaits
<1>4. ParentKnows'
  <2> SUFFICES ASSUME NEW u \in Txid, NEW p \in Txid, p \in deps[u]
               PROVE  \/ u \in inverse_deps'[p]
                      \/ p \in attached_txs' /\ u \in Queued'
    BY DEF ParentKnows
  <2>1. u \in inverse_deps[p] \/ (p \in attached_txs /\ u \in Queued)
    BY DEF GraphInv, ParentKnows
  <2>2. CASE p = t
    BY <1>2, <2>1, <2>2 DEF Attach, Queued, GraphInv, GraphTyped
  <2>3. CASE p # t
    BY <1>2, <2>1, <2>3 DEF Attach, GraphInv, GraphTyped
  <2> QED BY <2>2, <2>3
<1> QED BY <1>1, <1>2, <1>3, <1>4 DEF GraphInv

LEMMA TransferStep ==
  ASSUME GraphInv, NEW t \in Txid, NEW parents \in SUBSET Txid, NEW present,
         busy, busy' = busy, handle_transfer(t, parents, present)
  PROVE  GraphInv'
<1> DEFINE missing == Missing(parents, present)
           waits   == deps[t] \cup missing
<1>1. CASE waits = {} /\ Attach(t) /\ UNCHANGED <<deps, stored_txs, local_queue>>
  BY <1>1, Attaching
<1>2. CASE /\ waits # {}
           /\ deps' = [deps EXCEPT ![t] = waits]
           /\ inverse_deps' =
                [p \in Txid |-> IF p \in missing THEN inverse_deps[p] \cup {t}
                                ELSE inverse_deps[p]]
           /\ stored_txs' = stored_txs \cup {t}
           /\ UNCHANGED <<queued_txs, local_queue, attached_txs>>
  <2>1. missing \subseteq Txid /\ waits \subseteq Txid
    BY DEF Missing, GraphInv, GraphTyped
  <2> HIDE DEF missing
  <2>2. GraphTyped'
    BY <1>2, <2>1 DEF GraphInv, GraphTyped
  <2>3. Queued' = Queued /\ QueuesInOrder'
    BY <1>2 DEF GraphInv, QueuesInOrder, Queued
  <2>4. StoredWaits'
    BY <1>2, <2>1, <2>3 DEF GraphInv, GraphTyped, StoredWaits
  <2>5. ParentKnows'
    <3> SUFFICES ASSUME NEW u \in Txid, NEW p \in Txid, p \in deps'[u]
                 PROVE  \/ u \in inverse_deps'[p]
                        \/ p \in attached_txs' /\ u \in Queued'
      BY DEF ParentKnows
    <3>1. p \in deps[u] \/ (u = t /\ p \in missing)
      BY <1>2 DEF GraphInv, GraphTyped
    <3>2. CASE p \in deps[u]
      BY <1>2, <2>3, <3>2 DEF GraphInv, ParentKnows
    <3>3. CASE u = t /\ p \in missing
      BY <1>2, <3>3
    <3> QED BY <3>1, <3>2, <3>3
  <2> QED BY <2>2, <2>3, <2>4, <2>5 DEF GraphInv
<1> QED BY <1>1, <1>2 DEF handle_transfer

LEMMA BatchTurn ==
  ASSUME GraphInv, NEW x, NEW t \in Txid, NEW kind, NEW parents \in SUBSET Txid,
         NEW present, BatchStep(x, t, kind, parents, present)
  PROVE  GraphInv'
<1> USE DEF BatchStep
<1>1. CASE attach_issue(t)
  BY <1>1, Attaching DEF attach_issue
<1>2. CASE handle_transfer(t, parents, present)
  BY <1>2, TransferStep
<1>3. CASE handle_spark_exit(t)
  <2>1. Queued' = Queued /\ attached_txs \subseteq attached_txs'
    BY <1>3 DEF handle_spark_exit, Queued
  <2> QED BY <1>3, <2>1 DEF GraphInv, GraphTyped, QueuesInOrder, StoredWaits, ParentKnows,
                            handle_spark_exit
<1>4. CASE skip_announcement
  <2>1. Queued' = Queued
    BY <1>4 DEF skip_announcement, Queued
  <2> QED BY <1>4, <2>1 DEF GraphInv, GraphTyped, QueuesInOrder, StoredWaits, ParentKnows,
                            skip_announcement
<1> QED BY <1>1, <1>2, <1>3, <1>4

LEMMA QueueTurn ==
  ASSUME GraphInv, NEW t \in Txid, NEW present, QueueStep(t, present)
  PROVE  GraphInv'
<1> DEFINE left  == Missing(deps[t], present)
           woken == left = {} /\ t \in stored_txs
<1>1. /\ left \subseteq deps[t]
      /\ left \cap attached_txs = {}
      /\ deps' = [deps EXCEPT ![t] = left]
      /\ stored_txs' = IF woken THEN stored_txs \ {t} ELSE stored_txs
      /\ attached_txs' = IF woken THEN attached_txs \cup {t} ELSE attached_txs
      /\ inverse_deps' = IF woken THEN [inverse_deps EXCEPT ![t] = {}] ELSE inverse_deps
      /\ busy /\ busy' = busy
  BY DEF QueueStep, Missing
<1>2. /\ Queued \ {t} \subseteq Queued'
      /\ woken => inverse_deps[t] \subseteq Queued'
      /\ QueuesInOrder'
  BY DEF GraphInv, QueuesInOrder, QueueStep, Queued
<1> HIDE DEF left
<1>3. GraphTyped'
  BY <1>1 DEF GraphInv, GraphTyped
<1>4. StoredWaits'
  <2> SUFFICES ASSUME NEW u \in Txid
               PROVE  /\ deps'[u] # {} => u \in stored_txs'
                      /\ u \in stored_txs' => deps'[u] # {} \/ u \in Queued'
    BY DEF StoredWaits
  <2>1. CASE u = t
    BY <1>1, <2>1 DEF GraphInv, GraphTyped, StoredWaits
  <2>2. CASE u # t
    BY <1>1, <1>2, <2>2 DEF GraphInv, GraphTyped, StoredWaits
  <2> QED BY <2>1, <2>2
<1>5. ParentKnows'
  <2> SUFFICES ASSUME NEW u \in Txid, NEW p \in Txid, p \in deps'[u]
               PROVE  \/ u \in inverse_deps'[p]
                      \/ p \in attached_txs' /\ u \in Queued'
    BY DEF ParentKnows
  <2>1. p \in deps[u] /\ (u = t => p \in left)
    BY <1>1 DEF GraphInv, GraphTyped
  <2>2. u \in inverse_deps[p] \/ (p \in attached_txs /\ u \in Queued /\ u # t)
    BY <1>1, <2>1 DEF GraphInv, ParentKnows
  <2>3. CASE u \in inverse_deps[p]
    BY <1>1, <1>2, <2>3 DEF GraphInv, GraphTyped
  <2>4. CASE p \in attached_txs /\ u \in Queued /\ u # t
    BY <1>1, <1>2, <2>4
  <2> QED BY <2>2, <2>3, <2>4
<1> QED BY <1>2, <1>3, <1>4, <1>5 DEF GraphInv

LEMMA CallEnds ==
  ASSUME GraphInv, AttachDone
  PROVE  GraphInv'
<1>1. Queued = {} /\ Queued' = {}
  BY DEF GraphInv, QueuesInOrder, AttachDone, Queued
<1> QED
  BY <1>1 DEF GraphInv, GraphTyped, QueuesInOrder, StoredWaits, ParentKnows, AttachDone

LEMMA Removal ==
  ASSUME GraphInv, NEW t \in Txid, remove_outdated_tx(t)
  PROVE  GraphInv'
<1> DEFINE removed == Descendants(t)
<1>1. Queued = {} /\ Queued' = {} /\ QueuesInOrder'
  BY DEF GraphInv, QueuesInOrder, remove_outdated_tx, Queued
<1>2. /\ stored_txs' = stored_txs \ removed
      /\ deps' = [u \in Txid |-> IF u \in removed THEN {} ELSE deps[u]]
      /\ inverse_deps' =
           [p \in Txid |-> IF p \in removed THEN {}
                           ELSE {u \in inverse_deps[p] : ~(u \in removed /\ p \in deps[u])}]
      /\ busy' = busy
  BY DEF remove_outdated_tx
<1>3. \A p \in removed : \A u \in Txid : u \in inverse_deps[p] => u \in removed
  BY DescendantsClosed
<1> HIDE DEF removed
<1>4. GraphTyped'
  BY <1>2 DEF GraphInv, GraphTyped
<1>5. StoredWaits'
  BY <1>1, <1>2 DEF GraphInv, GraphTyped, StoredWaits
<1>6. ParentKnows'
  BY <1>1, <1>2, <1>3 DEF GraphInv, GraphTyped, ParentKnows
<1> QED BY <1>1, <1>4, <1>5, <1>6 DEF GraphInv

-----------------------------------------------------------------------------

(* The invariant of the graph builder, over all steps of the pipeline.     *)
THEOREM GraphInvariant == Spec => []GraphInv
<1>1. Init => GraphInv
  BY DEF Init, GraphInit, GraphInv, GraphTyped, QueuesInOrder, StoredWaits, ParentKnows, Queued
<1>2. GraphInv /\ [Next]_vars => GraphInv'
  <2> SUFFICES ASSUME GraphInv, [Next]_vars PROVE GraphInv'
    OBVIOUS
  <2>1. ASSUME UNCHANGED graphVars PROVE GraphInv'
    BY <2>1 DEF graphVars, GraphInv, GraphTyped, QueuesInOrder, StoredWaits, ParentKnows, Queued
  <2>2. CASE GraphStep
    <3>1. CASE \E S : attach_txs(S)
      <4>1. Queued' = Queued
        BY <3>1 DEF attach_txs, Queued
      <4> QED
        BY <3>1, <4>1 DEF attach_txs, GraphInv, GraphTyped, QueuesInOrder, StoredWaits,
                          ParentKnows
    <3>2. ASSUME NEW x \in Tx,
                 BatchStep(x, TxidOf[x], Kind[x], Parents[x] \ EmptyParents[x], Present)
          PROVE  GraphInv'
      <4>1. TxidOf[x] \in Txid /\ Parents[x] \ EmptyParents[x] \in SUBSET Txid
        BY TxAssumption, CheckerAssumption
      <4> QED BY <3>2, <4>1, BatchTurn
    <3>3. ASSUME NEW t \in Txid, QueueStep(t, Present) PROVE GraphInv'
      BY <3>3, QueueTurn
    <3>4. CASE AttachDone
      BY <3>4, CallEnds
    <3> QED BY <2>2, <3>1, <3>2, <3>3, <3>4 DEF GraphStep
  <2>3. CASE GraphCleanup
    BY <2>3, Removal DEF GraphCleanup
  <2>4. CASE RestartNode
    BY <2>4 DEF RestartNode, GraphInv, GraphTyped, QueuesInOrder, StoredWaits, ParentKnows,
                Queued
  <2>5. CASE Crash
    BY <2>4, <2>5 DEF Crash
  <2>6. CASE CrashBetweenInserts
    BY <2>4, <2>6 DEF CrashBetweenInserts
  <2>7. ASSUME NEW x \in Tx, Submit(x) PROVE GraphInv'
    BY <2>1, <2>7 DEF Submit
  <2>8. CASE ConfirmatorTakes
    BY <2>1, <2>8 DEF ConfirmatorTakes
  <2>9. ASSUME NEW S \in SUBSET Txid, ConfirmatorConfirms(S) PROVE GraphInv'
    BY <2>1, <2>9 DEF ConfirmatorConfirms
  <2>14. ASSUME NEW S \in SUBSET Txid, ConfirmatorMines(S) PROVE GraphInv'
    BY <2>1, <2>14 DEF ConfirmatorMines
  <2>10. CASE ControllerStep
    BY <2>1, <2>10 DEF ControllerStep
  <2>11. CASE send_get_data
    BY <2>1, <2>11 DEF send_get_data
  <2>12. CASE CheckerStep
    BY <2>1, <2>12 DEF CheckerStep
  <2>13. CASE UNCHANGED vars
    BY <2>1, <2>13 DEF vars
  <2> QED
    BY <2>2, <2>3, <2>5, <2>6, <2>7, <2>8, <2>9, <2>10, <2>11, <2>12, <2>13,
       <2>14 DEF Next
<1> QED BY <1>1, <1>2, PTL DEF Spec

(* Between two calls of attach_txs, deps, inverse_deps and stored_txs      *)
(* agree: who waits is stored, waits for somebody and is known to every    *)
(* parent, after any sequence of batches, cleanups and restarts.           *)
THEOREM WaitersAlwaysKnown == Spec => []WaitersKnown
<1>1. GraphInv => WaitersKnown
  BY DEF GraphInv, GraphTyped, QueuesInOrder, StoredWaits, ParentKnows, Queued, WaitersKnown
<1> QED BY <1>1, GraphInvariant, PTL

-----------------------------------------------------------------------------
OneTxPerId == \A x, y \in Tx : TxidOf[x] = TxidOf[y] => x = y

-----------------------------------------------------------------------------
(* Channels.                                                               *)

LEMMA HeadTail ==
  ASSUME NEW S, NEW s \in Seq(S), s # <<>>
  PROVE  Head(s) \in S /\ Tail(s) \in Seq(S)
  BY SMT

LEMMA Sending ==
  ASSUME NEW S, NEW s \in Seq(S), NEW m \in S
  PROVE  Send(s, m) \in Seq(S) /\ SendUnlessEmpty(s, m) \in Seq(S)
  BY SMT DEF Send, SendUnlessEmpty

-----------------------------------------------------------------------------
(* Vetted.                                                                 *)

(* The messages whose id names one that passes the isolated check, and     *)
(* those whose id also names one that passes the full check.               *)
SoundId == {x \in Tx : TxidOf[x] \in Ids(Sound)}

Passable == {x \in Tx : x \in Permitted \/ Kind[x] \in {"Issue", "IssueAnnouncement"}}

Passed == {x \in SoundId : TxidOf[x] \in Ids(Passable)}

ControllerMsgs ==
  [type : {"InitializeTxs"}, txs : SUBSET Tx]
    \cup [type : {"PartiallyCheckedTxs", "MinedTxs", "ConfirmedTxs"}, txs : SUBSET Ids(Sound)]
    \cup [type : {"FullyCheckedTxs"}, txs : SUBSET Passed]
    \cup [type : {"AttachedTxs"}, txs : SUBSET Ids(Passed)]
    \cup [type : {"InvalidTxs", "GetData"}, txs : SUBSET Txid]

CheckerMsgs ==
  [type : {"IsolatedCheck"}, txs : SUBSET Tx] \cup [type : {"FullCheck"}, txs : SUBSET SoundId]

GraphMsgs == [type : {"CheckedTxs"}, txs : SUBSET Passed]

ConfirmMsgs == [type : {"Txs"}, txs : SUBSET Ids(Sound)]

ChannelsVetted ==
  /\ toController \in Seq(ControllerMsgs)
  /\ toChecker \in Seq(CheckerMsgs)
  /\ toGraph \in Seq(GraphMsgs)
  /\ toConfirm \in Seq(ConfirmMsgs)

RowsVetted ==
  /\ l1 \in [Txid -> L1Row \cup {NoRow}]
  /\ \A t \in Txid : l1[t] # NoRow =>
       /\ TxidOf[l1[t].tx] = t
       /\ l1[t].status = "Attached" => l1[t].tx \in Passed

EntriesVetted ==
  /\ mempool \in [Txid -> MempoolStatus]
  /\ \A t \in Txid : /\ mempool[t] # "None" => l1[t] # NoRow
                     /\ mempool[t] \in {"WaitingMined", "Mined"} => t \in Ids(Sound)
                     /\ mempool[t] = "Attaching" => t \in Ids(Passed)

ServicesVetted ==
  /\ waiting \subseteq Ids(Sound) /\ mined \subseteq waiting
  /\ unchecked \subseteq SoundId /\ checked_txs \subseteq Passed /\ invalid_txs \subseteq Tx
  /\ not_found_parents \subseteq Txid
  /\ batch \subseteq Passed
  /\ stored_txs \subseteq Ids(Passed) /\ attached_txs \subseteq Ids(Passed)

Vetted == ChannelsVetted /\ RowsVetted /\ EntriesVetted /\ ServicesVetted

(* The constant sets.                                                      *)
LEMMA IdSets ==
  /\ Passed \subseteq SoundId /\ Sound \subseteq SoundId /\ SoundId \subseteq Tx
  /\ Ids(Passed) \subseteq Ids(Sound) /\ Ids(Sound) \subseteq Txid
  /\ \A X \in SUBSET Tx : Ids(X) \subseteq Txid
  /\ \A X \in SUBSET Passed : Ids(X) \subseteq Ids(Passed)
  /\ \A X \in SUBSET SoundId : Ids(X) \subseteq Ids(Sound)
<1>1. Passed \subseteq SoundId /\ Sound \subseteq SoundId /\ SoundId \subseteq Tx
  BY CheckerAssumption DEF Passed, SoundId, Ids
<1>2. \A X \in SUBSET SoundId : Ids(X) \subseteq Ids(Sound)
  BY DEF SoundId, Ids
<1>3. \A X \in SUBSET Tx : Ids(X) \subseteq Txid
  BY TxAssumption DEF Ids
<1>4. \A X \in SUBSET Passed : Ids(X) \subseteq Ids(Passed)
  BY DEF Ids
<1> QED
  BY <1>1, <1>2, <1>3, <1>4

(* A message that passes a check is one of those.                          *)
LEMMA Passes ==
  ASSUME NEW x \in SoundId, x \in Permitted \/ Kind[x] \in {"Issue", "IssueAnnouncement"}
  PROVE  x \in Passed
<1>1. x \in Passable
  BY IdSets DEF Passable
<1> QED
  BY <1>1 DEF Passed, Ids

(* The stored message has the id that has been vetted.                     *)
LEMMA RowOfId ==
  ASSUME Vetted, NEW t \in Txid, l1[t] # NoRow
  PROVE  /\ l1[t] \in L1Row /\ l1[t].tx \in Tx /\ TxidOf[l1[t].tx] = t
         /\ t \in Ids(Sound) => l1[t].tx \in SoundId
         /\ t \in Ids(Passed) => l1[t].tx \in Passed
<1>1. l1[t] \in L1Row /\ l1[t].tx \in Tx /\ TxidOf[l1[t].tx] = t
  BY DEF Vetted, RowsVetted, L1Row
<1>2. t \in Ids(Sound) => l1[t].tx \in SoundId
  BY <1>1 DEF SoundId
<1>3. ASSUME t \in Ids(Passed)
      PROVE  l1[t].tx \in Passed
  <2>1. PICK y \in Passed : TxidOf[y] = t
    BY <1>3 DEF Ids
  <2> QED
    BY <1>1, <2>1 DEF Passed, SoundId
<1> QED
  BY <1>1, <1>2, <1>3

LEMMA RowsStay ==
  ASSUME Vetted, UNCHANGED storage
  PROVE  RowsVetted' /\ EntriesVetted'
  BY DEF storage, Vetted, RowsVetted, EntriesVetted

(* insert_lrc20_transaction of one or more transactions.                   *)
LEMMA InsertedIds ==
  ASSUME NEW X \in SUBSET Tx, l1' = Inserted(X)
  PROVE  /\ DOMAIN l1' = Txid /\ l1' = [t \in Txid |-> l1'[t]]
         /\ \A t \in Ids(X) : \E x \in X :
              TxidOf[x] = t /\ l1'[t] = [tx |-> x, status |-> "Handling"]
         /\ \A t \in Txid : t \notin Ids(X) => l1'[t] = l1[t]
<1>1. DOMAIN l1' = Txid /\ l1' = [t \in Txid |-> l1'[t]]
  BY DEF Inserted
<1>2. ASSUME NEW t \in Ids(X)
      PROVE  \E x \in X : TxidOf[x] = t /\ l1'[t] = [tx |-> x, status |-> "Handling"]
  <2> DEFINE y == CHOOSE x \in X : TxidOf[x] = t
  <2>1. t \in Txid /\ \E x \in X : TxidOf[x] = t
    BY IdSets DEF Ids
  <2>2. y \in X /\ TxidOf[y] = t
    BY <2>1
  <2>3. l1'[t] = [tx |-> y, status |-> "Handling"]
    BY <2>1 DEF Inserted
  <2> QED
    BY <2>2, <2>3
<1>3. \A t \in Txid : t \notin Ids(X) => l1'[t] = l1[t]
  BY SMT DEF Inserted, Ids
<1> QED
  BY <1>1, <1>2, <1>3

LEMMA InsertedRows ==
  ASSUME OneTxPerId, NEW X \in SUBSET Tx, l1' = Inserted(X)
  PROVE  /\ DOMAIN l1' = Txid /\ l1' = [t \in Txid |-> l1'[t]]
         /\ \A x \in X : l1'[TxidOf[x]] = [tx |-> x, status |-> "Handling"]
         /\ \A t \in Txid : t \notin Ids(X) => l1'[t] = l1[t]
<1>1. ASSUME NEW x \in X
      PROVE  l1'[TxidOf[x]] = [tx |-> x, status |-> "Handling"]
  <2>1. TxidOf[x] \in Ids(X)
    BY DEF Ids
  <2>2. PICK y \in X : TxidOf[y] = TxidOf[x]
                      /\ l1'[TxidOf[x]] = [tx |-> y, status |-> "Handling"]
    BY <2>1, InsertedIds
  <2> QED
    BY <2>2 DEF OneTxPerId
<1> QED
  BY <1>1, InsertedIds

LEMMA InsertedVetted ==
  ASSUME Vetted, NEW X \in SUBSET Tx, l1' = Inserted(X)
  PROVE  /\ RowsVetted'
         /\ \A t \in Txid : l1[t] # NoRow \/ t \in Ids(X) => l1'[t] # NoRow
<1>1. /\ DOMAIN l1' = Txid /\ l1' = [t \in Txid |-> l1'[t]]
      /\ \A t \in Ids(X) : \E x \in X :
           TxidOf[x] = t /\ l1'[t] = [tx |-> x, status |-> "Handling"]
      /\ \A t \in Txid : t \notin Ids(X) => l1'[t] = l1[t]
  BY InsertedIds
<1>2. ASSUME NEW t \in Txid, t \in Ids(X)
      PROVE  /\ l1'[t] \in L1Row /\ l1'[t] # NoRow
             /\ TxidOf[l1'[t].tx] = t /\ l1'[t].status = "Handling"
  <2>1. PICK x \in X : TxidOf[x] = t /\ l1'[t] = [tx |-> x, status |-> "Handling"]
    BY <1>1, <1>2
  <2>3. l1'[t] \in L1Row /\ l1'[t].tx = x
    BY SMT, <2>1 DEF L1Row, L1TxStatus
  <2> QED
    BY SMT, <2>1, <2>3, TxAssumption
<1>3. ASSUME NEW t \in Txid
      PROVE  /\ l1'[t] \in L1Row \cup {NoRow}
             /\ l1'[t] # NoRow =>
                  /\ TxidOf[l1'[t].tx] = t
                  /\ l1'[t].status = "Attached" => l1'[t].tx \in Passed
             /\ l1[t] # NoRow \/ t \in Ids(X) => l1'[t] # NoRow
  <2>1. CASE t \in Ids(X)
    BY <1>2, <2>1
  <2>2. CASE t \notin Ids(X)
    BY <1>1, <2>2 DEF Vetted, RowsVetted
  <2> QED
    BY <2>1, <2>2
<1> QED
  BY <1>1, <1>3 DEF RowsVetted

-----------------------------------------------------------------------------
(* The handlers of the controller keep what is vetted.                     *)

(* set_lrc20_tx_status to Attached.                                        *)
LEMMA AttachedRows ==
  ASSUME Vetted, NEW S, l1' = WithStatus(S, "Attached"), S \subseteq Ids(Passed)
  PROVE  /\ RowsVetted'
         /\ \A t \in Txid : /\ l1'[t] # NoRow <=> l1[t] # NoRow
                            /\ t \notin S => l1'[t] = l1[t]
                            /\ t \in S /\ l1[t] # NoRow =>
                                 l1'[t].tx = l1[t].tx /\ l1'[t].status = "Attached"
<1>1. ASSUME NEW t \in Txid, t \in S, l1[t] # NoRow
      PROVE  /\ l1'[t] = [l1[t] EXCEPT !.status = "Attached"]
             /\ l1'[t] \in L1Row /\ l1'[t] # NoRow
             /\ l1'[t].tx = l1[t].tx /\ l1'[t].status = "Attached"
  <2>1. l1[t] \in L1Row /\ l1'[t] = [l1[t] EXCEPT !.status = "Attached"]
    BY <1>1, RowOfId DEF WithStatus
  <2>2. /\ l1'[t] \in L1Row /\ l1'[t].tx = l1[t].tx /\ l1'[t].status = "Attached"
    BY <2>1 DEF L1Row, L1TxStatus
  <2> QED
    BY <2>1, <2>2, TxAssumption
<1>2. ASSUME NEW t \in Txid, t \notin S \/ l1[t] = NoRow
      PROVE  l1'[t] = l1[t]
  BY <1>2 DEF WithStatus
<1>3. ASSUME NEW t \in Txid
      PROVE  /\ l1'[t] \in L1Row \cup {NoRow}
             /\ l1'[t] # NoRow =>
                  /\ TxidOf[l1'[t].tx] = t
                  /\ l1'[t].status = "Attached" => l1'[t].tx \in Passed
  <2>1. CASE t \in S /\ l1[t] # NoRow
    <3>1. TxidOf[l1[t].tx] = t /\ l1[t].tx \in Passed
      BY <2>1, RowOfId
    <3> QED
      BY <1>1, <2>1, <3>1
  <2>2. CASE t \notin S \/ l1[t] = NoRow
    BY <1>2, <2>2 DEF Vetted, RowsVetted
  <2> QED
    BY <2>1, <2>2
<1>4. l1' = [t \in Txid |-> l1'[t]]
  BY DEF WithStatus
<1>5. RowsVetted'
  BY <1>3, <1>4 DEF RowsVetted
<1> QED
  BY <1>1, <1>2, <1>5

LEMMA NewVetted ==
  ASSUME Vetted, NEW X \in SUBSET Tx, handle_new_lrc20_txs(X)
  PROVE  RowsVetted' /\ EntriesVetted' /\ toChecker' \in Seq(CheckerMsgs)
<1> DEFINE new == {x \in X : IsNew(x)}
<1>1. l1' = Inserted(new) /\ mempool' = MempoolPut(Ids(new)) /\ new \in SUBSET Tx
      /\ toChecker' = SendUnlessEmpty(toChecker, IsolatedCheck(new))
  BY DEF handle_new_lrc20_txs
<1> HIDE DEF new
<1>2. RowsVetted' /\ \A t \in Txid : l1[t] # NoRow => l1'[t] # NoRow
  BY <1>1, InsertedVetted
<1>3. \A t \in Ids(new) : l1'[t] # NoRow
  BY <1>1, InsertedVetted, IdSets
<1>4. ASSUME NEW t \in Txid
      PROVE  \/ mempool'[t] = mempool[t]
             \/ t \in Ids(new) /\ mempool'[t] = "Initialized"
  BY <1>1 DEF MempoolPut
<1>5. mempool' = [t \in Txid |-> mempool'[t]]
  BY <1>1 DEF MempoolPut
<1>6. EntriesVetted'
  BY <1>2, <1>3, <1>4, <1>5 DEF Vetted, EntriesVetted, MempoolStatus
<1>7. IsolatedCheck(new) \in CheckerMsgs
  BY <1>1 DEF IsolatedCheck, CheckerMsgs
<1> QED
  BY <1>1, <1>2, <1>6, <1>7, Sending DEF Vetted, ChannelsVetted

(* update_mempool_tx_status of ids that have an entry.                     *)
LEMMA SetVetted ==
  ASSUME Vetted, UNCHANGED l1, NEW S, NEW s \in {"WaitingMined", "Mined", "Attaching"},
         \A t \in S : mempool[t] # "None",
         S \subseteq Ids(Sound), s = "Attaching" => S \subseteq Ids(Passed),
         mempool' = MempoolSet(S, s)
  PROVE  RowsVetted' /\ EntriesVetted'
<1>1. RowsVetted'
  BY DEF Vetted, RowsVetted
<1>2. ASSUME NEW t \in Txid
      PROVE  \/ t \notin S /\ mempool'[t] = mempool[t]
             \/ t \in S /\ mempool'[t] = s
  BY DEF MempoolSet
<1>3. mempool' = [t \in Txid |-> mempool'[t]]
  BY DEF MempoolSet
<1>4. EntriesVetted'
  BY <1>2, <1>3 DEF Vetted, EntriesVetted, MempoolStatus
<1> QED
  BY <1>1, <1>4

LEMMA MissingVetted ==
  ASSUME Vetted, NEW S \in SUBSET Ids(Sound), NEW s \in {"WaitingMined", "Mined", "Attaching"},
         s = "Attaching" => S \subseteq Ids(Passed), MissingEntry(S, s)
  PROVE  RowsVetted' /\ EntriesVetted'
<1>1. PICK done \in SUBSET Entries(S) : mempool' = MempoolSet(done, s)
  BY DEF MissingEntry
<1>2. done \subseteq S /\ \A t \in done : mempool[t] # "None"
  BY DEF Entries
<1> QED
  BY <1>1, <1>2, SetVetted DEF MissingEntry

LEMMA PartiallyCheckedVetted ==
  ASSUME Vetted, NEW S \in SUBSET Ids(Sound), handle_partially_checked_txs(S)
  PROVE  RowsVetted' /\ EntriesVetted' /\ toConfirm' \in Seq(ConfirmMsgs)
<1>1. CASE /\ Entries(S) = S /\ mempool' = MempoolSet(S, "WaitingMined")
           /\ toConfirm' = Send(toConfirm, Txs(S)) /\ UNCHANGED l1
  <2>1. \A t \in S : mempool[t] # "None"
    BY <1>1 DEF Entries
  <2>2. Txs(S) \in ConfirmMsgs
    BY DEF Txs, ConfirmMsgs
  <2> QED
    BY <1>1, <2>1, <2>2, SetVetted, Sending DEF Vetted, ChannelsVetted
<1>2. CASE MissingEntry(S, "WaitingMined") /\ UNCHANGED toConfirm
  BY <1>2, MissingVetted DEF Vetted, ChannelsVetted
<1> QED
  BY <1>1, <1>2 DEF handle_partially_checked_txs

LEMMA MinedVetted ==
  ASSUME Vetted, NEW S \in SUBSET Ids(Sound), handle_mined_txs(S)
  PROVE  RowsVetted' /\ EntriesVetted'
<1>1. CASE Entries(S) = S /\ mempool' = MempoolSet(S, "Mined") /\ UNCHANGED l1
  <2>1. \A t \in S : mempool[t] # "None"
    BY <1>1 DEF Entries
  <2> QED
    BY <1>1, <2>1, SetVetted
<1>2. CASE MissingEntry(S, "Mined")
  BY <1>2, MissingVetted
<1> QED
  BY <1>1, <1>2 DEF handle_mined_txs

LEMMA ConfirmedVetted ==
  ASSUME Vetted, NEW S \in SUBSET Ids(Sound), handle_confirmed_txs(S)
  PROVE  RowsVetted' /\ EntriesVetted' /\ toChecker' \in Seq(CheckerMsgs)
<1>1. ASSUME NEW t \in Entries(S) PROVE l1[t].tx \in SoundId
  <2>1. t \in Txid /\ t \in Ids(Sound) /\ l1[t] # NoRow
    BY IdSets DEF Entries, Vetted, EntriesVetted
  <2> QED
    BY <2>1, RowOfId
<1>2. FullCheck(StoredTxs(Entries(S))) \in CheckerMsgs
  BY <1>1 DEF FullCheck, StoredTxs, CheckerMsgs
<1> QED
  BY <1>2, Sending, RowsStay DEF handle_confirmed_txs, Vetted, ChannelsVetted, storage

LEMMA InvalidVetted ==
  ASSUME Vetted, NEW S \in SUBSET Txid, handle_invalid_txs(S, Entries(S))
  PROVE  RowsVetted' /\ EntriesVetted'
<1>1. ASSUME NEW t \in Txid
      PROVE  \/ l1'[t] = l1[t] /\ t \notin Entries(S)
             \/ /\ t \in Entries(S) /\ l1[t] # NoRow
                /\ l1'[t] = [l1[t] EXCEPT !.status = "InvalidIssue"]
             \/ t \in Entries(S) /\ l1'[t] = NoRow
  BY DEF handle_invalid_txs, Entries, Vetted, EntriesVetted
<1>2. ASSUME NEW t \in Txid
      PROVE  /\ l1'[t] \in L1Row \cup {NoRow}
             /\ l1'[t] # NoRow =>
                  /\ TxidOf[l1'[t].tx] = t
                  /\ l1'[t].status = "Attached" => l1'[t].tx \in Passed
  <2>1. CASE l1'[t] = l1[t]
    BY <2>1 DEF Vetted, RowsVetted
  <2>2. CASE l1[t] # NoRow /\ l1'[t] = [l1[t] EXCEPT !.status = "InvalidIssue"]
    BY <2>2, RowOfId DEF L1Row, L1TxStatus
  <2> QED
    BY <1>1, <2>1, <2>2
<1>3. l1' = [t \in Txid |-> l1'[t]]
  BY DEF handle_invalid_txs
<1>4. RowsVetted'
  BY <1>2, <1>3 DEF RowsVetted
<1>5. ASSUME NEW t \in Txid
      PROVE  /\ mempool'[t] = IF t \in S THEN "None" ELSE mempool[t]
             /\ t \notin S => l1'[t] = l1[t]
  BY <1>1 DEF handle_invalid_txs, MempoolDelete, MempoolSet, Entries
<1>6. mempool' = [t \in Txid |-> mempool'[t]]
  BY DEF handle_invalid_txs, MempoolDelete, MempoolSet
<1>7. EntriesVetted'
  BY <1>5, <1>6 DEF Vetted, EntriesVetted, MempoolStatus
<1> QED
  BY <1>4, <1>7

LEMMA AttachedVetted ==
  ASSUME Vetted, NEW S \in SUBSET Ids(Passed), handle_attached_txs(S)
  PROVE  RowsVetted' /\ EntriesVetted'
<1>1. /\ RowsVetted'
      /\ \A t \in Txid : l1'[t] # NoRow <=> l1[t] # NoRow
  BY AttachedRows DEF handle_attached_txs
<1>2. ASSUME NEW t \in Txid
      PROVE  mempool'[t] = IF t \in S THEN "None" ELSE mempool[t]
  BY DEF handle_attached_txs, MempoolDelete, MempoolSet
<1>3. mempool' = [t \in Txid |-> mempool'[t]]
  BY DEF handle_attached_txs, MempoolDelete, MempoolSet
<1>4. EntriesVetted'
  BY <1>1, <1>2, <1>3 DEF Vetted, EntriesVetted, MempoolStatus
<1> QED
  BY <1>1, <1>4

LEMMA FullyCheckedVetted ==
  ASSUME Vetted, NEW X \in SUBSET Passed, handle_fully_checked_txs(X)
  PROVE  RowsVetted' /\ EntriesVetted' /\ toGraph' \in Seq(GraphMsgs)
<1> DEFINE announcements == {x \in X : IsAnnouncement(x)}
           others == X \ announcements
<1>1. Ids(others) \subseteq Ids(Passed) /\ Ids(announcements) \subseteq Ids(Passed)
  BY DEF Ids
<1>2. CASE MissingEntry(Ids(others), "Attaching") /\ UNCHANGED toGraph
  <2>1. Ids(others) \subseteq Ids(Sound)
    BY <1>1, IdSets
  <2> QED
    BY <1>1, <1>2, <2>1, MissingVetted DEF Vetted, ChannelsVetted
<1>3. CASE /\ Entries(Ids(others)) = Ids(others)
           /\ mempool' =
                [t \in Txid |-> IF t \in Ids(announcements) THEN "None"
                                ELSE IF t \in Ids(others) THEN "Attaching"
                                ELSE mempool[t]]
           /\ l1' = WithStatus(Ids(announcements), "Attached")
           /\ toGraph' = SendUnlessEmpty(toGraph, CheckedTxs(others))
  <2>1. CheckedTxs(others) \in GraphMsgs
    BY DEF CheckedTxs, GraphMsgs
  <2>2. toGraph' \in Seq(GraphMsgs)
    BY <1>3, <2>1, Sending DEF Vetted, ChannelsVetted
  <2> HIDE DEF announcements, others
  <2>3. /\ RowsVetted'
        /\ \A t \in Txid : l1'[t] # NoRow <=> l1[t] # NoRow
    BY <1>1, <1>3, AttachedRows
  <2>4. ASSUME NEW t \in Txid
        PROVE  \/ mempool'[t] = "None"
               \/ mempool'[t] = "Attaching" /\ t \in Ids(others) /\ mempool[t] # "None"
               \/ mempool'[t] = mempool[t]
    BY <1>3 DEF Entries
  <2>5. mempool' = [t \in Txid |-> mempool'[t]]
    BY <1>3
  <2>6. EntriesVetted'
    BY <1>1, <2>3, <2>4, <2>5 DEF Vetted, EntriesVetted, MempoolStatus
  <2> QED
    BY <2>2, <2>3, <2>6
<1> QED
  BY <1>2, <1>3 DEF handle_fully_checked_txs

-----------------------------------------------------------------------------
(* The steps keep what is vetted.                                          *)

LEMMA ControllerStepVetted ==
  ASSUME Vetted, ControllerStep
  PROVE  Vetted'
<1> DEFINE m == Head(toController)
<1>1. m \in ControllerMsgs /\ toController' \in Seq(ControllerMsgs) /\ m.type # "GetData"
  BY HeadTail DEF Vetted, ChannelsVetted, ControllerStep, ControllerEvent
<1>2. ServicesVetted'
  BY DEF Vetted, ServicesVetted, ControllerStep, checkerVars, graphVars
<1>3. SUFFICES /\ RowsVetted' /\ EntriesVetted'
               /\ toChecker' \in Seq(CheckerMsgs) /\ toGraph' \in Seq(GraphMsgs)
               /\ toConfirm' \in Seq(ConfirmMsgs)
  BY <1>1, <1>2 DEF Vetted, ChannelsVetted
<1> USE DEF ControllerStep, ControllerEvent, ControllerMsgs, Vetted, ChannelsVetted
<1>4. CASE m.type = "InitializeTxs"
  <2>1. handle_new_lrc20_txs(m.txs) /\ m.txs \in SUBSET Tx
    BY <1>1, <1>4
  <2> QED
    BY <2>1, NewVetted DEF handle_new_lrc20_txs
<1>5. CASE m.type = "PartiallyCheckedTxs"
  <2>1. handle_partially_checked_txs(m.txs) /\ m.txs \in SUBSET Ids(Sound)
    BY <1>1, <1>5
  <2> QED
    BY <2>1, PartiallyCheckedVetted DEF handle_partially_checked_txs
<1>6. CASE m.type = "FullyCheckedTxs"
  <2>1. handle_fully_checked_txs(m.txs) /\ m.txs \in SUBSET Passed
    BY <1>1, <1>6
  <2>2. UNCHANGED <<toChecker, toConfirm>>
    BY <2>1 DEF handle_fully_checked_txs
  <2> QED
    BY <2>1, <2>2, FullyCheckedVetted
<1>7. CASE m.type = "InvalidTxs"
  <2>1. handle_invalid_txs(m.txs, Entries(m.txs)) /\ m.txs \in SUBSET Txid
    BY <1>1, <1>7
  <2> QED
    BY <2>1, InvalidVetted DEF handle_invalid_txs
<1>8. CASE m.type = "MinedTxs"
  <2>1. handle_mined_txs(m.txs) /\ m.txs \in SUBSET Ids(Sound)
    BY <1>1, <1>8
  <2> QED
    BY <2>1, MinedVetted DEF handle_mined_txs
<1>9. CASE m.type = "ConfirmedTxs"
  <2>1. handle_confirmed_txs(m.txs) /\ m.txs \in SUBSET Ids(Sound)
    BY <1>1, <1>9
  <2> QED
    BY <2>1, ConfirmedVetted DEF handle_confirmed_txs
<1>10. CASE m.type = "AttachedTxs"
  <2>1. handle_attached_txs(m.txs) /\ m.txs \in SUBSET Ids(Passed)
    BY <1>1, <1>10
  <2> QED
    BY <2>1, AttachedVetted DEF handle_attached_txs
<1> QED
  BY <1>1, <1>4, <1>5, <1>6, <1>7, <1>8, <1>9, <1>10

LEMMA SubmitVetted ==
  ASSUME Vetted, NEW x \in Tx, Submit(x)
  PROVE  Vetted'
<1>1. InitializeTxs({x}) \in ControllerMsgs
  BY DEF InitializeTxs, ControllerMsgs
<1>2. ChannelsVetted'
  BY <1>1, Sending DEF Submit, Vetted, ChannelsVetted
<1>3. ServicesVetted'
  BY DEF Submit, Vetted, ServicesVetted, checkerVars, graphVars
<1> QED
  BY <1>2, <1>3, RowsStay DEF Submit, Vetted

LEMMA ConfirmatorTakesVetted ==
  ASSUME Vetted, ConfirmatorTakes
  PROVE  Vetted'
<1>1. Head(toConfirm) \in ConfirmMsgs /\ Tail(toConfirm) \in Seq(ConfirmMsgs)
  BY HeadTail DEF ConfirmatorTakes, Vetted, ChannelsVetted
<1>2. ChannelsVetted'
  BY <1>1 DEF ConfirmatorTakes, Vetted, ChannelsVetted
<1>3. ServicesVetted'
  BY <1>1 DEF ConfirmatorTakes, Vetted, ServicesVetted, checkerVars, graphVars, ConfirmMsgs
<1> QED
  BY <1>2, <1>3, RowsStay DEF ConfirmatorTakes, Vetted

LEMMA ConfirmatorMinesVetted ==
  ASSUME Vetted, NEW S \in SUBSET Txid, ConfirmatorMines(S)
  PROVE  Vetted'
<1>1. MinedTxs(S) \in ControllerMsgs
  BY DEF ConfirmatorMines, Vetted, ServicesVetted, MinedTxs, ControllerMsgs
<1>2. ChannelsVetted'
  BY <1>1, Sending DEF ConfirmatorMines, Vetted, ChannelsVetted
<1>3. ServicesVetted'
  BY DEF ConfirmatorMines, Vetted, ServicesVetted, checkerVars, graphVars
<1> QED
  BY <1>2, <1>3, RowsStay DEF ConfirmatorMines, Vetted

LEMMA ConfirmatorConfirmsVetted ==
  ASSUME Vetted, NEW S \in SUBSET Txid, ConfirmatorConfirms(S)
  PROVE  Vetted'
<1>1. ConfirmedTxs(S) \in ControllerMsgs
  BY DEF ConfirmatorConfirms, Vetted, ServicesVetted, ConfirmedTxs, ControllerMsgs
<1>2. ChannelsVetted'
  BY <1>1, Sending DEF ConfirmatorConfirms, Vetted, ChannelsVetted
<1>3. ServicesVetted'
  BY DEF ConfirmatorConfirms, Vetted, ServicesVetted, checkerVars, graphVars
<1> QED
  BY <1>2, <1>3, RowsStay DEF ConfirmatorConfirms, Vetted

LEMMA GetDataVetted ==
  ASSUME Vetted, send_get_data
  PROVE  Vetted'
<1>1. ChannelsVetted'
  BY HeadTail DEF send_get_data, Next1, Vetted, ChannelsVetted
<1>2. ServicesVetted'
  BY DEF send_get_data, Vetted, ServicesVetted, checkerVars, graphVars
<1> QED
  BY <1>1, <1>2, RowsStay DEF send_get_data, Vetted

LEMMA IsolatedVetted ==
  ASSUME Vetted, check_txs_isolated, UNCHANGED <<toGraph, toConfirm, graphVars, waiting, mined>>
  PROVE  Vetted'
<1> DEFINE txs == Head(toChecker).txs
<1>1. txs \in SUBSET Tx /\ Tail(toChecker) \in Seq(CheckerMsgs)
  <2>1. toChecker # <<>> /\ toChecker \in Seq(CheckerMsgs)
    BY DEF check_txs_isolated, CheckerTakes, Next1, Vetted, ChannelsVetted
  <2>2. Head(toChecker) \in CheckerMsgs /\ Tail(toChecker) \in Seq(CheckerMsgs)
    BY <2>1, HeadTail
  <2>3. \A c \in CheckerMsgs : c.txs \in SUBSET Tx
    BY IdSets DEF CheckerMsgs
  <2> QED
    BY <2>2, <2>3
<1>2. /\ PartiallyCheckedTxs(Ids(txs \cap Sound)) \in ControllerMsgs
      /\ InvalidTxs(Ids(txs \ Sound)) \in ControllerMsgs
  BY <1>1, IdSets DEF PartiallyCheckedTxs, InvalidTxs, ControllerMsgs
<1>3. ChannelsVetted'
  BY <1>1, <1>2, Sending DEF check_txs_isolated, CheckerTakes, Vetted, ChannelsVetted
<1>4. ServicesVetted'
  BY DEF check_txs_isolated, Vetted, ServicesVetted, checkerVars, graphVars
<1> QED
  BY <1>3, <1>4, RowsStay DEF check_txs_isolated, Vetted

LEMMA FullVetted ==
  ASSUME Vetted, check_txs_full, UNCHANGED <<toGraph, toConfirm, graphVars, waiting, mined>>
  PROVE  Vetted'
<1>1. Head(toChecker).txs \in SUBSET SoundId /\ Tail(toChecker) \in Seq(CheckerMsgs)
  BY ZenonT(30), HeadTail DEF check_txs_full, CheckerTakes, Next1, Vetted, ChannelsVetted, CheckerMsgs
<1>2. ChannelsVetted'
  BY <1>1 DEF check_txs_full, CheckerTakes, Vetted, ChannelsVetted
<1>3. ServicesVetted'
  BY <1>1 DEF check_txs_full, Vetted, ServicesVetted, graphVars
<1> QED
  BY <1>2, <1>3, RowsStay DEF check_txs_full, Vetted

(* One transaction of a full check: it is accepted only when it passes,    *)
(* and only an issuance that passes is written.                            *)
LEMMA OneChecked ==
  ASSUME Vetted, NEW x \in Tx, check_lrc20_transaction(x)
  PROVE  /\ x \in unchecked /\ x \in SoundId /\ unchecked' = unchecked \ {x}
         /\ \/ checked_txs' = checked_txs \cup {x} /\ invalid_txs' = invalid_txs /\ x \in Passed
            \/ invalid_txs' = invalid_txs \cup {x} /\ checked_txs' = checked_txs
         /\ \/ UNCHANGED l1
            \/ l1' = Inserted({x}) /\ Kind[x] = "Issue"
         /\ \/ UNCHANGED not_found_parents
            \/ \E S \in SUBSET Parents[x] : not_found_parents' = not_found_parents \cup S
         /\ UNCHANGED <<checking, mempool, toChecker, toController>>
<1>1. /\ x \in unchecked /\ x \in SoundId /\ unchecked' = unchecked \ {x}
      /\ UNCHANGED <<checking, mempool, toChecker, toController>>
  BY DEF check_lrc20_transaction, Vetted, ServicesVetted
<1>2. Kind[x] \in Kinds
  BY TxAssumption
<1>3. CASE Kind[x] = "Issue"
  <2>1. check_issuance(x)
    BY <1>3 DEF check_lrc20_transaction, IsAnnouncement
  <2>2. x \in Passed
    BY <1>1, <1>3, Passes
  <2>3. \/ Accept(x) /\ l1' = Inserted({x})
        \/ Reject(x) /\ UNCHANGED l1
    BY <2>1 DEF check_issuance
  <2>4. UNCHANGED not_found_parents
    BY <2>1 DEF check_issuance
  <2> QED
    BY <1>1, <1>3, <2>2, <2>3, <2>4 DEF Accept, Reject
<1>4. CASE IsAnnouncement(x)
  <2>1. check_announcements(x)
    BY <1>4 DEF check_lrc20_transaction, IsAnnouncement
  <2>2. CASE Kind[x] = "IssueAnnouncement"
    BY <1>1, <2>1, <2>2, Passes DEF check_announcements, Accept, Reject
  <2>3. CASE Kind[x] # "IssueAnnouncement"
    BY <1>1, <2>1, <2>3, Passes DEF check_announcements, Accept, Reject
  <2> QED
    BY <2>2, <2>3
<1>5. CASE Kind[x] = "Transfer"
  <2>1. check_transfer(x)
    BY <1>5 DEF check_lrc20_transaction, IsAnnouncement
  <2>2. \/ x \in Permitted /\ Accept(x)
        \/ x \notin Permitted /\ Reject(x)
    BY <2>1 DEF check_transfer
  <2>3. \/ UNCHANGED not_found_parents
        \/ \E S \in SUBSET Parents[x] : not_found_parents' = not_found_parents \cup S
    BY <2>1 DEF check_transfer
  <2> QED
    BY <1>1, <2>1, <2>2, <2>3, Passes DEF check_transfer, Accept, Reject
<1>6. CASE Kind[x] = "SparkExit"
  <2>1. check_spark_exit_transaction(x)
    BY <1>6 DEF check_lrc20_transaction, IsAnnouncement
  <2> QED
    BY <1>1, <2>1, Passes DEF check_spark_exit_transaction, Accept, Reject
<1> QED
  BY <1>2, <1>3, <1>4, <1>5, <1>6 DEF Kinds, IsAnnouncement

LEMMA OneCheckedVetted ==
  ASSUME Vetted, NEW x \in Tx, check_lrc20_transaction(x),
         UNCHANGED <<toGraph, toConfirm, graphVars, waiting, mined>>
  PROVE  Vetted'
<1>1. ChannelsVetted'
  BY OneChecked DEF Vetted, ChannelsVetted
<1>2. not_found_parents' \subseteq Txid
  BY OneChecked, CheckerAssumption DEF Vetted, ServicesVetted
<1>3. ServicesVetted'
  BY <1>2, OneChecked DEF Vetted, ServicesVetted, graphVars
<1>4. CASE UNCHANGED l1
  BY <1>1, <1>3, <1>4, OneChecked, RowsStay DEF Vetted, storage
<1>5. CASE l1' = Inserted({x})
  <2>1. RowsVetted' /\ \A t \in Txid : l1[t] # NoRow => l1'[t] # NoRow
    BY <1>5, InsertedVetted
  <2>2. EntriesVetted'
    BY <2>1, OneChecked DEF Vetted, EntriesVetted
  <2> QED
    BY <1>1, <1>3, <2>1, <2>2 DEF Vetted
<1> QED
  BY <1>4, <1>5, OneChecked

LEMMA FullDoneVetted ==
  ASSUME Vetted, FullCheckDone, UNCHANGED <<toGraph, toConfirm, graphVars, waiting, mined>>
  PROVE  Vetted'
<1>1. /\ FullyCheckedTxs(checked_txs) \in ControllerMsgs
      /\ InvalidTxs(Ids(invalid_txs)) \in ControllerMsgs
      /\ GetData(not_found_parents) \in ControllerMsgs
  BY IdSets DEF Vetted, ServicesVetted, FullyCheckedTxs, InvalidTxs, GetData, ControllerMsgs
<1>2. ChannelsVetted'
  BY <1>1, Sending DEF FullCheckDone, Vetted, ChannelsVetted
<1>3. ServicesVetted'
  BY DEF FullCheckDone, Vetted, ServicesVetted, graphVars
<1> QED
  BY <1>2, <1>3, RowsStay DEF FullCheckDone, Vetted

LEMMA GraphStepVetted ==
  ASSUME GraphInv, Vetted, GraphStep
  PROVE  Vetted'
<1>1. SUFFICES /\ toController' \in Seq(ControllerMsgs) /\ toGraph' \in Seq(GraphMsgs)
               /\ batch' \subseteq Passed
               /\ stored_txs' \subseteq Ids(Passed) /\ attached_txs' \subseteq Ids(Passed)
  <2>1. ChannelsVetted'
    BY <1>1 DEF GraphStep, Vetted, ChannelsVetted
  <2>2. ServicesVetted'
    BY <1>1 DEF GraphStep, Vetted, ServicesVetted, checkerVars
  <2> QED
    BY <2>1, <2>2, RowsStay DEF GraphStep, Vetted
<1>2. CASE /\ toGraph # <<>> /\ attach_txs(Head(toGraph).txs)
           /\ toGraph' = Tail(toGraph) /\ UNCHANGED toController
  <2>1. Head(toGraph) \in GraphMsgs /\ Tail(toGraph) \in Seq(GraphMsgs)
    BY <1>2, HeadTail DEF Vetted, ChannelsVetted
  <2>2. Head(toGraph).txs \subseteq Passed
    BY <2>1 DEF GraphMsgs
  <2> QED
    BY <1>2, <2>1, <2>2 DEF attach_txs, Vetted, ChannelsVetted, ServicesVetted
<1>3. ASSUME NEW x \in Tx, UNCHANGED <<toGraph, toController>>,
             BatchStep(x, TxidOf[x], Kind[x], Parents[x] \ EmptyParents[x], Present)
      PROVE  /\ toController' \in Seq(ControllerMsgs) /\ toGraph' \in Seq(GraphMsgs)
             /\ batch' \subseteq Passed
             /\ stored_txs' \subseteq Ids(Passed) /\ attached_txs' \subseteq Ids(Passed)
  <2>1. TxidOf[x] \in Ids(Passed) /\ batch' = batch \ {x}
    BY <1>3 DEF BatchStep, Vetted, ServicesVetted, Ids
  <2>2. /\ stored_txs' \subseteq stored_txs \cup {TxidOf[x]}
        /\ attached_txs' \subseteq attached_txs \cup {TxidOf[x]}
    BY <1>3 DEF BatchStep, attach_issue, Attach, handle_transfer, handle_spark_exit, skip_announcement
  <2> QED
    BY <1>3, <2>1, <2>2 DEF Vetted, ChannelsVetted, ServicesVetted
<1>4. ASSUME NEW t \in Txid, QueueStep(t, Present), UNCHANGED <<toGraph, toController>>
      PROVE  /\ toController' \in Seq(ControllerMsgs) /\ toGraph' \in Seq(GraphMsgs)
             /\ batch' \subseteq Passed
             /\ stored_txs' \subseteq Ids(Passed) /\ attached_txs' \subseteq Ids(Passed)
  <2>1. stored_txs' \subseteq stored_txs /\ attached_txs' \subseteq attached_txs \cup stored_txs
    BY <1>4 DEF QueueStep
  <2> QED
    BY <1>4, <2>1 DEF QueueStep, Vetted, ChannelsVetted, ServicesVetted
<1>5. CASE /\ AttachDone /\ UNCHANGED toGraph
           /\ toController' = SendUnlessEmpty(toController, AttachedTxs(attached_txs))
  <2>1. AttachedTxs(attached_txs) \in ControllerMsgs
    BY DEF Vetted, ServicesVetted, AttachedTxs, ControllerMsgs
  <2>2. toController' \in Seq(ControllerMsgs)
    BY <1>5, <2>1, Sending DEF Vetted, ChannelsVetted
  <2> QED
    BY <1>5, <2>2 DEF AttachDone, Vetted, ChannelsVetted, ServicesVetted
<1> QED
  BY <1>2, <1>3, <1>4, <1>5 DEF GraphStep

LEMMA CleanupVetted ==
  ASSUME Vetted, GraphCleanup
  PROVE  Vetted'
<1>1. PICK t \in Txid :
        /\ remove_outdated_tx(t)
        /\ l1' = [u \in Txid |-> IF u \in Outdated(t) THEN NoRow ELSE l1[u]]
        /\ mempool' = MempoolDelete(Outdated(t))
  BY DEF GraphCleanup
<1>2. ChannelsVetted'
  BY DEF GraphCleanup, Vetted, ChannelsVetted, channels
<1>3. ServicesVetted'
  BY <1>1 DEF GraphCleanup, Vetted, ServicesVetted, checkerVars, remove_outdated_tx
<1>4. ASSUME NEW u \in Txid
      PROVE  \/ l1'[u] = NoRow /\ mempool'[u] = "None"
             \/ l1'[u] = l1[u] /\ mempool'[u] = mempool[u]
  BY <1>1 DEF MempoolDelete, MempoolSet
<1>5. l1' = [u \in Txid |-> l1'[u]] /\ mempool' = [u \in Txid |-> mempool'[u]]
  BY <1>1 DEF MempoolDelete, MempoolSet
<1>6. RowsVetted'
  BY <1>4, <1>5 DEF Vetted, RowsVetted
<1>7. EntriesVetted'
  BY <1>4, <1>5 DEF Vetted, EntriesVetted, MempoolStatus
<1> QED
  BY <1>2, <1>3, <1>6, <1>7 DEF Vetted

(* What handle_mempool_txs hands out has the status it is handed out for.  *)
LEMMA RestartVetted ==
  ASSUME Vetted, RestartNode
  PROVE  ChannelsVetted' /\ ServicesVetted'
<1> DEFINE With(s) == {t \in Txid : mempool[t] = s}
<1>1. ASSUME NEW t \in Txid, mempool[t] # "None"
      PROVE  /\ l1[t].tx \in Tx
             /\ mempool[t] = "Attaching" => l1[t].tx \in Passed
  BY <1>1, RowOfId DEF Vetted, EntriesVetted
<1>2. IsolatedCheck(StoredTxs(With("Initialized"))) \in CheckerMsgs
  BY <1>1 DEF IsolatedCheck, StoredTxs, CheckerMsgs
<1>3. CheckedTxs(StoredTxs(With("Attaching"))) \in GraphMsgs
  BY <1>1 DEF CheckedTxs, StoredTxs, GraphMsgs
<1>4. Txs(With("WaitingMined") \cup With("Mined")) \in ConfirmMsgs
  BY DEF Txs, ConfirmMsgs, Vetted, EntriesVetted
<1>5. <<>> \in Seq(CheckerMsgs) /\ <<>> \in Seq(GraphMsgs) /\ <<>> \in Seq(ConfirmMsgs)
      /\ <<>> \in Seq(ControllerMsgs)
  BY SMT
<1>6. ChannelsVetted'
  BY <1>2, <1>3, <1>4, <1>5, Sending DEF RestartNode, handle_mempool_txs, ChannelsVetted
<1>7. ServicesVetted'
  BY DEF RestartNode, ServicesVetted
<1> QED
  BY <1>6, <1>7

LEMMA CrashVetted ==
  ASSUME Vetted, Crash \/ CrashBetweenInserts
  PROVE  Vetted'
<1>1. ChannelsVetted' /\ ServicesVetted' /\ UNCHANGED mempool
  BY RestartVetted DEF Crash, CrashBetweenInserts, RestartNode
<1>2. CASE Crash
  BY <1>1, <1>2, RowsStay DEF Crash, Vetted, storage
<1>3. CASE CrashBetweenInserts
  <2>1. Head(toController).txs \subseteq Tx
    <3>1. Head(toController) \in ControllerMsgs /\ Head(toController).type = "InitializeTxs"
      BY <1>3, HeadTail DEF CrashBetweenInserts, Next1, Vetted, ChannelsVetted
    <3> QED
      BY <3>1 DEF ControllerMsgs
  <2>2. PICK x \in Tx : l1' = Inserted({x})
    BY <1>3, <2>1 DEF CrashBetweenInserts
  <2>3. RowsVetted' /\ \A t \in Txid : l1[t] # NoRow => l1'[t] # NoRow
    BY <2>2, InsertedVetted
  <2>4. EntriesVetted'
    BY <1>1, <2>3 DEF Vetted, EntriesVetted
  <2> QED
    BY <1>1, <2>3, <2>4 DEF Vetted
<1> QED
  BY <1>2, <1>3

LEMMA VettedInit ==
  ASSUME Init
  PROVE  Vetted
<1>1. ChannelsVetted /\ ServicesVetted
  BY SMT DEF Init, ChannelsInit, CheckerInit, GraphInit, ChannelsVetted, ServicesVetted
<1>2. RowsVetted /\ EntriesVetted
  BY DEF Init, StorageInit, RowsVetted, EntriesVetted, MempoolStatus
<1> QED
  BY <1>1, <1>2 DEF Vetted

LEMMA VettedNext ==
  ASSUME GraphInv, Vetted, [Next]_vars
  PROVE  Vetted'
<1>1. CASE UNCHANGED vars
  <2>1. ChannelsVetted'
    BY <1>1 DEF vars, channels, Vetted, ChannelsVetted
  <2>2. ServicesVetted'
    BY <1>1 DEF vars, checkerVars, graphVars, Vetted, ServicesVetted
  <2> QED
    BY <1>1, <2>1, <2>2, RowsStay DEF vars, Vetted
<1>2. CASE CheckerStep
  BY <1>2, IsolatedVetted, FullVetted, OneCheckedVetted, FullDoneVetted DEF CheckerStep
<1> QED
  BY <1>1, <1>2, SubmitVetted, ConfirmatorTakesVetted, ConfirmatorMinesVetted,
     ConfirmatorConfirmsVetted, ControllerStepVetted, GetDataVetted, GraphStepVetted, CleanupVetted, CrashVetted DEF Next

LEMMA VettedInvariant == Spec => []Vetted
  BY VettedInit, VettedNext, GraphInvariant, PTL DEF Spec

(* What is attached has passed its checks, whatever crashes, cleanups and  *)
(* rejections came between the verdict of the checker and set_lrc20_tx_    *)
(* status, and also where an id names several messages: the channels are   *)
(* about ids, and what they say of an id stays true when its row is        *)
(* deleted, handed in again, or taken over by the issuance that was        *)
(* announced.                                                              *)
THEOREM OnlyCheckedAlwaysAttached == Spec => []OnlyCheckedAttached
<1>1. ASSUME Vetted, NEW t \in Txid, l1[t] # NoRow, l1[t].status = "Attached"
      PROVE  t \in Ids(Sound) /\ t \in Ids(Passable)
  BY <1>1 DEF Vetted, RowsVetted, Passed, SoundId
<1>2. Vetted => OnlyCheckedAttached
  BY <1>1 DEF Ids, Passable, OnlyCheckedAttached
<1> QED
  BY <1>2, VettedInvariant, PTL

-----------------------------------------------------------------------------
(* Tracked.                                                                *)

(* The ids that a message takes from one place to another.  MinedTxs goes  *)
(* before the ConfirmedTxs of the same ids, which takes them.              *)
Carries(m) ==
  CASE m.type \in {"PartiallyCheckedTxs", "InvalidTxs", "ConfirmedTxs", "Txs"} -> m.txs
    [] m.type \in {"FullyCheckedTxs", "IsolatedCheck", "FullCheck"} -> Ids(m.txs)
    [] OTHER -> {}

Carried(ch) == UNION {Carries(ch[i]) : i \in 1..Len(ch)}

Apart(ch) ==
  \A i, j \in 1..Len(ch) : i # j => Carries(ch[i]) \cap Carries(ch[j]) = {}

InChecker == Ids(unchecked) \cup Ids(checked_txs) \cup Ids(invalid_txs)

Disjoint(A, B, C, D, E) ==
  /\ A \cap B = {} /\ A \cap C = {} /\ A \cap D = {} /\ A \cap E = {}
  /\ B \cap C = {} /\ B \cap D = {} /\ B \cap E = {}
  /\ C \cap D = {} /\ C \cap E = {}
  /\ D \cap E = {}

(* A transaction is in one of five places, and there in one message or set *)
(* only.                                                                   *)
OnePlace ==
  /\ Apart(toController) /\ Apart(toChecker) /\ Apart(toConfirm)
  /\ unchecked \cap checked_txs = {} /\ unchecked \cap invalid_txs = {}
  /\ checked_txs \cap invalid_txs = {}
  /\ Disjoint(Carried(toController), Carried(toChecker), Carried(toConfirm), waiting, InChecker)

(* The statuses of what a message of this type carries.                    *)
StatusOf(type) ==
  CASE type \in {"IsolatedCheck", "PartiallyCheckedTxs"} -> {"Initialized"}
    [] type = "InvalidTxs" -> {"Initialized", "Mined"}
    [] type \in {"Txs", "ConfirmedTxs"} -> {"WaitingMined", "Mined"}
    [] OTHER -> {"Mined"}

Fits(ch, status) ==
  \A i \in 1..Len(ch) : \A t \in Carries(ch[i]) : status[t] \in StatusOf(ch[i].type)

StatusFits ==
  /\ Fits(toController, mempool) /\ Fits(toChecker, mempool) /\ Fits(toConfirm, mempool)
  /\ \A t \in waiting : mempool[t] \in {"WaitingMined", "Mined"}
  /\ \A t \in InChecker : mempool[t] = "Mined"

Mines(m, t) == m.type = "MinedTxs" /\ t \in m.txs
Confirms(m, t) == m.type = "ConfirmedTxs" /\ t \in m.txs

(* What ConfirmedTxs names is Mined, or a MinedTxs before it names it; and *)
(* what MinedTxs names is in S, or a ConfirmedTxs after it names it.       *)
InSequence(ch, status, S) ==
  \A i \in 1..Len(ch) : \A t \in ch[i].txs :
    /\ Confirms(ch[i], t) =>
         status[t] = "Mined" \/ \E j \in 1..Len(ch) : j < i /\ Mines(ch[j], t)
    /\ Mines(ch[i], t) =>
         t \in S \/ \E j \in 1..Len(ch) : i < j /\ Confirms(ch[j], t)

(* A transaction is Mined before it is confirmed.                          *)
MinedFirst ==
  /\ InSequence(toController, mempool, mined)
  /\ \A t \in mined : mempool[t] = "Mined" \/ t \in In(toController, "MinedTxs")

AtRest == ~checking => unchecked = {} /\ checked_txs = {} /\ invalid_txs = {}

(* With the graph builder, on the way to it, or on the way back.           *)
InGraph ==
  Ids(In(toGraph, "CheckedTxs")) \cup Ids(batch) \cup stored_txs \cup attached_txs
    \cup In(toController, "AttachedTxs")

GraphHolds ==
  /\ \A t \in InGraph :
       l1[t] # NoRow /\ (mempool[t] = "Attaching" \/ l1[t].status = "Attached")
  /\ \A t \in Txid : mempool[t] = "Attaching" => t \in InGraph /\ ~IsAnnouncement(l1[t].tx)
  /\ \A x \in In(toGraph, "CheckedTxs") \cup batch : ~IsAnnouncement(x)

EntriesHandled == \A t \in Txid : mempool[t] # "None" => l1[t].status = "Handling"

Tracked ==
  OnePlace /\ StatusFits /\ MinedFirst /\ AtRest /\ GraphHolds /\ EntriesHandled

(* A row that is being handled has an entry, unless the process ended      *)
(* between the two inserts.                                                *)
HandledHaveEntry ==
  happened \subseteq {"crash"} =>
    \A t \in Txid : l1[t] # NoRow /\ l1[t].status = "Handling" => mempool[t] # "None"

-----------------------------------------------------------------------------
(* Channels: what is sent, and what is taken.                              *)

LEMMA NothingCarried ==
  ASSUME NEW m, m.txs = {}
  PROVE  Carries(m) = {}
  BY DEF Carries, Ids

LEMMA CarriesOf ==
  ASSUME NEW m
  PROVE  /\ m.type \in {"PartiallyCheckedTxs", "InvalidTxs", "ConfirmedTxs", "Txs"}
              => Carries(m) = m.txs
         /\ m.type \in {"FullyCheckedTxs", "IsolatedCheck", "FullCheck"}
              => Carries(m) = Ids(m.txs)
         /\ m.type \in {"InitializeTxs", "MinedTxs", "AttachedTxs", "GetData"}
              => Carries(m) = {}
  BY DEF Carries

(* What ch carries, and m with it.                                         *)
CarriedWith(ch, m) == Carried(ch) \cup Carries(m)

LEMMA SendApart ==
  ASSUME NEW M, NEW ch \in Seq(M), NEW m \in M, Apart(ch), Carries(m) \cap Carried(ch) = {}
  PROVE  /\ Apart(Send(ch, m)) /\ Carried(Send(ch, m)) = CarriedWith(ch, m)
         /\ Apart(SendUnlessEmpty(ch, m))
         /\ Carried(SendUnlessEmpty(ch, m)) = CarriedWith(ch, m)
<1> DEFINE new == Append(ch, m)
<1>1. /\ Len(new) = Len(ch) + 1 /\ Len(ch) \in Nat /\ new[Len(ch) + 1] = m
      /\ \A i \in 1..Len(ch) : new[i] = ch[i]
  BY SMT
<1> HIDE DEF new
<1>2. \A i \in 1..Len(new) : i \in 1..Len(ch) \/ (i = Len(ch) + 1 /\ i \notin 1..Len(ch))
  BY SMT, <1>1
<1>3. \A i \in 1..Len(ch) : Carries(ch[i]) \subseteq Carried(ch) /\ i \in 1..Len(new)
  BY SMT, <1>1 DEF Carried
<1>4. Apart(new)
  <2> SUFFICES ASSUME NEW i \in 1..Len(new), NEW j \in 1..Len(new), i # j
               PROVE  Carries(new[i]) \cap Carries(new[j]) = {}
    BY DEF Apart
  <2>1. CASE i \in 1..Len(ch) /\ j \in 1..Len(ch)
    BY <1>1, <2>1 DEF Apart
  <2>2. CASE i \in 1..Len(ch) /\ j = Len(ch) + 1
    BY <1>1, <1>3, <2>2
  <2>3. CASE j \in 1..Len(ch) /\ i = Len(ch) + 1
    BY <1>1, <1>3, <2>3
  <2> QED
    BY <1>2, <2>1, <2>2, <2>3
<1>5. Carried(new) = CarriedWith(ch, m)
  <2>1. ASSUME NEW t PROVE t \in Carried(new) <=> t \in Carried(ch) \/ t \in Carries(m)
    <3>1. t \in Carried(new) <=> \E i \in 1..Len(new) : t \in Carries(new[i])
      BY DEF Carried
    <3>2. t \in Carried(ch) <=> \E i \in 1..Len(ch) : t \in Carries(ch[i])
      BY DEF Carried
    <3>3. Len(ch) + 1 \in 1..Len(new)
      BY SMT, <1>1
    <3> QED
      BY <1>1, <1>2, <1>3, <3>1, <3>2, <3>3
  <2> QED
    BY <2>1 DEF CarriedWith
<1>6. Send(ch, m) = new /\ SendUnlessEmpty(ch, m) = IF m.txs = {} THEN ch ELSE new
  BY DEF Send, SendUnlessEmpty, new
<1>7. m.txs = {} => Carried(ch) = CarriedWith(ch, m)
  BY NothingCarried DEF CarriedWith
<1> QED
  BY <1>4, <1>5, <1>6, <1>7

LEMMA TakeApart ==
  ASSUME NEW M, NEW ch \in Seq(M), ch # <<>>, Apart(ch)
  PROVE  /\ Apart(Tail(ch)) /\ Carried(ch) = CarriedWith(Tail(ch), Head(ch))
         /\ Carries(Head(ch)) \cap Carried(Tail(ch)) = {}
<1> DEFINE rest == Tail(ch)
<1>1. /\ Len(ch) \in Nat /\ Len(ch) > 0 /\ Len(rest) = Len(ch) - 1 /\ Head(ch) = ch[1]
      /\ \A i \in 1..Len(rest) : rest[i] = ch[i + 1] /\ i + 1 \in 1..Len(ch)
      /\ 1 \in 1..Len(ch)
  BY SMT
<1> HIDE DEF rest
<1>2. \A i \in 1..Len(ch) : i = 1 \/ (i - 1 \in 1..Len(rest) /\ i = (i - 1) + 1)
  BY SMT, <1>1
<1>3. Apart(rest)
  <2> SUFFICES ASSUME NEW i \in 1..Len(rest), NEW j \in 1..Len(rest), i # j
               PROVE  Carries(rest[i]) \cap Carries(rest[j]) = {}
    BY DEF Apart
  <2>1. i + 1 \in 1..Len(ch) /\ j + 1 \in 1..Len(ch) /\ i + 1 # j + 1
    BY SMT, <1>1
  <2> QED
    BY <1>1, <2>1 DEF Apart
<1>4. ASSUME NEW t
      PROVE  /\ t \in Carried(ch) <=> t \in Carries(Head(ch)) \/ t \in Carried(rest)
             /\ ~(t \in Carries(Head(ch)) /\ t \in Carried(rest))
  <2>1. t \in Carried(ch) <=> \E i \in 1..Len(ch) : t \in Carries(ch[i])
    BY DEF Carried
  <2>2. t \in Carried(rest) <=> \E i \in 1..Len(rest) : t \in Carries(rest[i])
    BY DEF Carried
  <2>3. t \in Carried(ch) => t \in Carries(Head(ch)) \/ t \in Carried(rest)
    BY <1>1, <1>2, <2>1, <2>2
  <2>4. t \in Carries(Head(ch)) \/ t \in Carried(rest) => t \in Carried(ch)
    BY <1>1, <2>1, <2>2
  <2>5. ASSUME NEW i \in 1..Len(rest), t \in Carries(rest[i]), t \in Carries(ch[1])
        PROVE  FALSE
    <3>1. i + 1 \in 1..Len(ch) /\ i + 1 # 1 /\ 1 \in 1..Len(ch) /\ rest[i] = ch[i + 1]
      BY SMT, <1>1
    <3> QED
      BY <2>5, <3>1 DEF Apart
  <2> QED
    BY <1>1, <2>2, <2>3, <2>4, <2>5
<1> QED
  BY <1>3, <1>4 DEF rest, CarriedWith

LEMMA SendFits ==
  ASSUME NEW M, NEW ch \in Seq(M), NEW m \in M, NEW status, Fits(ch, status),
         \A t \in Carries(m) : status[t] \in StatusOf(m.type)
  PROVE  Fits(Send(ch, m), status) /\ Fits(SendUnlessEmpty(ch, m), status)
<1> DEFINE new == Append(ch, m)
<1>1. \A i \in 1..Len(new) : \/ i \in 1..Len(ch) /\ new[i] = ch[i]
                             \/ new[i] = m
  BY SMT
<1> HIDE DEF new
<1>2. Fits(new, status)
  BY <1>1 DEF Fits
<1> QED
  BY <1>2 DEF Send, SendUnlessEmpty, new

LEMMA TakeFits ==
  ASSUME NEW M, NEW ch \in Seq(M), ch # <<>>, NEW status, Fits(ch, status)
  PROVE  /\ Fits(Tail(ch), status)
         /\ \A t \in Carries(Head(ch)) : status[t] \in StatusOf(Head(ch).type)
<1> DEFINE rest == Tail(ch)
<1>1. /\ Head(ch) = ch[1] /\ 1 \in 1..Len(ch)
      /\ \A i \in 1..Len(rest) : rest[i] = ch[i + 1] /\ i + 1 \in 1..Len(ch)
  BY SMT
<1> HIDE DEF rest
<1>2. Fits(rest, status)
  BY <1>1 DEF Fits
<1> QED
  BY <1>1, <1>2 DEF Fits, rest

LEMMA KeepFits ==
  ASSUME NEW ch, NEW old, NEW new, Fits(ch, old), \A t \in Carried(ch) : new[t] = old[t]
  PROVE  Fits(ch, new)
  BY DEF Fits, Carried

(* What m says, taken as a message of this type.                           *)
Says(m, type) == IF m.type = type THEN m.txs ELSE {}

(* What ch says in messages of this type, and m with it.                   *)
InWith(ch, m, type) == In(ch, type) \cup Says(m, type)

LEMMA SendIn ==
  ASSUME NEW M, NEW ch \in Seq(M), NEW m \in M, NEW type
  PROVE  /\ In(Send(ch, m), type) = InWith(ch, m, type)
         /\ In(SendUnlessEmpty(ch, m), type) = InWith(ch, m, type)
<1> DEFINE new == Append(ch, m)
<1>1. /\ Len(new) = Len(ch) + 1 /\ Len(ch) \in Nat /\ new[Len(ch) + 1] = m
      /\ \A i \in 1..Len(ch) : new[i] = ch[i]
  BY SMT
<1> HIDE DEF new
<1>2. \A i \in 1..Len(new) : i \in 1..Len(ch) \/ i = Len(ch) + 1
  BY SMT, <1>1
<1>3. Len(ch) + 1 \in 1..Len(new) /\ \A i \in 1..Len(ch) : i \in 1..Len(new)
  BY SMT, <1>1
<1>4. ASSUME NEW e
      PROVE  e \in In(new, type) <=> e \in In(ch, type) \/ (m.type = type /\ e \in m.txs)
  <2>1. e \in In(new, type) <=> \E i \in 1..Len(new) : new[i].type = type /\ e \in new[i].txs
    BY DEF In
  <2>2. e \in In(ch, type) <=> \E i \in 1..Len(ch) : ch[i].type = type /\ e \in ch[i].txs
    BY DEF In
  <2> QED
    BY <1>1, <1>2, <1>3, <2>1, <2>2
<1>5. In(new, type) = InWith(ch, m, type)
  BY <1>4 DEF InWith, Says
<1>6. m.txs = {} => In(ch, type) = InWith(ch, m, type)
  BY DEF InWith, Says
<1>7. Send(ch, m) = new /\ SendUnlessEmpty(ch, m) = IF m.txs = {} THEN ch ELSE new
  BY DEF Send, SendUnlessEmpty, new
<1> QED
  BY <1>5, <1>6, <1>7

LEMMA TakeIn ==
  ASSUME NEW M, NEW ch \in Seq(M), ch # <<>>, NEW type
  PROVE  In(ch, type) = InWith(Tail(ch), Head(ch), type)
<1> DEFINE rest == Tail(ch)
<1>1. /\ Len(ch) \in Nat /\ Len(ch) > 0 /\ Len(rest) = Len(ch) - 1 /\ Head(ch) = ch[1]
      /\ \A i \in 1..Len(rest) : rest[i] = ch[i + 1] /\ i + 1 \in 1..Len(ch)
      /\ 1 \in 1..Len(ch)
  BY SMT
<1> HIDE DEF rest
<1>2. \A i \in 1..Len(ch) : i = 1 \/ (i - 1 \in 1..Len(rest) /\ rest[i - 1] = ch[i])
  BY SMT, <1>1
<1>3. ASSUME NEW e
      PROVE  e \in In(ch, type)
               <=> e \in In(rest, type) \/ (Head(ch).type = type /\ e \in Head(ch).txs)
  <2>1. e \in In(rest, type) <=> \E i \in 1..Len(rest) : rest[i].type = type /\ e \in rest[i].txs
    BY DEF In
  <2>2. e \in In(ch, type) <=> \E i \in 1..Len(ch) : ch[i].type = type /\ e \in ch[i].txs
    BY DEF In
  <2>3. e \in In(ch, type)
          => e \in In(rest, type) \/ (Head(ch).type = type /\ e \in Head(ch).txs)
    BY <1>1, <1>2, <2>1, <2>2
  <2>4. e \in In(rest, type) => e \in In(ch, type)
    BY <1>1, <2>1, <2>2
  <2> QED
    BY <1>1, <2>2, <2>3, <2>4
<1> QED
  BY <1>3 DEF rest, InWith, Says

LEMMA SendInSequence ==
  ASSUME NEW M, NEW ch \in Seq(M), NEW m \in M, NEW status, NEW S, NEW T,
         InSequence(ch, status, S),
         \A t \in S : t \in T \/ Confirms(m, t),
         \A t \in m.txs : /\ Mines(m, t) => t \in T
                          /\ Confirms(m, t) =>
                               status[t] = "Mined" \/ t \in In(ch, "MinedTxs"),
         NEW new, new = Send(ch, m) \/ new = SendUnlessEmpty(ch, m)
  PROVE  InSequence(new, status, T)
<1>1. CASE new = ch /\ m.txs = {}
  <2>1. S \subseteq T
    BY <1>1 DEF Confirms
  <2> QED
    BY <1>1, <2>1 DEF InSequence
<1>2. CASE new = Append(ch, m)
  <2>1. /\ Len(new) = Len(ch) + 1 /\ Len(ch) \in Nat /\ new[Len(ch) + 1] = m
        /\ \A i \in 1..Len(ch) : new[i] = ch[i]
    BY SMT, <1>2
  <2>2. /\ Len(ch) + 1 \in 1..Len(new)
        /\ \A i \in 1..Len(ch) : i \in 1..Len(new) /\ i < Len(ch) + 1
        /\ \A i \in 1..Len(new) : i \in 1..Len(ch) \/ i = Len(ch) + 1
    BY SMT, <2>1
  <2> SUFFICES ASSUME NEW i \in 1..Len(new), NEW t \in new[i].txs
               PROVE  /\ Confirms(new[i], t) => \/ status[t] = "Mined"
                                                \/ \E j \in 1..Len(new) : j < i /\ Mines(new[j], t)
                      /\ Mines(new[i], t) => \/ t \in T
                                             \/ \E j \in 1..Len(new) : i < j /\ Confirms(new[j], t)
    BY DEF InSequence
  <2>3. CASE i \in 1..Len(ch)
    <3>1. /\ Confirms(ch[i], t) => \/ status[t] = "Mined"
                                   \/ \E j \in 1..Len(ch) : j < i /\ Mines(ch[j], t)
          /\ Mines(ch[i], t) => \/ t \in S
                                \/ \E j \in 1..Len(ch) : i < j /\ Confirms(ch[j], t)
      BY <2>1, <2>3 DEF InSequence
    <3>2. Confirms(new[i], t) => \/ status[t] = "Mined"
                                 \/ \E j \in 1..Len(new) : j < i /\ Mines(new[j], t)
      BY <2>1, <2>2, <2>3, <3>1
    <3>3. Mines(new[i], t) => \/ t \in T
                              \/ \E j \in 1..Len(new) : i < j /\ Confirms(new[j], t)
      BY <2>1, <2>2, <2>3, <3>1
    <3> QED
      BY <3>2, <3>3
  <2>4. CASE i = Len(ch) + 1
    <3>1. new[i] = m
      BY <2>1, <2>4
    <3>2. t \in In(ch, "MinedTxs") => \E j \in 1..Len(ch) : Mines(ch[j], t)
      BY DEF In, Mines
    <3> QED
      BY <2>1, <2>2, <2>4, <3>1, <3>2
  <2> QED
    BY <2>2, <2>3, <2>4
<1> QED
  BY <1>1, <1>2 DEF Send, SendUnlessEmpty

LEMMA HeadInSequence ==
  ASSUME NEW M, NEW ch \in Seq(M), ch # <<>>, NEW status, NEW S, InSequence(ch, status, S)
  PROVE  \A t \in Head(ch).txs :
           /\ Confirms(Head(ch), t) => status[t] = "Mined"
           /\ Mines(Head(ch), t) => t \in S \/ t \in In(Tail(ch), "ConfirmedTxs")
<1> DEFINE rest == Tail(ch)
<1>1. Head(ch) = ch[1] /\ 1 \in 1..Len(ch)
  BY SMT
<1>2. \A i \in 1..Len(ch) : i = 1 \/ (i - 1 \in 1..Len(rest) /\ rest[i - 1] = ch[i])
  BY SMT
<1> HIDE DEF rest
<1>3. ASSUME NEW t \in Head(ch).txs
      PROVE  /\ Confirms(Head(ch), t) => status[t] = "Mined"
             /\ Mines(Head(ch), t) => t \in S \/ t \in In(rest, "ConfirmedTxs")
  <2>1. /\ Confirms(ch[1], t) =>
             status[t] = "Mined" \/ \E j \in 1..Len(ch) : j < 1 /\ Mines(ch[j], t)
        /\ Mines(ch[1], t) => t \in S \/ \E j \in 1..Len(ch) : 1 < j /\ Confirms(ch[j], t)
    BY <1>1 DEF InSequence
  <2>2. ~ \E j \in 1..Len(ch) : j < 1
    BY SMT
  <2>3. ASSUME NEW j \in 1..Len(ch), 1 < j, Confirms(ch[j], t)
        PROVE  t \in In(rest, "ConfirmedTxs")
    <3>1. j # 1
      BY SMT, <2>3
    <3>2. j - 1 \in 1..Len(rest) /\ rest[j - 1] = ch[j]
      BY <1>2, <3>1
    <3> QED
      BY <2>3, <3>2 DEF In, Confirms
  <2> QED
    BY <1>1, <2>1, <2>2, <2>3
<1> QED
  BY <1>3 DEF rest

LEMMA TakeInSequence ==
  ASSUME NEW M, NEW ch \in Seq(M), ch # <<>>, NEW status, NEW S, InSequence(ch, status, S),
         NEW new,
         \A t \in In(Tail(ch), "ConfirmedTxs") :
           status[t] = "Mined" \/ Mines(Head(ch), t) => new[t] = "Mined"
  PROVE  InSequence(Tail(ch), new, S)
<1> DEFINE rest == Tail(ch)
<1>1. /\ Len(ch) \in Nat /\ Len(rest) = Len(ch) - 1 /\ Head(ch) = ch[1] /\ 1 \in 1..Len(ch)
      /\ \A i \in 1..Len(rest) : rest[i] = ch[i + 1] /\ i + 1 \in 1..Len(ch)
  BY SMT
<1> HIDE DEF rest
<1>2. \A i \in 1..Len(ch) : i = 1 \/ (i - 1 \in 1..Len(rest) /\ rest[i - 1] = ch[i])
  BY SMT, <1>1
<1>3. ASSUME NEW i \in 1..Len(rest), NEW t \in rest[i].txs
      PROVE  /\ Confirms(rest[i], t) => \/ new[t] = "Mined"
                                        \/ \E j \in 1..Len(rest) : j < i /\ Mines(rest[j], t)
             /\ Mines(rest[i], t) => \/ t \in S
                                     \/ \E j \in 1..Len(rest) : i < j /\ Confirms(rest[j], t)
  <2>1. i + 1 \in 1..Len(ch) /\ rest[i] = ch[i + 1]
    BY <1>1
  <2>2. /\ Confirms(ch[i + 1], t) =>
             status[t] = "Mined" \/ \E j \in 1..Len(ch) : j < i + 1 /\ Mines(ch[j], t)
        /\ Mines(ch[i + 1], t) =>
             t \in S \/ \E j \in 1..Len(ch) : i + 1 < j /\ Confirms(ch[j], t)
    BY <2>1 DEF InSequence
  <2>3. ASSUME Confirms(rest[i], t)
        PROVE  new[t] = "Mined" \/ \E j \in 1..Len(rest) : j < i /\ Mines(rest[j], t)
    <3>1. t \in In(rest, "ConfirmedTxs")
      BY <2>3 DEF In, Confirms
    <3>2. CASE status[t] = "Mined"
      BY <3>1, <3>2 DEF rest
    <3>3. ASSUME NEW j \in 1..Len(ch), j < i + 1, Mines(ch[j], t)
          PROVE  new[t] = "Mined" \/ \E k \in 1..Len(rest) : k < i /\ Mines(rest[k], t)
      <4>1. CASE j = 1
        BY <1>1, <3>1, <3>3, <4>1 DEF rest
      <4>2. CASE j # 1
        <5>1. j - 1 \in 1..Len(rest) /\ rest[j - 1] = ch[j]
          BY <1>2, <4>2
        <5>2. j - 1 < i
          BY SMT, <3>3
        <5> QED
          BY <3>3, <5>1, <5>2
      <4> QED
        BY <4>1, <4>2
    <3> QED
      BY <2>1, <2>2, <2>3, <3>2, <3>3
  <2>4. ASSUME Mines(rest[i], t)
        PROVE  t \in S \/ \E j \in 1..Len(rest) : i < j /\ Confirms(rest[j], t)
    <3>1. ASSUME NEW j \in 1..Len(ch), i + 1 < j, Confirms(ch[j], t)
          PROVE  \E k \in 1..Len(rest) : i < k /\ Confirms(rest[k], t)
      <4>1. j # 1 /\ i < j - 1
        BY SMT, <3>1
      <4>2. j - 1 \in 1..Len(rest) /\ rest[j - 1] = ch[j]
        BY <1>2, <4>1
      <4> QED
        BY <3>1, <4>1, <4>2
    <3> QED
      BY <2>1, <2>2, <2>4, <3>1
  <2> QED
    BY <2>3, <2>4
<1>4. InSequence(rest, new, S)
  BY <1>3 DEF InSequence
<1> QED
  BY <1>4 DEF rest

(* The statuses of the carried ids may change to what a message allows.    *)
LEMMA MinedFits ==
  ASSUME NEW ch, Apart(ch), NEW old, NEW new, Fits(ch, old), NEW S,
         \A t \in S : new[t] = "Mined" /\ (t \in Carried(ch) => t \in In(ch, "ConfirmedTxs")),
         \A t \in Carried(ch) : t \notin S => new[t] = old[t]
  PROVE  Fits(ch, new)
<1> SUFFICES ASSUME NEW i \in 1..Len(ch), NEW t \in Carries(ch[i])
             PROVE  new[t] \in StatusOf(ch[i].type)
  BY DEF Fits
<1>1. t \in Carried(ch) /\ old[t] \in StatusOf(ch[i].type)
  BY DEF Carried, Fits
<1>2. CASE t \in S
  <2>1. PICK k \in 1..Len(ch) : ch[k].type = "ConfirmedTxs" /\ t \in ch[k].txs
    BY <1>1, <1>2 DEF In
  <2>2. t \in Carries(ch[k])
    BY <2>1, CarriesOf
  <2>3. i = k
    BY <2>2 DEF Apart
  <2> QED
    BY <1>2, <2>1, <2>3 DEF StatusOf
<1> QED
  BY <1>1, <1>2

LEMMA ConfirmedCarried ==
  ASSUME NEW ch
  PROVE  In(ch, "ConfirmedTxs") \subseteq Carried(ch)
<1>1. \A i \in 1..Len(ch) : ch[i].type = "ConfirmedTxs" => Carries(ch[i]) = ch[i].txs
  BY CarriesOf
<1> QED
  BY <1>1 DEF In, Carried

LEMMA Messages ==
  ASSUME NEW S
  PROVE  /\ InitializeTxs(S).type = "InitializeTxs" /\ InitializeTxs(S).txs = S
         /\ PartiallyCheckedTxs(S).type = "PartiallyCheckedTxs" /\ PartiallyCheckedTxs(S).txs = S
         /\ FullyCheckedTxs(S).type = "FullyCheckedTxs" /\ FullyCheckedTxs(S).txs = S
         /\ InvalidTxs(S).type = "InvalidTxs" /\ InvalidTxs(S).txs = S
         /\ MinedTxs(S).type = "MinedTxs" /\ MinedTxs(S).txs = S
         /\ ConfirmedTxs(S).type = "ConfirmedTxs" /\ ConfirmedTxs(S).txs = S
         /\ AttachedTxs(S).type = "AttachedTxs" /\ AttachedTxs(S).txs = S
         /\ GetData(S).type = "GetData" /\ GetData(S).txs = S
         /\ IsolatedCheck(S).type = "IsolatedCheck" /\ IsolatedCheck(S).txs = S
         /\ FullCheck(S).type = "FullCheck" /\ FullCheck(S).txs = S
         /\ CheckedTxs(S).type = "CheckedTxs" /\ CheckedTxs(S).txs = S
         /\ Txs(S).type = "Txs" /\ Txs(S).txs = S
  BY DEF InitializeTxs, PartiallyCheckedTxs, FullyCheckedTxs, InvalidTxs, MinedTxs,
         ConfirmedTxs, AttachedTxs, GetData, IsolatedCheck, FullCheck, CheckedTxs, Txs

-----------------------------------------------------------------------------
(* What Tracked says of an id.                                             *)

Places ==
  Carried(toController) \cup Carried(toChecker) \cup Carried(toConfirm) \cup waiting
    \cup InChecker

(* What is at one of the places has an entry that is not Attaching.        *)
LEMMA PlacedHaveEntry ==
  ASSUME StatusFits
  PROVE  \A t \in Places : mempool[t] \in {"Initialized", "WaitingMined", "Mined"}
<1>1. \A type : StatusOf(type) \subseteq {"Initialized", "WaitingMined", "Mined"}
  BY DEF StatusOf
<1> HIDE DEF StatusOf
<1>2. \A t \in Carried(toController) \cup Carried(toChecker) \cup Carried(toConfirm) :
        mempool[t] \in {"Initialized", "WaitingMined", "Mined"}
  BY SMT, <1>1 DEF StatusFits, Fits, Carried
<1> QED
  BY <1>2 DEF StatusFits, Places

(* What handle_new_lrc20_txs takes for new has no entry, and is nowhere.   *)
LEMMA NewIsNowhere ==
  ASSUME OneTxPerId, Vetted, Tracked, NEW x \in Tx, IsNew(x)
  PROVE  /\ mempool[TxidOf[x]] = "None"
         /\ l1[TxidOf[x]] = NoRow \/ l1[TxidOf[x]].status = "InvalidIssue"
         /\ TxidOf[x] \notin Places /\ TxidOf[x] \notin InGraph
<1> DEFINE t == TxidOf[x]
<1>1. t \in Txid
  BY TxAssumption
<1> HIDE DEF t
<1>2. CASE l1[t] = NoRow
  <2>1. mempool[t] = "None" /\ t \notin InGraph
    BY <1>1, <1>2 DEF Vetted, EntriesVetted, Tracked, GraphHolds
  <2> QED
    BY <1>1, <1>2, <2>1, PlacedHaveEntry DEF t, Tracked
<1>3. CASE l1[t] # NoRow
  <2>1. Kind[x] = "Issue" /\ IsStoredIssueAnnouncement(t)
    BY <1>3 DEF IsNew, t
  <2>2. l1[t].tx = x
    BY <1>1, <1>3, RowOfId DEF OneTxPerId, t
  <2>3. l1[t].status = "InvalidIssue"
    BY <2>1, <2>2 DEF IsStoredIssueAnnouncement
  <2>4. mempool[t] = "None" /\ t \notin InGraph
    BY <1>1, <2>3 DEF Tracked, GraphHolds, EntriesHandled
  <2> QED
    BY <1>1, <2>3, <2>4, PlacedHaveEntry DEF t, Tracked
<1> QED
  BY <1>2, <1>3

(* The next message of the controller.                                     *)
LEMMA TakeMessage ==
  ASSUME Vetted, Tracked, toController # <<>>,
         NEW m, m = Head(toController), toController' = Tail(toController)
  PROVE  /\ m \in ControllerMsgs /\ toController' \in Seq(ControllerMsgs)
         /\ Apart(toController') /\ Fits(toController', mempool)
         /\ Carried(toController) = CarriedWith(toController', m)
         /\ Carries(m) \cap Carried(toController') = {}
         /\ \A t \in Carries(m) : mempool[t] \in StatusOf(m.type)
         /\ In(toController, "AttachedTxs") =
              InWith(toController', m, "AttachedTxs")
<1>1. toController \in Seq(ControllerMsgs)
  BY DEF Vetted, ChannelsVetted
<1>2. Apart(toController) /\ Fits(toController, mempool)
  BY DEF Tracked, OnePlace, StatusFits
<1>3. m \in ControllerMsgs /\ toController' \in Seq(ControllerMsgs)
  BY <1>1, HeadTail
<1>4. /\ Apart(toController') /\ Carries(m) \cap Carried(toController') = {}
      /\ Carried(toController) = CarriedWith(toController', m)
  BY <1>1, <1>2, TakeApart
<1>5. /\ Fits(toController', mempool)
      /\ \A t \in Carries(m) : mempool[t] \in StatusOf(m.type)
  BY <1>1, <1>2, TakeFits
<1>7. In(toController, "AttachedTxs") =
        InWith(toController', m, "AttachedTxs")
  BY <1>1, TakeIn
<1> QED
  BY <1>3, <1>4, <1>5, <1>7

LEMMA PlacesAreIds ==
  ASSUME Vetted
  PROVE  Places \subseteq Txid /\ InGraph \subseteq Txid
<1>1. \A m \in ControllerMsgs \cup CheckerMsgs \cup ConfirmMsgs : Carries(m) \subseteq Txid
  BY IdSets, CarriesOf DEF ControllerMsgs, CheckerMsgs, ConfirmMsgs
<1>2. \A i \in 1..Len(toController) : toController[i] \in ControllerMsgs
  BY SMT DEF Vetted, ChannelsVetted
<1>3. \A i \in 1..Len(toChecker) : toChecker[i] \in CheckerMsgs
  BY SMT DEF Vetted, ChannelsVetted
<1>4. \A i \in 1..Len(toConfirm) : toConfirm[i] \in ConfirmMsgs
  BY SMT DEF Vetted, ChannelsVetted
<1>5. \A i \in 1..Len(toGraph) : toGraph[i] \in GraphMsgs
  BY SMT DEF Vetted, ChannelsVetted
<1>6. Carried(toController) \cup Carried(toChecker) \cup Carried(toConfirm) \subseteq Txid
  BY <1>1, <1>2, <1>3, <1>4 DEF Carried
<1>7. waiting \cup InChecker \subseteq Txid
  BY IdSets DEF Vetted, ServicesVetted, InChecker
<1>8. In(toController, "AttachedTxs") \subseteq Txid
  BY <1>2, IdSets DEF In, ControllerMsgs
<1>9. Ids(In(toGraph, "CheckedTxs")) \subseteq Txid
  <2>1. In(toGraph, "CheckedTxs") \subseteq Tx
    BY <1>5, IdSets DEF In, GraphMsgs
  <2> QED
    BY <2>1, IdSets
<1>10. Ids(batch) \cup stored_txs \cup attached_txs \subseteq Txid
  BY IdSets DEF Vetted, ServicesVetted
<1> QED
  BY <1>6, <1>7, <1>8, <1>9, <1>10 DEF Places, InGraph

-----------------------------------------------------------------------------
(* The handlers of the controller keep track.                              *)

Took(m) ==
  /\ toController # <<>> /\ m = Head(toController) /\ toController' = Tail(toController)
  /\ UNCHANGED <<checkerVars, graphVars, waiting, mined>>

Handled == \A t \in Txid : l1[t] # NoRow /\ l1[t].status = "Handling" => mempool[t] # "None"

(* What a step may do to the row and the entry of t.                       *)
Moved(t) ==
  \/ l1'[t] = l1[t] /\ mempool'[t] = mempool[t]
  \/ /\ t \notin InGraph
     /\ mempool[t] = "None" /\ (l1[t] = NoRow \/ l1[t].status = "InvalidIssue")
     /\ mempool'[t] = "Initialized" /\ l1'[t] # NoRow /\ l1'[t].status = "Handling"
  \/ /\ l1'[t] = l1[t]
     /\ \/ mempool[t] = "Initialized" /\ mempool'[t] = "WaitingMined"
        \/ mempool[t] = "WaitingMined" /\ mempool'[t] = "Mined"
        \/ mempool[t] = "Mined" /\ mempool'[t] = "Attaching"
  \/ /\ mempool[t] = "Mined" /\ mempool'[t] = "None"
     /\ l1'[t] # NoRow /\ IsAnnouncement(l1'[t].tx) /\ l1'[t].status = "Attached"
  \/ /\ t \in In(toController, "AttachedTxs") /\ mempool'[t] = "None"
     /\ l1[t] # NoRow /\ l1'[t] # NoRow
     /\ l1'[t].tx = l1[t].tx /\ l1'[t].status = "Attached"
  \/ /\ t \notin InGraph
     /\ mempool[t] \in {"Initialized", "Mined"} /\ mempool'[t] = "None"
     /\ l1'[t] = NoRow \/ l1'[t].status = "InvalidIssue"

(* What is left in the channel, unless it is MinedTxs that is handled.     *)
LEMMA NotMinedNext ==
  ASSUME Vetted, Tracked, NEW m, Took(m), m.type # "MinedTxs",
         \A t \in Carried(toController') \cup waiting : mempool'[t] = mempool[t]
  PROVE  MinedFirst'
<1>1. /\ toController \in Seq(ControllerMsgs) /\ InSequence(toController, mempool, mined)
      /\ toController # <<>> /\ m = Head(toController) /\ toController' = Tail(toController)
  BY DEF Took, Vetted, ChannelsVetted, Tracked, MinedFirst
<1>2. \A t \in In(toController', "ConfirmedTxs") :
        mempool[t] = "Mined" \/ Mines(m, t) => mempool'[t] = "Mined"
  BY ConfirmedCarried DEF Mines
<1>3. InSequence(toController', mempool', mined)
  BY <1>1, <1>2, TakeInSequence
<1>4. In(toController, "MinedTxs") = In(toController', "MinedTxs")
  <2>1. In(toController, "MinedTxs") = InWith(toController', m, "MinedTxs")
    BY <1>1, TakeIn
  <2> QED
    BY <2>1 DEF InWith, Says
<1>5. mined' = mined /\ mined \subseteq waiting
  BY DEF Took, Vetted, ServicesVetted
<1> QED
  BY <1>3, <1>4, <1>5 DEF Tracked, MinedFirst

LEMMA NewTracked ==
  ASSUME OneTxPerId, Vetted, Tracked, NEW m, Took(m), m.type = "InitializeTxs",
         handle_new_lrc20_txs(m.txs)
  PROVE  Tracked' /\ (Handled => Handled') /\ \A t \in Txid : Moved(t)
<1> DEFINE new == {x \in m.txs : IsNew(x)}
           ids == Ids(new)
<1>1. /\ l1' = Inserted(new) /\ mempool' = MempoolPut(ids)
      /\ toChecker' = SendUnlessEmpty(toChecker, IsolatedCheck(new))
      /\ UNCHANGED <<toGraph, toConfirm>>
  BY DEF handle_new_lrc20_txs
<1>2. m.txs \subseteq Tx
  <2>1. m \in ControllerMsgs
    BY TakeMessage DEF Took
  <2> QED
    BY <2>1 DEF ControllerMsgs
<1>3. \A x \in new : TxidOf[x] \in Txid /\ mempool[TxidOf[x]] = "None"
                     /\ TxidOf[x] \notin Places /\ TxidOf[x] \notin InGraph
  BY <1>2, NewIsNowhere, TxAssumption
<1>4. new \in SUBSET Tx
  BY <1>2
<1> HIDE DEF new
<1>5. \A t \in ids : t \in Txid /\ mempool[t] = "None" /\ t \notin Places /\ t \notin InGraph
  BY <1>3 DEF Ids
<1>6. \A t \in Txid : t \notin ids => mempool'[t] = mempool[t] /\ l1'[t] = l1[t]
  BY <1>1, <1>4, InsertedRows DEF MempoolPut
<1>7. \A t \in ids : mempool'[t] = "Initialized" /\ l1'[t] # NoRow /\ l1'[t].status = "Handling"
  <2>1. \A t \in ids : mempool'[t] = "Initialized"
    BY <1>1, <1>5 DEF MempoolPut
  <2>2. \A x \in new : l1'[TxidOf[x]] = [tx |-> x, status |-> "Handling"]
    BY <1>1, <1>4, InsertedRows
  <2>3. \A x \in new : [tx |-> x, status |-> "Handling"] \in L1Row
    BY <1>4 DEF L1Row, L1TxStatus
  <2>4. \A x \in new : l1'[TxidOf[x]] # NoRow /\ l1'[TxidOf[x]].status = "Handling"
    <3> TAKE x \in new
    <3>1. l1'[TxidOf[x]] = [tx |-> x, status |-> "Handling"]
      BY <2>2
    <3>2. l1'[TxidOf[x]] \in L1Row
      BY <2>3, <3>1
    <3>3. l1'[TxidOf[x]].status = "Handling"
      BY SMT, <3>1
    <3> QED
      BY <3>2, <3>3, TxAssumption
  <2> QED
    BY <2>1, <2>4 DEF Ids
<1>8. /\ Carries(m) = {} /\ Carried(toController) = Carried(toController')
      /\ Carries(IsolatedCheck(new)) = ids /\ IsolatedCheck(new).type = "IsolatedCheck"
  <2>1. Carries(m) = {}
    BY CarriesOf
  <2>2. Carried(toController) = Carried(toController')
    BY <2>1, TakeMessage DEF Took, CarriedWith
  <2>3. IsolatedCheck(new).type = "IsolatedCheck" /\ IsolatedCheck(new).txs = new
    BY Messages
  <2>4. Carries(IsolatedCheck(new)) = ids
    BY <2>3, CarriesOf
  <2> QED
    BY <2>1, <2>2, <2>3, <2>4
<1> HIDE DEF ids
<1>9. IsolatedCheck(new) \in CheckerMsgs /\ toChecker \in Seq(CheckerMsgs)
  BY <1>4 DEF IsolatedCheck, CheckerMsgs, Vetted, ChannelsVetted
<1>10. Apart(toChecker') /\ Carried(toChecker') = Carried(toChecker) \cup ids
  <2>1. Carries(IsolatedCheck(new)) \cap Carried(toChecker) = {}
    BY <1>5, <1>8 DEF Places
  <2>2. Apart(toChecker)
    BY DEF Tracked, OnePlace
  <2>3. /\ Apart(SendUnlessEmpty(toChecker, IsolatedCheck(new)))
        /\ Carried(SendUnlessEmpty(toChecker, IsolatedCheck(new)))
             = CarriedWith(toChecker, IsolatedCheck(new))
    BY <1>9, <2>1, <2>2, SendApart
  <2> QED
    BY <1>1, <1>8, <2>3 DEF CarriedWith
<1>11. UNCHANGED <<toConfirm, waiting, InChecker, unchecked, checked_txs, invalid_txs, checking>>
  BY <1>1 DEF Took, checkerVars, InChecker
<1>12. OnePlace'
  BY <1>5, <1>8, <1>10, <1>11, TakeMessage DEF Took, Tracked, OnePlace, Disjoint, Places
<1>13. \A t \in Places : mempool'[t] = mempool[t]
  BY <1>5, <1>6, PlacesAreIds
<1>14. StatusFits'
  <2>1. Fits(toController', mempool')
    BY <1>8, <1>13, TakeMessage, KeepFits DEF Took, Places
  <2>2. Fits(toConfirm', mempool')
    BY <1>11, <1>13, KeepFits DEF Tracked, StatusFits, Places
  <2>3. Fits(toChecker, mempool')
    BY <1>13, KeepFits DEF Tracked, StatusFits, Places
  <2>4. \A t \in Carries(IsolatedCheck(new)) :
          mempool'[t] \in StatusOf(IsolatedCheck(new).type)
    BY <1>7, <1>8 DEF StatusOf
  <2>5. Fits(toChecker', mempool')
    BY <1>1, <1>9, <2>3, <2>4, SendFits
  <2> QED
    BY <1>11, <1>13, <2>1, <2>2, <2>5 DEF Tracked, StatusFits, Places
<1>15. MinedFirst'
  BY <1>8, <1>13, NotMinedNext DEF Places
<1>16. UNCHANGED InGraph
  BY <1>1, TakeMessage DEF Took, InGraph, graphVars, InWith, Says
<1>17. GraphHolds'
  <2>1. \A t \in InGraph : l1'[t] = l1[t] /\ mempool'[t] = mempool[t]
    BY ZenonT(40), <1>5, <1>6, PlacesAreIds
  <2>2. \A t \in Txid : mempool'[t] = "Attaching" => mempool[t] = "Attaching" /\ l1'[t] = l1[t]
    BY <1>6, <1>7
  <2>3. UNCHANGED <<toGraph, batch>>
    BY <1>1 DEF Took, graphVars
  <2> QED
    BY <1>16, <2>1, <2>2, <2>3 DEF Tracked, GraphHolds
<1>18. EntriesHandled' /\ (Handled => Handled')
  BY <1>6, <1>7 DEF Tracked, EntriesHandled, Handled
<1>19. AtRest'
  BY <1>11 DEF Tracked, AtRest
<1>20. \A t \in Txid : Moved(t)
  <2>1. \A x \in new : l1[TxidOf[x]] = NoRow \/ l1[TxidOf[x]].status = "InvalidIssue"
    BY <1>4, NewIsNowhere DEF new
  <2>2. \A t \in ids : l1[t] = NoRow \/ l1[t].status = "InvalidIssue"
    BY <2>1 DEF ids, Ids
  <2> QED
    BY <1>5, <1>6, <1>7, <2>2 DEF Moved
<1> QED
  BY <1>12, <1>14, <1>15, <1>17, <1>18, <1>19, <1>20 DEF Tracked

(* What is at one of the places is not with the graph builder.             *)
LEMMA PlacedNotInGraph ==
  ASSUME Vetted, Tracked
  PROVE  Places \cap InGraph = {}
<1> SUFFICES ASSUME NEW t \in Places, t \in InGraph PROVE FALSE
  OBVIOUS
<1>1. t \in Txid /\ mempool[t] \in {"Initialized", "WaitingMined", "Mined"}
  BY PlacesAreIds, PlacedHaveEntry DEF Tracked
<1>2. l1[t].status = "Handling"
  BY <1>1 DEF Tracked, EntriesHandled
<1> QED
  BY <1>1, <1>2 DEF Tracked, GraphHolds

(* The rest of the node, while the controller handles what m carries.      *)
LEMMA OthersKeep ==
  ASSUME Vetted, Tracked, NEW m, Took(m),
         \A t \in Txid : t \notin Carries(m) => mempool'[t] = mempool[t]
  PROVE  /\ Fits(toController', mempool') /\ Fits(toChecker, mempool')
         /\ Fits(toConfirm, mempool')
         /\ \A t \in waiting \cup InChecker : mempool'[t] = mempool[t]
         /\ UNCHANGED <<waiting, InChecker, unchecked, checked_txs, invalid_txs, checking>>
         /\ Carries(m) \subseteq Places
         /\ Disjoint(Carries(m) \cup Carried(toController'), Carried(toChecker),
                     Carried(toConfirm), waiting, InChecker)
         /\ Carries(m) \cap Carried(toController') = {}
         /\ m.type # "MinedTxs" => MinedFirst'
<1>1. /\ Carried(toController) = CarriedWith(toController', m)
      /\ Carries(m) \cap Carried(toController') = {} /\ Fits(toController', mempool)
  BY TakeMessage DEF Took
<1>2. Carries(m) \subseteq Places
  BY <1>1 DEF Places, CarriedWith
<1>3. Disjoint(Carries(m) \cup Carried(toController'), Carried(toChecker),
               Carried(toConfirm), waiting, InChecker)
  <2>1. Carried(toController) = Carries(m) \cup Carried(toController')
    BY <1>1 DEF CarriedWith
  <2> QED
    BY <2>1 DEF Tracked, OnePlace
<1>4. \A t \in Carried(toController') \cup Carried(toChecker) \cup Carried(toConfirm)
                 \cup waiting \cup InChecker : mempool'[t] = mempool[t]
  <2>1. \A t \in Places : t \in Txid
    BY PlacesAreIds
  <2> QED
    BY <1>1, <1>3, <2>1 DEF Places, Disjoint, CarriedWith
<1>5. UNCHANGED <<waiting, InChecker, unchecked, checked_txs, invalid_txs, checking>>
  BY DEF Took, checkerVars, InChecker
<1>6. Fits(toController', mempool')
  BY <1>1, <1>4, KeepFits
<1>7. Fits(toChecker, mempool') /\ Fits(toConfirm, mempool')
  BY <1>4, KeepFits DEF Tracked, StatusFits
<1>8. m.type # "MinedTxs" => MinedFirst'
  BY <1>4, NotMinedNext
<1> QED
  BY <1>1, <1>2, <1>3, <1>4, <1>5, <1>6, <1>7, <1>8

(* The graph builder's part, when what changes is not with it.             *)
LEMMA GraphKeeps ==
  ASSUME Vetted, Tracked, NEW S, S \cap InGraph = {},
         UNCHANGED <<InGraph, toGraph, batch>>,
         \A t \in Txid : t \notin S => l1'[t] = l1[t] /\ mempool'[t] = mempool[t],
         \A t \in S : mempool'[t] # "Attaching"
  PROVE  GraphHolds'
<1>1. \A t \in InGraph : l1'[t] = l1[t] /\ mempool'[t] = mempool[t]
  BY PlacesAreIds
<1>2. \A t \in Txid : mempool'[t] = "Attaching" => mempool[t] = "Attaching" /\ l1'[t] = l1[t]
  OBVIOUS
<1> QED
  BY ZenonT(40), <1>1, <1>2 DEF Tracked, GraphHolds

LEMMA PartiallyCheckedTracked ==
  ASSUME Vetted, Tracked, NEW m, Took(m), m.type = "PartiallyCheckedTxs",
         handle_partially_checked_txs(m.txs)
  PROVE  Tracked' /\ (Handled => Handled') /\ \A t \in Txid : Moved(t)
<1> DEFINE S == m.txs
<1>1. m \in ControllerMsgs /\ \A t \in Carries(m) : mempool[t] \in StatusOf(m.type)
  BY TakeMessage DEF Took
<1>2. Carries(m) = S /\ S \subseteq Ids(Sound) /\ S \subseteq Txid
      /\ \A t \in S : mempool[t] = "Initialized"
  BY <1>1, CarriesOf, IdSets DEF ControllerMsgs, StatusOf
<1>3. Entries(S) = S
  BY <1>2 DEF Entries
<1>4. /\ mempool' = MempoolSet(S, "WaitingMined") /\ toConfirm' = Send(toConfirm, Txs(S))
      /\ UNCHANGED <<l1, toChecker, toGraph>>
  BY <1>3 DEF handle_partially_checked_txs, MissingEntry
<1> HIDE DEF S
<1>5. \A t \in Txid : mempool'[t] = IF t \in S THEN "WaitingMined" ELSE mempool[t]
  BY <1>4 DEF MempoolSet
<1>6. /\ Fits(toController', mempool') /\ Fits(toChecker, mempool')
      /\ Fits(toConfirm, mempool')
      /\ \A t \in waiting \cup InChecker : mempool'[t] = mempool[t]
      /\ UNCHANGED <<waiting, InChecker, unchecked, checked_txs, invalid_txs, checking>>
      /\ S \subseteq Places
      /\ Disjoint(S \cup Carried(toController'), Carried(toChecker),
                  Carried(toConfirm), waiting, InChecker)
      /\ S \cap Carried(toController') = {}
  BY <1>2, <1>5, OthersKeep
<1>7. Txs(S).type = "Txs" /\ Carries(Txs(S)) = S
  <2>1. Txs(S).type = "Txs" /\ Txs(S).txs = S
    BY Messages
  <2> QED
    BY <2>1, CarriesOf
<1>8. Txs(S) \in ConfirmMsgs /\ toConfirm \in Seq(ConfirmMsgs)
  BY <1>2 DEF Txs, ConfirmMsgs, Vetted, ChannelsVetted
<1>9. Apart(toConfirm') /\ Carried(toConfirm') = Carried(toConfirm) \cup S
  <2> DEFINE x == Txs(S)
  <2>1. Apart(toConfirm) /\ Carries(x) \cap Carried(toConfirm) = {}
    BY <1>6, <1>7 DEF Tracked, OnePlace, Disjoint
  <2>2. x \in ConfirmMsgs /\ Carries(x) = S /\ toConfirm' = Send(toConfirm, x)
    BY ZenonT(40), <1>4, <1>7, <1>8
  <2> HIDE DEF x
  <2>3. /\ Apart(Send(toConfirm, x))
        /\ Carried(Send(toConfirm, x)) = CarriedWith(toConfirm, x)
    BY <1>8, <2>1, <2>2, SendApart
  <2> QED
    BY <2>2, <2>3 DEF CarriedWith
<1>10. OnePlace'
  BY <1>4, <1>6, <1>9, TakeMessage DEF Took, Tracked, OnePlace, Disjoint
<1>11. Fits(toConfirm', mempool')
  <2>1. \A t \in Carries(Txs(S)) : mempool'[t] \in StatusOf(Txs(S).type)
    BY <1>2, <1>5, <1>7 DEF StatusOf
  <2> QED
    BY <1>4, <1>6, <1>8, <2>1, SendFits
<1>12. StatusFits'
  BY <1>4, <1>6, <1>11 DEF Tracked, StatusFits
<1>13. GraphHolds'
  <2>1. UNCHANGED <<InGraph, toGraph, batch>>
    BY <1>4, TakeMessage DEF Took, InGraph, graphVars, InWith, Says
  <2> QED
    BY <1>2, <1>4, <1>5, <1>6, <2>1, PlacedNotInGraph, GraphKeeps
<1>14. EntriesHandled' /\ (Handled => Handled')
  BY <1>2, <1>4, <1>5 DEF Tracked, EntriesHandled, Handled
<1>15. \A t \in Txid : Moved(t)
  BY <1>2, <1>4, <1>5 DEF Moved
<1>16. MinedFirst'
  BY <1>2, <1>5, OthersKeep
<1> QED
  BY <1>6, <1>10, <1>12, <1>13, <1>14, <1>15, <1>16 DEF Tracked, AtRest

LEMMA ConfirmedTracked ==
  ASSUME OneTxPerId, Vetted, Tracked, NEW m, Took(m), m.type = "ConfirmedTxs",
         handle_confirmed_txs(m.txs)
  PROVE  Tracked' /\ (Handled => Handled') /\ \A t \in Txid : Moved(t)
<1> DEFINE S == m.txs
           X == StoredTxs(S)
<1>1. m \in ControllerMsgs /\ \A t \in S : mempool[t] = "Mined"
  <2>1. toController \in Seq(ControllerMsgs) /\ InSequence(toController, mempool, mined)
        /\ m \in ControllerMsgs
    BY TakeMessage DEF Took, Vetted, ChannelsVetted, Tracked, MinedFirst
  <2> QED
    BY <2>1, HeadInSequence DEF Took, Confirms
<1>2. Carries(m) = S /\ S \subseteq Ids(Sound) /\ S \subseteq Txid
  BY <1>1, CarriesOf, IdSets DEF ControllerMsgs
<1>3. Entries(S) = S
  BY <1>1 DEF Entries
<1>4. toChecker' = Send(toChecker, FullCheck(X)) /\ UNCHANGED <<l1, mempool, toConfirm, toGraph>>
  BY <1>3 DEF handle_confirmed_txs
<1>5. \A t \in S : l1[t] # NoRow /\ TxidOf[l1[t].tx] = t /\ l1[t].tx \in SoundId
  BY <1>1, <1>2, RowOfId DEF Vetted, EntriesVetted
<1>6. Ids(X) = S /\ X \subseteq SoundId
  BY SMT, <1>5 DEF Ids, StoredTxs
<1> HIDE DEF S, X
<1>7. /\ Fits(toController', mempool') /\ Fits(toChecker, mempool')
      /\ Fits(toConfirm, mempool')
      /\ UNCHANGED <<waiting, InChecker, unchecked, checked_txs, invalid_txs, checking>>
      /\ S \subseteq Places
      /\ Disjoint(S \cup Carried(toController'), Carried(toChecker),
                  Carried(toConfirm), waiting, InChecker)
      /\ S \cap Carried(toController') = {}
  BY <1>2, <1>4, OthersKeep
<1>8. FullCheck(X).type = "FullCheck" /\ FullCheck(X).txs = X
  BY Messages
<1>9. Carries(FullCheck(X)) = S
  BY <1>6, <1>8, CarriesOf
<1>10. FullCheck(X) \in CheckerMsgs /\ toChecker \in Seq(CheckerMsgs)
  BY <1>6 DEF FullCheck, CheckerMsgs, Vetted, ChannelsVetted
<1>11. Apart(toChecker') /\ Carried(toChecker') = Carried(toChecker) \cup S
  <2> DEFINE x == FullCheck(X)
  <2>1. /\ toChecker' = Send(toChecker, x) /\ x \in CheckerMsgs /\ Carries(x) = S
        /\ toChecker \in Seq(CheckerMsgs)
    BY <1>4, <1>9, <1>10
  <2> HIDE DEF x
  <2>2. Apart(toChecker) /\ Carries(x) \cap Carried(toChecker) = {}
    BY <1>7, <2>1 DEF Tracked, OnePlace, Disjoint
  <2>3. Apart(Send(toChecker, x)) /\ Carried(Send(toChecker, x)) = CarriedWith(toChecker, x)
    BY <2>1, <2>2, SendApart
  <2> QED
    BY <2>1, <2>3 DEF CarriedWith
<1>12. OnePlace'
  BY <1>4, <1>7, <1>11, TakeMessage DEF Took, Tracked, OnePlace, Disjoint
<1>13. Fits(toChecker', mempool')
  <2>1. \A t \in Carries(FullCheck(X)) : mempool'[t] \in StatusOf(FullCheck(X).type)
    BY <1>1, <1>4, <1>8, <1>9 DEF StatusOf, S
  <2> QED
    BY <1>4, <1>7, <1>10, <2>1, SendFits
<1>14. StatusFits'
  BY <1>4, <1>7, <1>13 DEF Tracked, StatusFits
<1>15. GraphHolds'
  <2>1. UNCHANGED <<InGraph, toGraph, batch>>
    BY <1>4, TakeMessage DEF Took, InGraph, graphVars, InWith, Says
  <2> QED
    BY <1>4, <2>1 DEF Tracked, GraphHolds
<1>16. EntriesHandled' /\ (Handled => Handled')
  BY <1>4 DEF Tracked, EntriesHandled, Handled
<1>17. \A t \in Txid : Moved(t)
  BY <1>4 DEF Moved
<1>18. MinedFirst'
  BY <1>4, OthersKeep
<1> QED
  BY <1>7, <1>12, <1>14, <1>15, <1>16, <1>17, <1>18 DEF Tracked, AtRest

LEMMA InvalidTracked ==
  ASSUME Vetted, Tracked, NEW m, Took(m), m.type = "InvalidTxs",
         handle_invalid_txs(m.txs, Entries(m.txs))
  PROVE  Tracked' /\ (Handled => Handled') /\ \A t \in Txid : Moved(t)
<1> DEFINE S == m.txs
<1>1. m \in ControllerMsgs /\ \A t \in Carries(m) : mempool[t] \in StatusOf(m.type)
  BY TakeMessage DEF Took
<1>2. Carries(m) = S /\ S \subseteq Txid /\ \A t \in S : mempool[t] \in {"Initialized", "Mined"}
  BY <1>1, CarriesOf DEF ControllerMsgs, StatusOf
<1>3. Entries(S) = S
  BY <1>2 DEF Entries
<1>4. \A t \in Txid : /\ mempool'[t] = IF t \in S THEN "None" ELSE mempool[t]
                      /\ t \notin S => l1'[t] = l1[t]
  BY <1>3 DEF handle_invalid_txs, MempoolDelete, MempoolSet
<1>5. \A t \in S : l1'[t] = NoRow \/ l1'[t].status = "InvalidIssue"
  <2> TAKE t \in S
  <2>1. t \in Txid /\ l1[t] \in L1Row
    BY <1>2, RowOfId DEF Vetted, EntriesVetted, RowsVetted
  <2>2. l1'[t] = IF Kind[l1[t].tx] = "Issue" THEN [l1[t] EXCEPT !.status = "InvalidIssue"]
                 ELSE NoRow
    BY <1>3, <2>1 DEF handle_invalid_txs
  <2> QED
    BY <2>1, <2>2 DEF L1Row
<1>6. UNCHANGED <<toChecker, toConfirm, toGraph>>
  BY DEF handle_invalid_txs
<1> HIDE DEF S
<1>7. /\ Fits(toController', mempool') /\ Fits(toChecker, mempool')
      /\ Fits(toConfirm, mempool')
      /\ \A t \in waiting \cup InChecker : mempool'[t] = mempool[t]
      /\ UNCHANGED <<waiting, InChecker, unchecked, checked_txs, invalid_txs, checking>>
      /\ S \subseteq Places
      /\ Disjoint(S \cup Carried(toController'), Carried(toChecker),
                  Carried(toConfirm), waiting, InChecker)
  BY <1>2, <1>4, OthersKeep
<1>8. OnePlace'
  BY <1>6, <1>7, TakeMessage DEF Took, Tracked, OnePlace, Disjoint
<1>9. StatusFits'
  BY <1>6, <1>7 DEF Tracked, StatusFits
<1>10. GraphHolds'
  <2>1. UNCHANGED <<InGraph, toGraph, batch>>
    BY <1>6, TakeMessage DEF Took, InGraph, graphVars, InWith, Says
  <2> QED
    BY <1>2, <1>4, <1>7, <2>1, PlacedNotInGraph, GraphKeeps
<1>11. EntriesHandled' /\ (Handled => Handled')
  <2> SUFFICES ASSUME NEW t \in Txid
               PROVE  /\ mempool'[t] # "None" => l1'[t].status = "Handling"
                      /\ Handled /\ l1'[t] # NoRow /\ l1'[t].status = "Handling"
                           => mempool'[t] # "None"
    BY DEF EntriesHandled, Handled
  <2>1. CASE t \in S
    BY <1>4, <1>5, <2>1
  <2>2. CASE t \notin S
    BY <1>4, <2>2 DEF Tracked, EntriesHandled, Handled
  <2> QED
    BY <2>1, <2>2
<1>12. \A t \in Txid : Moved(t)
  BY <1>2, <1>4, <1>5, <1>7, PlacedNotInGraph DEF Moved
<1>13. MinedFirst'
  BY <1>2, <1>4, OthersKeep
<1> QED
  BY <1>7, <1>8, <1>9, <1>10, <1>11, <1>12, <1>13 DEF Tracked, AtRest

LEMMA MinedTracked ==
  ASSUME Vetted, Tracked, NEW m, Took(m), m.type = "MinedTxs", handle_mined_txs(m.txs)
  PROVE  Tracked' /\ (Handled => Handled') /\ \A t \in Txid : Moved(t)
<1> DEFINE S == m.txs
<1>1. /\ m \in ControllerMsgs /\ toController' \in Seq(ControllerMsgs)
      /\ Apart(toController') /\ Fits(toController', mempool)
      /\ Carried(toController) = CarriedWith(toController', m)
  BY TakeMessage DEF Took
<1>2. /\ toController \in Seq(ControllerMsgs) /\ InSequence(toController, mempool, mined)
      /\ toController # <<>> /\ m = Head(toController) /\ toController' = Tail(toController)
  BY DEF Took, Vetted, ChannelsVetted, Tracked, MinedFirst
<1>3. Carries(m) = {} /\ S \subseteq Txid
  BY <1>1, CarriesOf, IdSets DEF ControllerMsgs
<1>4. \A t \in S : t \in mined \/ t \in In(toController', "ConfirmedTxs")
  <2>1. \A t \in Head(toController).txs :
          /\ Confirms(Head(toController), t) => mempool[t] = "Mined"
          /\ Mines(Head(toController), t) =>
               t \in mined \/ t \in In(Tail(toController), "ConfirmedTxs")
    BY <1>2, HeadInSequence
  <2> QED
    BY <1>2, <2>1 DEF Mines
<1>5. mined \subseteq waiting /\ UNCHANGED mined
  BY DEF Took, Vetted, ServicesVetted
<1>6. Carried(toController) = Carried(toController')
  BY <1>1, <1>3 DEF CarriedWith
<1>7. \A t \in S : /\ mempool[t] \in {"WaitingMined", "Mined"}
                   /\ t \in waiting \/ t \in Carried(toController')
                   /\ t \in Carried(toController') => t \in In(toController', "ConfirmedTxs")
  <2> TAKE t \in S
  <2>1. CASE t \in mined
    BY <1>5, <1>6, <2>1 DEF Tracked, StatusFits, OnePlace, Disjoint
  <2>2. ASSUME t \in In(toController', "ConfirmedTxs")
        PROVE  mempool[t] \in {"WaitingMined", "Mined"} /\ t \in Carried(toController')
    <3>1. PICK k \in 1..Len(toController') :
            toController'[k].type = "ConfirmedTxs" /\ t \in toController'[k].txs
      BY <2>2 DEF In
    <3>2. t \in Carries(toController'[k])
      BY <3>1, CarriesOf
    <3> QED
      BY <1>1, <3>1, <3>2 DEF Fits, Carried, StatusOf
  <2> QED
    BY <1>4, <2>1, <2>2
<1>8. Entries(S) = S
  BY <1>7 DEF Entries
<1>9. mempool' = MempoolSet(S, "Mined") /\ UNCHANGED <<l1, toChecker, toConfirm, toGraph>>
  BY <1>8 DEF handle_mined_txs, MissingEntry
<1> HIDE DEF S
<1>10. \A t \in Txid : mempool'[t] = IF t \in S THEN "Mined" ELSE mempool[t]
  BY <1>9 DEF MempoolSet
<1>11. UNCHANGED <<waiting, InChecker, unchecked, checked_txs, invalid_txs, checking, InGraph, batch>>
  BY <1>9, TakeMessage DEF Took, checkerVars, graphVars, InChecker, InGraph, InWith, Says
<1>12. OnePlace'
  BY <1>1, <1>6, <1>9, <1>11 DEF Tracked, OnePlace
<1>13. \A t \in Carried(toChecker) \cup Carried(toConfirm) \cup InChecker :
         mempool'[t] = mempool[t]
  <2>1. Carried(toChecker) \cup Carried(toConfirm) \cup InChecker \subseteq Txid \ S
    BY <1>6, <1>7, PlacesAreIds DEF Tracked, OnePlace, Disjoint, Places
  <2> QED
    BY <1>10, <2>1
<1>14. Carried(toController') \cup waiting \subseteq Txid
  BY <1>6, PlacesAreIds DEF Places
<1>15. StatusFits'
  <2>1. Fits(toChecker, mempool') /\ Fits(toConfirm, mempool')
    BY <1>13, KeepFits DEF Tracked, StatusFits
  <2>2. Fits(toController', mempool')
    BY <1>1, <1>3, <1>7, <1>10, <1>14, MinedFits
  <2>3. \A t \in waiting : mempool'[t] \in {"WaitingMined", "Mined"}
    BY <1>10, <1>14 DEF Tracked, StatusFits
  <2> QED
    BY <1>9, <1>11, <1>13, <2>1, <2>2, <2>3 DEF Tracked, StatusFits
<1>16. MinedFirst'
  <2>1. \A t \in In(toController', "ConfirmedTxs") :
          mempool[t] = "Mined" \/ Mines(m, t) => mempool'[t] = "Mined"
    BY <1>10, <1>14, ConfirmedCarried DEF Mines, S
  <2>2. InSequence(toController', mempool', mined)
    BY <1>2, <2>1, TakeInSequence
  <2>3. In(toController, "MinedTxs") = In(toController', "MinedTxs") \cup S
    BY <1>2, TakeIn DEF InWith, Says, S
  <2>4. \A t \in mined : mempool'[t] = "Mined" \/ t \in In(toController', "MinedTxs")
    BY <1>5, <1>10, <1>14, <2>3 DEF Tracked, MinedFirst
  <2> QED
    BY <1>5, <2>2, <2>4 DEF MinedFirst
<1>17. S \cap InGraph = {}
  BY <1>6, <1>7, PlacedNotInGraph DEF Places
<1>18. GraphHolds'
  BY <1>3, <1>9, <1>10, <1>11, <1>17, GraphKeeps DEF S
<1>19. EntriesHandled' /\ (Handled => Handled')
  BY <1>7, <1>9, <1>10 DEF Tracked, EntriesHandled, Handled
<1>20. \A t \in Txid : Moved(t)
  BY <1>7, <1>9, <1>10 DEF Moved
<1> QED
  BY <1>11, <1>12, <1>15, <1>16, <1>18, <1>19, <1>20 DEF Tracked, AtRest

LEMMA AttachedTracked ==
  ASSUME OneTxPerId, Vetted, Tracked, NEW m, Took(m), m.type = "AttachedTxs",
         handle_attached_txs(m.txs)
  PROVE  Tracked' /\ (Handled => Handled') /\ \A t \in Txid : Moved(t)
<1> DEFINE S == m.txs
<1>1. /\ m \in ControllerMsgs /\ Apart(toController')
      /\ Carried(toController) = CarriedWith(toController', m)
      /\ In(toController, "AttachedTxs") = In(toController', "AttachedTxs") \cup S
  BY TakeMessage DEF Took, InWith, Says
<1>2. S \subseteq Ids(Passed) /\ Carries(m) = {}
  BY <1>1, CarriesOf DEF ControllerMsgs
<1>3. /\ mempool' = MempoolDelete(S) /\ l1' = WithStatus(S, "Attached")
      /\ UNCHANGED <<toChecker, toConfirm, toGraph>>
  BY DEF handle_attached_txs
<1> HIDE DEF S
<1>4. \A t \in Txid : /\ mempool'[t] = IF t \in S THEN "None" ELSE mempool[t]
                      /\ l1'[t] # NoRow <=> l1[t] # NoRow
                      /\ t \notin S => l1'[t] = l1[t]
                      /\ t \in S /\ l1[t] # NoRow =>
                           l1'[t].tx = l1[t].tx /\ l1'[t].status = "Attached"
  BY <1>2, <1>3, AttachedRows DEF MempoolDelete, MempoolSet
<1>5. S \subseteq InGraph /\ InGraph = InGraph' \cup S
  BY <1>1, <1>3 DEF Took, graphVars, InGraph
<1>6. \A t \in Places : mempool'[t] = mempool[t]
  BY <1>4, <1>5, PlacedNotInGraph, PlacesAreIds
<1>7. UNCHANGED <<waiting, InChecker, unchecked, checked_txs, invalid_txs, checking, batch, toGraph>>
      /\ Carried(toController) = Carried(toController')
  BY <1>1, <1>2, <1>3 DEF Took, checkerVars, graphVars, InChecker, CarriedWith
<1>8. OnePlace'
  BY <1>1, <1>3, <1>7 DEF Tracked, OnePlace
<1>9. StatusFits'
  <2>1. Fits(toController', mempool')
    BY <1>6, <1>7, TakeMessage, KeepFits DEF Took, Places
  <2>2. Fits(toChecker, mempool') /\ Fits(toConfirm, mempool')
    BY <1>6, KeepFits DEF Tracked, StatusFits, Places
  <2> QED
    BY <1>3, <1>6, <1>7, <2>1, <2>2 DEF Tracked, StatusFits, Places
<1>10. GraphHolds'
  <2>1. \A t \in InGraph' :
          l1'[t] # NoRow /\ (mempool'[t] = "Attaching" \/ l1'[t].status = "Attached")
    <3> TAKE t \in InGraph'
    <3>1. t \in InGraph /\ t \in Txid
      BY <1>5, PlacesAreIds
    <3>2. l1[t] # NoRow /\ (mempool[t] = "Attaching" \/ l1[t].status = "Attached")
      BY <3>1 DEF Tracked, GraphHolds
    <3> QED
      BY <1>4, <3>1, <3>2
  <2>2. \A t \in Txid : mempool'[t] = "Attaching" => t \in InGraph' /\ ~IsAnnouncement(l1'[t].tx)
    <3> SUFFICES ASSUME NEW t \in Txid, mempool'[t] = "Attaching"
                 PROVE  t \in InGraph' /\ ~IsAnnouncement(l1'[t].tx)
      OBVIOUS
    <3>1. t \notin S /\ mempool[t] = "Attaching" /\ l1'[t] = l1[t]
      BY <1>4
    <3>2. t \in InGraph /\ ~IsAnnouncement(l1[t].tx)
      BY <3>1 DEF Tracked, GraphHolds
    <3> QED
      BY <1>5, <3>1, <3>2
  <2> QED
    BY <1>7, <2>1, <2>2 DEF Tracked, GraphHolds
<1>11. EntriesHandled' /\ (Handled => Handled')
  <2> SUFFICES ASSUME NEW t \in Txid
               PROVE  /\ mempool'[t] # "None" => l1'[t].status = "Handling"
                      /\ Handled /\ l1'[t] # NoRow /\ l1'[t].status = "Handling"
                           => mempool'[t] # "None"
    BY DEF EntriesHandled, Handled
  <2>1. CASE t \in S
    BY <1>4, <2>1
  <2>2. CASE t \notin S
    BY <1>4, <2>2 DEF Tracked, EntriesHandled, Handled
  <2> QED
    BY <2>1, <2>2
<1>12. \A t \in Txid : Moved(t)
  <2>1. \A t \in S : t \in In(toController, "AttachedTxs") /\ l1[t] # NoRow
    BY <1>1, <1>5 DEF Tracked, GraphHolds, S
  <2> QED
    BY <1>4, <2>1 DEF Moved
<1>13. MinedFirst'
  BY <1>6, <1>7, NotMinedNext DEF Places
<1> QED
  BY <1>7, <1>8, <1>9, <1>10, <1>11, <1>12, <1>13 DEF Tracked, AtRest

LEMMA FullyCheckedTracked ==
  ASSUME OneTxPerId, Vetted, Tracked, NEW m, Took(m), m.type = "FullyCheckedTxs",
         handle_fully_checked_txs(m.txs)
  PROVE  Tracked' /\ (Handled => Handled') /\ \A t \in Txid : Moved(t)
<1> DEFINE announcements == {x \in m.txs : IsAnnouncement(x)}
           others == m.txs \ announcements
           A == Ids(announcements)
           O == Ids(others)
<1>1. m \in ControllerMsgs /\ \A t \in Carries(m) : mempool[t] \in StatusOf(m.type)
  BY TakeMessage DEF Took
<1>2. m.txs \subseteq Passed /\ m.txs \subseteq Tx /\ Carries(m) = Ids(m.txs)
  BY <1>1, IdSets, CarriesOf DEF ControllerMsgs
<1>3. Carries(m) = A \cup O
  BY <1>2 DEF Ids
<1>4. A \subseteq Txid /\ O \subseteq Txid /\ A \subseteq Ids(Passed) /\ others \subseteq Passed
  BY <1>2, IdSets
<1>5. A \cap O = {}
  BY <1>2 DEF Ids, OneTxPerId
<1>6. \A t \in A \cup O : mempool[t] = "Mined" /\ l1[t] # NoRow
  BY <1>1, <1>3, <1>4 DEF StatusOf, Vetted, EntriesVetted
<1>7. Entries(O) = O
  BY <1>6 DEF Entries
<1>8. /\ mempool' = [t \in Txid |-> IF t \in A THEN "None"
                                    ELSE IF t \in O THEN "Attaching" ELSE mempool[t]]
      /\ l1' = WithStatus(A, "Attached")
      /\ toGraph' = SendUnlessEmpty(toGraph, CheckedTxs(others))
      /\ UNCHANGED <<toChecker, toConfirm>>
  BY <1>7 DEF handle_fully_checked_txs, MissingEntry
<1>9. \A t \in O : ~IsAnnouncement(l1[t].tx)
  <2>1. \A x \in others : TxidOf[x] \in O /\ ~IsAnnouncement(x) /\ x \in Tx
    BY <1>2 DEF Ids
  <2>2. \A x \in others : l1[TxidOf[x]].tx = x
    <3> TAKE x \in others
    <3>1. TxidOf[x] \in Txid /\ l1[TxidOf[x]] # NoRow /\ x \in Tx
      BY <1>4, <1>6, <2>1
    <3>2. l1[TxidOf[x]].tx \in Tx /\ TxidOf[l1[TxidOf[x]].tx] = TxidOf[x]
      BY <3>1, RowOfId
    <3> QED
      BY <3>1, <3>2 DEF OneTxPerId
  <2> QED
    BY <2>1, <2>2 DEF Ids
<1>10. \A x \in others : ~IsAnnouncement(x)
  BY <1>2
<1>21. \A t \in A : IsAnnouncement(l1[t].tx)
  <2>1. \A x \in announcements : TxidOf[x] \in A /\ IsAnnouncement(x) /\ x \in Tx
    BY <1>2 DEF Ids
  <2>2. \A x \in announcements : l1[TxidOf[x]].tx = x
    <3> TAKE x \in announcements
    <3>1. TxidOf[x] \in Txid /\ l1[TxidOf[x]] # NoRow /\ x \in Tx
      BY <1>4, <1>6, <2>1
    <3>2. l1[TxidOf[x]].tx \in Tx /\ TxidOf[l1[TxidOf[x]].tx] = TxidOf[x]
      BY <3>1, RowOfId
    <3> QED
      BY <3>1, <3>2 DEF OneTxPerId
  <2> QED
    BY <2>1, <2>2 DEF Ids
<1> HIDE DEF announcements, others
<1>11. Ids(others) = O
  OBVIOUS
<1> HIDE DEF A, O
<1>12. \A t \in Txid : /\ mempool'[t] = IF t \in A THEN "None"
                                       ELSE IF t \in O THEN "Attaching" ELSE mempool[t]
                       /\ l1'[t] # NoRow <=> l1[t] # NoRow
                       /\ t \notin A => l1'[t] = l1[t]
                       /\ t \in A => l1'[t].tx = l1[t].tx /\ l1'[t].status = "Attached"
  BY <1>4, <1>6, <1>8, AttachedRows
<1>13. /\ Fits(toController', mempool') /\ Fits(toChecker, mempool')
       /\ Fits(toConfirm, mempool')
       /\ \A t \in waiting \cup InChecker : mempool'[t] = mempool[t]
       /\ UNCHANGED <<waiting, InChecker, unchecked, checked_txs, invalid_txs, checking>>
       /\ A \cup O \subseteq Places
       /\ Disjoint((A \cup O) \cup Carried(toController'), Carried(toChecker),
                   Carried(toConfirm), waiting, InChecker)
  BY <1>3, <1>12, OthersKeep
<1>14. OnePlace'
  BY <1>8, <1>13, TakeMessage DEF Took, Tracked, OnePlace, Disjoint
<1>15. StatusFits'
  BY <1>8, <1>13 DEF Tracked, StatusFits
<1>16. In(toGraph', "CheckedTxs") = In(toGraph, "CheckedTxs") \cup others
  <2>1. CheckedTxs(others).type = "CheckedTxs" /\ CheckedTxs(others).txs = others
    BY Messages
  <2>2. CheckedTxs(others) \in GraphMsgs /\ toGraph \in Seq(GraphMsgs)
    BY <1>4 DEF CheckedTxs, GraphMsgs, Vetted, ChannelsVetted
  <2> DEFINE x == CheckedTxs(others)
  <2>3. x.type = "CheckedTxs" /\ x.txs = others /\ x \in GraphMsgs
    BY <2>1, <2>2
  <2>4. toGraph' = SendUnlessEmpty(toGraph, x)
    BY <1>8
  <2> HIDE DEF x
  <2>5. In(SendUnlessEmpty(toGraph, x), "CheckedTxs") =
          InWith(toGraph, x, "CheckedTxs")
    BY <2>2, <2>3, SendIn
  <2> QED
    BY <2>3, <2>4, <2>5 DEF InWith, Says
<1>17. InGraph' = InGraph \cup O
  <2>1. In(toController, "AttachedTxs") = In(toController', "AttachedTxs")
    BY TakeMessage DEF Took, InWith, Says
  <2>2. Ids(In(toGraph', "CheckedTxs")) = Ids(In(toGraph, "CheckedTxs")) \cup O
    BY <1>11, <1>16 DEF Ids
  <2>3. UNCHANGED <<batch, stored_txs, attached_txs>>
    BY DEF Took, graphVars
  <2> QED
    BY <2>1, <2>2, <2>3 DEF InGraph
<1>18. GraphHolds'
  <2>1. ASSUME NEW t \in InGraph'
        PROVE  l1'[t] # NoRow /\ (mempool'[t] = "Attaching" \/ l1'[t].status = "Attached")
    <3>1. CASE t \in O
      BY <1>4, <1>5, <1>6, <1>12, <3>1
    <3>2. CASE t \notin O
      <4>1. t \in InGraph /\ t \in Txid /\ t \notin A
        BY <1>13, <1>17, <3>2, PlacesAreIds, PlacedNotInGraph
      <4>2. l1[t] # NoRow /\ (mempool[t] = "Attaching" \/ l1[t].status = "Attached")
        BY <4>1 DEF Tracked, GraphHolds
      <4> QED
        BY <1>12, <3>2, <4>1, <4>2
    <3> QED
      BY <3>1, <3>2
  <2>2. ASSUME NEW t \in Txid, mempool'[t] = "Attaching"
        PROVE  t \in InGraph' /\ ~IsAnnouncement(l1'[t].tx)
    <3>1. t \notin A /\ l1'[t] = l1[t] /\ (t \in O \/ mempool[t] = "Attaching")
      BY <1>12, <2>2
    <3> QED
      BY <1>9, <1>17, <3>1 DEF Tracked, GraphHolds
  <2>3. UNCHANGED batch
    BY DEF Took, graphVars
  <2>4. \A x \in In(toGraph', "CheckedTxs") \cup batch' : ~IsAnnouncement(x)
    BY <1>10, <1>16, <2>3 DEF Tracked, GraphHolds
  <2> QED
    BY <2>1, <2>2, <2>4 DEF GraphHolds
<1>19. EntriesHandled' /\ (Handled => Handled')
  <2> SUFFICES ASSUME NEW t \in Txid
               PROVE  /\ mempool'[t] # "None" => l1'[t].status = "Handling"
                      /\ Handled /\ l1'[t] # NoRow /\ l1'[t].status = "Handling"
                           => mempool'[t] # "None"
    BY DEF EntriesHandled, Handled
  <2>1. CASE t \in A
    BY <1>12, <2>1
  <2>2. CASE t \in O
    BY <1>5, <1>6, <1>12, <2>2 DEF Tracked, EntriesHandled
  <2>3. CASE t \notin A /\ t \notin O
    BY <1>12, <2>3 DEF Tracked, EntriesHandled, Handled
  <2> QED
    BY <2>1, <2>2, <2>3
<1>20. \A t \in Txid : Moved(t)
  BY <1>6, <1>21, <1>12 DEF Moved
<1>22. MinedFirst'
  BY <1>3, <1>12, OthersKeep
<1> QED
  BY <1>13, <1>14, <1>15, <1>18, <1>19, <1>20, <1>22 DEF Tracked, AtRest

LEMMA ControllerStepTracked ==
  ASSUME OneTxPerId, Vetted, Tracked, ControllerStep
  PROVE  Tracked' /\ (Handled => Handled') /\ \A t \in Txid : Moved(t)
<1> DEFINE m == Head(toController)
<1>1. Took(m) /\ m \in ControllerMsgs /\ m.type # "GetData"
  BY HeadTail DEF Took, Vetted, ChannelsVetted, ControllerStep, ControllerEvent
<1> USE DEF ControllerStep, ControllerEvent
<1>2. CASE m.type = "InitializeTxs"
  <2>1. handle_new_lrc20_txs(m.txs)
    BY <1>2
  <2> QED
    BY <1>1, <1>2, <2>1, NewTracked
<1>3. CASE m.type = "PartiallyCheckedTxs"
  <2>1. handle_partially_checked_txs(m.txs)
    BY <1>3
  <2> QED
    BY <1>1, <1>3, <2>1, PartiallyCheckedTracked
<1>4. CASE m.type = "FullyCheckedTxs"
  <2>1. handle_fully_checked_txs(m.txs)
    BY <1>4
  <2> QED
    BY <1>1, <1>4, <2>1, FullyCheckedTracked
<1>5. CASE m.type = "InvalidTxs"
  <2>1. handle_invalid_txs(m.txs, Entries(m.txs))
    BY <1>5
  <2> QED
    BY <1>1, <1>5, <2>1, InvalidTracked
<1>6. CASE m.type = "MinedTxs"
  <2>1. handle_mined_txs(m.txs)
    BY <1>6
  <2> QED
    BY <1>1, <1>6, <2>1, MinedTracked
<1>7. CASE m.type = "ConfirmedTxs"
  <2>1. handle_confirmed_txs(m.txs)
    BY <1>7
  <2> QED
    BY <1>1, <1>7, <2>1, ConfirmedTracked
<1>8. CASE m.type = "AttachedTxs"
  <2>1. handle_attached_txs(m.txs)
    BY <1>8
  <2> QED
    BY <1>1, <1>8, <2>1, AttachedTracked
<1> QED
  BY <1>1, <1>2, <1>3, <1>4, <1>5, <1>6, <1>7, <1>8 DEF ControllerMsgs

-----------------------------------------------------------------------------
(* The other services keep track.                                          *)

(* A message for the controller that is neither MinedTxs nor ConfirmedTxs. *)
LEMMA SendMessage ==
  ASSUME NEW ch \in Seq(ControllerMsgs), Apart(ch), InSequence(ch, mempool, mined), Fits(ch, mempool),
         NEW m \in ControllerMsgs, m.type \notin {"MinedTxs", "ConfirmedTxs"},
         Carries(m) \cap Carried(ch) = {},
         \A t \in Carries(m) : mempool[t] \in StatusOf(m.type),
         NEW new, new = Send(ch, m) \/ new = SendUnlessEmpty(ch, m)
  PROVE  /\ new \in Seq(ControllerMsgs) /\ Apart(new) /\ InSequence(new, mempool, mined) /\ Fits(new, mempool)
         /\ Carried(new) = CarriedWith(ch, m)
         /\ In(new, "AttachedTxs") =
              InWith(ch, m, "AttachedTxs")
         /\ In(ch, "MinedTxs") \subseteq In(new, "MinedTxs")
<1>1. new \in Seq(ControllerMsgs)
  BY Sending
<1>2. Apart(new) /\ Carried(new) = CarriedWith(ch, m)
  <2>1. /\ Apart(Send(ch, m)) /\ Carried(Send(ch, m)) = CarriedWith(ch, m)
        /\ Apart(SendUnlessEmpty(ch, m))
        /\ Carried(SendUnlessEmpty(ch, m)) = CarriedWith(ch, m)
    BY ZenonT(40), SendApart
  <2> QED
    BY <2>1
<1>3. InSequence(new, mempool, mined)
  BY SendInSequence DEF Mines, Confirms
<1>4. Fits(new, mempool)
  BY SendFits
<1>5. In(new, "AttachedTxs") = InWith(ch, m, "AttachedTxs")
  <2>1. /\ In(Send(ch, m), "AttachedTxs") = InWith(ch, m, "AttachedTxs")
        /\ In(SendUnlessEmpty(ch, m), "AttachedTxs")
             = InWith(ch, m, "AttachedTxs")
    BY SendIn
  <2> QED
    BY <2>1
<1>6. In(ch, "MinedTxs") \subseteq In(new, "MinedTxs")
  <2>1. /\ In(Send(ch, m), "MinedTxs") = InWith(ch, m, "MinedTxs")
        /\ In(SendUnlessEmpty(ch, m), "MinedTxs") = InWith(ch, m, "MinedTxs")
    BY SendIn
  <2> QED
    BY <2>1 DEF InWith
<1> QED
  BY <1>1, <1>2, <1>3, <1>4, <1>5, <1>6

LEMMA ControllerChannel ==
  ASSUME Vetted, Tracked
  PROVE  /\ toController \in Seq(ControllerMsgs) /\ Apart(toController)
         /\ InSequence(toController, mempool, mined) /\ Fits(toController, mempool)
  BY DEF Vetted, ChannelsVetted, Tracked, OnePlace, MinedFirst, StatusFits

LEMMA SubmitTracked ==
  ASSUME Vetted, Tracked, NEW x \in Tx, Submit(x)
  PROVE  Tracked' /\ (Handled => Handled')
<1> DEFINE m == InitializeTxs({x})
<1>1. m \in ControllerMsgs /\ m.type = "InitializeTxs"
  BY DEF InitializeTxs, ControllerMsgs
<1>2. Carries(m) = {}
  BY <1>1, CarriesOf
<1>3. toController' = Send(toController, m)
  BY DEF Submit
<1> HIDE DEF m
<1>4. /\ Apart(toController') /\ InSequence(toController', mempool, mined) /\ Fits(toController', mempool)
      /\ Carried(toController') = Carried(toController)
      /\ In(toController', "AttachedTxs") = In(toController, "AttachedTxs")
      /\ In(toController, "MinedTxs") \subseteq In(toController', "MinedTxs")
  <2>1. /\ m.type \notin {"MinedTxs", "ConfirmedTxs"} /\ m.type # "AttachedTxs"
        /\ Carries(m) \cap Carried(toController) = {}
        /\ \A t \in Carries(m) : mempool[t] \in StatusOf(m.type)
    BY <1>1, <1>2
  <2>2. /\ Apart(toController') /\ InSequence(toController', mempool, mined) /\ Fits(toController', mempool)
        /\ Carried(toController') = CarriedWith(toController, m)
        /\ In(toController', "AttachedTxs") =
             InWith(toController, m, "AttachedTxs")
        /\ In(toController, "MinedTxs") \subseteq In(toController', "MinedTxs")
    BY <1>1, <1>3, <2>1, ControllerChannel, SendMessage
  <2> QED
    BY <1>2, <2>1, <2>2 DEF InWith, Says, CarriedWith
<1>5. /\ UNCHANGED <<l1, mempool, toChecker, toGraph, toConfirm, waiting, mined, checking,
                     unchecked, checked_txs, invalid_txs, batch, stored_txs, attached_txs>>
  BY DEF Submit, storage, checkerVars, graphVars
<1>6. OnePlace' /\ UNCHANGED InChecker
  BY <1>4, <1>5 DEF Tracked, OnePlace, InChecker
<1>7. StatusFits'
  BY <1>4, <1>5, <1>6 DEF Tracked, StatusFits
<1>8. MinedFirst'
  BY <1>4, <1>5 DEF Tracked, MinedFirst
<1>9. GraphHolds'
  BY <1>4, <1>5 DEF Tracked, GraphHolds, InGraph
<1> QED
  BY <1>5, <1>6, <1>7, <1>8, <1>9 DEF Tracked, AtRest, EntriesHandled, Handled

LEMMA GetDataTracked ==
  ASSUME Vetted, Tracked, send_get_data
  PROVE  Tracked' /\ (Handled => Handled')
<1> DEFINE m == Head(toController)
<1>1. Took(m) /\ m.type = "GetData"
  BY DEF send_get_data, Next1, Took
<1>2. Carries(m) = {}
  BY <1>1, CarriesOf
<1> HIDE DEF m
<1>3. /\ Apart(toController') /\ Fits(toController', mempool)
      /\ Carried(toController') = Carried(toController)
      /\ In(toController', "AttachedTxs") = In(toController, "AttachedTxs")
  BY <1>1, <1>2, TakeMessage DEF Took, InWith, Says, CarriedWith
<1>4. /\ UNCHANGED <<l1, mempool, toChecker, toGraph, toConfirm, waiting, mined, checking,
                     unchecked, checked_txs, invalid_txs, batch, stored_txs, attached_txs>>
  BY DEF send_get_data, storage, checkerVars, graphVars
<1>5. OnePlace' /\ UNCHANGED InChecker
  BY <1>3, <1>4 DEF Tracked, OnePlace, InChecker
<1>6. StatusFits'
  BY <1>3, <1>4, <1>5 DEF Tracked, StatusFits
<1>7. MinedFirst'
  BY <1>1, <1>4, NotMinedNext
<1>8. GraphHolds'
  BY <1>3, <1>4 DEF Tracked, GraphHolds, InGraph
<1> QED
  BY <1>4, <1>5, <1>6, <1>7, <1>8 DEF Tracked, AtRest, EntriesHandled, Handled

LEMMA ConfirmatorTakesTracked ==
  ASSUME Vetted, Tracked, ConfirmatorTakes
  PROVE  Tracked' /\ (Handled => Handled')
<1> DEFINE m == Head(toConfirm)
<1>1. toConfirm \in Seq(ConfirmMsgs) /\ toConfirm # <<>> /\ m \in ConfirmMsgs
      /\ Apart(toConfirm) /\ Fits(toConfirm, mempool)
  BY HeadTail DEF ConfirmatorTakes, Vetted, ChannelsVetted, Tracked, OnePlace, StatusFits
<1>2. m.type = "Txs" /\ Carries(m) = m.txs
  BY <1>1, CarriesOf DEF ConfirmMsgs
<1>3. toConfirm' = Tail(toConfirm) /\ waiting' = waiting \cup m.txs
  BY DEF ConfirmatorTakes
<1> HIDE DEF m
<1>4. /\ Apart(toConfirm') /\ Carried(toConfirm) = m.txs \cup Carried(toConfirm')
      /\ m.txs \cap Carried(toConfirm') = {}
      /\ Fits(toConfirm', mempool) /\ \A t \in m.txs : mempool[t] \in StatusOf("Txs")
  <2>1. /\ Apart(Tail(toConfirm)) /\ Carried(toConfirm) = CarriedWith(Tail(toConfirm), m)
        /\ Carries(m) \cap Carried(Tail(toConfirm)) = {}
    BY <1>1, TakeApart DEF m
  <2>2. /\ Fits(Tail(toConfirm), mempool)
        /\ \A t \in Carries(m) : mempool[t] \in StatusOf(m.type)
    BY <1>1, TakeFits DEF m
  <2> QED
    BY <1>2, <1>3, <2>1, <2>2 DEF CarriedWith
<1>5. UNCHANGED <<l1, mempool, mined, toController, toChecker, toGraph, checking, unchecked,
                  checked_txs, invalid_txs, batch, stored_txs, attached_txs>>
  BY DEF ConfirmatorTakes, storage, checkerVars, graphVars
<1>6. UNCHANGED InChecker
  BY <1>5 DEF InChecker
<1>7. OnePlace'
  BY <1>3, <1>4, <1>5, <1>6 DEF Tracked, OnePlace, Disjoint
<1>8. StatusFits'
  <2>1. \A t \in waiting' : mempool'[t] \in {"WaitingMined", "Mined"}
    BY <1>3, <1>4, <1>5 DEF Tracked, StatusFits, StatusOf
  <2> QED
    BY <1>4, <1>5, <1>6, <2>1 DEF Tracked, StatusFits
<1>9. MinedFirst'
  BY <1>5 DEF Tracked, MinedFirst
<1>10. GraphHolds'
  BY <1>5 DEF Tracked, GraphHolds, InGraph
<1> QED
  BY <1>5, <1>7, <1>8, <1>9, <1>10 DEF Tracked, AtRest, EntriesHandled, Handled

LEMMA ConfirmatorMinesTracked ==
  ASSUME Vetted, Tracked, NEW S \in SUBSET Txid, ConfirmatorMines(S)
  PROVE  Tracked' /\ (Handled => Handled')
<1> DEFINE m == MinedTxs(S)
<1>1. S \subseteq waiting /\ mined' = mined \cup S /\ toController' = Send(toController, m)
  BY DEF ConfirmatorMines
<1>2. m \in ControllerMsgs
  BY <1>1 DEF MinedTxs, ControllerMsgs, Vetted, ServicesVetted
<1>3. m.type = "MinedTxs" /\ m.txs = S
  BY Messages
<1>4. Carries(m) = {}
  BY <1>3, CarriesOf
<1> HIDE DEF m
<1>5. Apart(toController') /\ Carried(toController') = Carried(toController)
  <2>1. Carries(m) \cap Carried(toController) = {}
    BY <1>4
  <2>2. Apart(Send(toController, m))
        /\ Carried(Send(toController, m)) = CarriedWith(toController, m)
    BY <1>2, <2>1, ControllerChannel, SendApart
  <2> QED
    BY <1>1, <1>4, <2>2 DEF CarriedWith
<1>6. Fits(toController', mempool)
  BY <1>1, <1>2, <1>4, ControllerChannel, SendFits
<1>7. InSequence(toController', mempool, mined')
  <2>1. /\ \A t \in mined : t \in mined' \/ Confirms(m, t)
        /\ \A t \in m.txs : /\ Mines(m, t) => t \in mined'
                            /\ Confirms(m, t) => \/ mempool[t] = "Mined"
                                                \/ t \in In(toController, "MinedTxs")
    BY <1>1, <1>3 DEF Confirms
  <2> QED
    BY <1>1, <1>2, <2>1, ControllerChannel, SendInSequence
<1>8. /\ In(toController', "MinedTxs") = In(toController, "MinedTxs") \cup S
      /\ In(toController', "AttachedTxs") = In(toController, "AttachedTxs")
  <2>1. /\ In(Send(toController, m), "MinedTxs") = InWith(toController, m, "MinedTxs")
        /\ In(Send(toController, m), "AttachedTxs") = InWith(toController, m, "AttachedTxs")
    BY <1>2, ControllerChannel, SendIn
  <2> QED
    BY <1>1, <1>3, <2>1 DEF InWith, Says
<1>9. UNCHANGED <<l1, mempool, toConfirm, toChecker, toGraph, waiting, checking, unchecked,
                  checked_txs, invalid_txs, batch, stored_txs, attached_txs>>
  BY DEF ConfirmatorMines, storage, checkerVars, graphVars
<1>10. UNCHANGED InChecker
  BY <1>9 DEF InChecker
<1>11. OnePlace'
  BY <1>5, <1>9, <1>10 DEF Tracked, OnePlace
<1>12. StatusFits'
  BY <1>6, <1>9, <1>10 DEF Tracked, StatusFits
<1>13. MinedFirst'
  BY <1>1, <1>7, <1>8, <1>9 DEF Tracked, MinedFirst
<1>14. GraphHolds'
  BY <1>8, <1>9 DEF Tracked, GraphHolds, InGraph
<1> QED
  BY <1>9, <1>11, <1>12, <1>13, <1>14 DEF Tracked, AtRest, EntriesHandled, Handled

LEMMA ConfirmatorConfirmsTracked ==
  ASSUME Vetted, Tracked, NEW S \in SUBSET Txid, ConfirmatorConfirms(S)
  PROVE  Tracked' /\ (Handled => Handled')
<1> DEFINE c == ConfirmedTxs(S)
<1>1. /\ S \subseteq mined /\ S \subseteq waiting /\ waiting' = waiting \ S
      /\ mined' = mined \ S /\ toController' = Send(toController, c)
  BY DEF ConfirmatorConfirms, Vetted, ServicesVetted
<1>2. c \in ControllerMsgs
  BY <1>1 DEF ConfirmedTxs, ControllerMsgs, Vetted, ServicesVetted
<1>3. c.type = "ConfirmedTxs" /\ c.txs = S
  BY Messages
<1>4. Carries(c) = S
  BY <1>3, CarriesOf
<1> HIDE DEF c
<1>5. Apart(toController') /\ Carried(toController') = Carried(toController) \cup S
  <2>1. Carries(c) \cap Carried(toController) = {}
    BY <1>1, <1>4 DEF Tracked, OnePlace, Disjoint
  <2>2. Apart(Send(toController, c))
        /\ Carried(Send(toController, c)) = CarriedWith(toController, c)
    BY <1>2, <2>1, ControllerChannel, SendApart
  <2> QED
    BY <1>1, <1>4, <2>2 DEF CarriedWith
<1>6. Fits(toController', mempool)
  <2>1. \A t \in Carries(c) : mempool[t] \in StatusOf(c.type)
    BY <1>1, <1>3, <1>4 DEF Tracked, StatusFits, StatusOf
  <2> QED
    BY <1>1, <1>2, <2>1, ControllerChannel, SendFits
<1>7. InSequence(toController', mempool, mined')
  <2>1. /\ \A t \in mined : t \in mined' \/ Confirms(c, t)
        /\ \A t \in c.txs : /\ Mines(c, t) => t \in mined'
                            /\ Confirms(c, t) => \/ mempool[t] = "Mined"
                                                \/ t \in In(toController, "MinedTxs")
    BY <1>1, <1>3 DEF Confirms, Mines, Tracked, MinedFirst
  <2> QED
    BY <1>1, <1>2, <2>1, ControllerChannel, SendInSequence
<1>8. /\ In(toController', "MinedTxs") = In(toController, "MinedTxs")
      /\ In(toController', "AttachedTxs") = In(toController, "AttachedTxs")
  <2>1. /\ In(Send(toController, c), "MinedTxs") = InWith(toController, c, "MinedTxs")
        /\ In(Send(toController, c), "AttachedTxs") = InWith(toController, c, "AttachedTxs")
    BY <1>2, ControllerChannel, SendIn
  <2> QED
    BY <1>1, <1>3, <2>1 DEF InWith, Says
<1>9. UNCHANGED <<l1, mempool, toConfirm, toChecker, toGraph, checking, unchecked,
                  checked_txs, invalid_txs, batch, stored_txs, attached_txs>>
  BY DEF ConfirmatorConfirms, storage, checkerVars, graphVars
<1>10. UNCHANGED InChecker
  BY <1>9 DEF InChecker
<1>11. OnePlace'
  BY <1>1, <1>5, <1>9, <1>10 DEF Tracked, OnePlace, Disjoint
<1>12. StatusFits'
  BY <1>1, <1>6, <1>9, <1>10 DEF Tracked, StatusFits
<1>13. MinedFirst'
  BY <1>1, <1>7, <1>8, <1>9 DEF Tracked, MinedFirst
<1>14. GraphHolds'
  BY <1>8, <1>9 DEF Tracked, GraphHolds, InGraph
<1> QED
  BY <1>9, <1>11, <1>12, <1>13, <1>14 DEF Tracked, AtRest, EntriesHandled, Handled

-----------------------------------------------------------------------------

(* The ids of different transactions are different.                        *)
LEMMA IdsApart ==
  ASSUME OneTxPerId, NEW X \in SUBSET Tx, NEW Y \in SUBSET Tx, X \cap Y = {}
  PROVE  Ids(X) \cap Ids(Y) = {} /\ Ids(X \cup Y) = Ids(X) \cup Ids(Y)
  BY DEF Ids, OneTxPerId

LEMMA IsolatedTracked ==
  ASSUME OneTxPerId, Vetted, Tracked, check_txs_isolated,
         UNCHANGED <<toGraph, toConfirm, graphVars, waiting, mined>>
  PROVE  Tracked' /\ (Handled => Handled')
<1> DEFINE m == Head(toChecker)
           txs == m.txs
           good == Ids(txs \cap Sound)
           bad == Ids(txs \ Sound)
           p == PartiallyCheckedTxs(good)
           i == InvalidTxs(bad)
           ch == SendUnlessEmpty(toController, p)
<1>1. /\ toChecker \in Seq(CheckerMsgs) /\ toChecker # <<>> /\ m.type = "IsolatedCheck"
      /\ Apart(toChecker) /\ Fits(toChecker, mempool) /\ m \in CheckerMsgs
      /\ toChecker' = Tail(toChecker) /\ toController' = SendUnlessEmpty(ch, i)
  BY HeadTail DEF check_txs_isolated, CheckerTakes, Next1, Vetted, ChannelsVetted, Tracked,
     OnePlace, StatusFits
<1>2. txs \subseteq Tx /\ Carries(m) = Ids(txs)
  BY <1>1, CarriesOf, IdSets DEF CheckerMsgs
<1>3. good \cap bad = {} /\ Ids(txs) = good \cup bad
  <2>1. (txs \cap Sound) \cup (txs \ Sound) = txs
    OBVIOUS
  <2> QED
    BY SMT, <1>2, <2>1, IdsApart
<1>4. p \in ControllerMsgs /\ i \in ControllerMsgs
  BY <1>2, IdSets DEF PartiallyCheckedTxs, InvalidTxs, ControllerMsgs
<1> HIDE DEF m, txs, good, bad
<1>5. p.type = "PartiallyCheckedTxs" /\ p.txs = good /\ i.type = "InvalidTxs" /\ i.txs = bad
  BY Messages
<1>6. Carries(p) = good /\ Carries(i) = bad
  BY <1>5, CarriesOf
<1> HIDE DEF p, i
<1>7. /\ Apart(toChecker') /\ Carried(toChecker) = Ids(txs) \cup Carried(toChecker')
      /\ Ids(txs) \cap Carried(toChecker') = {} /\ Fits(toChecker', mempool)
      /\ \A t \in Ids(txs) : mempool[t] \in StatusOf("IsolatedCheck")
  <2>1. /\ Apart(Tail(toChecker)) /\ Carried(toChecker) = CarriedWith(Tail(toChecker), m)
        /\ Carries(m) \cap Carried(Tail(toChecker)) = {}
    BY <1>1, TakeApart DEF m
  <2>2. /\ Fits(Tail(toChecker), mempool)
        /\ \A t \in Carries(m) : mempool[t] \in StatusOf(m.type)
    BY <1>1, TakeFits DEF m
  <2> QED
    BY <1>1, <1>2, <2>1, <2>2 DEF CarriedWith
<1>8. \A t \in good \cup bad : mempool[t] = "Initialized"
  BY <1>3, <1>7 DEF StatusOf
<1>9. (good \cup bad) \cap Carried(toController) = {}
  BY <1>3, <1>7 DEF Tracked, OnePlace, Disjoint
<1>10. /\ ch \in Seq(ControllerMsgs) /\ Apart(ch) /\ InSequence(ch, mempool, mined) /\ Fits(ch, mempool)
       /\ Carried(ch) = Carried(toController) \cup good
       /\ In(ch, "AttachedTxs") = In(toController, "AttachedTxs")
       /\ In(toController, "MinedTxs") \subseteq In(ch, "MinedTxs")
  <2>1. /\ p.type \notin {"MinedTxs", "ConfirmedTxs"} /\ p.type # "AttachedTxs"
        /\ Carries(p) \cap Carried(toController) = {}
        /\ \A t \in Carries(p) : mempool[t] \in StatusOf(p.type)
    BY <1>5, <1>6, <1>8, <1>9 DEF StatusOf
  <2>2. /\ ch \in Seq(ControllerMsgs) /\ Apart(ch) /\ InSequence(ch, mempool, mined) /\ Fits(ch, mempool)
        /\ Carried(ch) = CarriedWith(toController, p)
        /\ In(ch, "AttachedTxs")
             = InWith(toController, p, "AttachedTxs")
        /\ In(toController, "MinedTxs") \subseteq In(ch, "MinedTxs")
    BY <1>4, <2>1, ControllerChannel, SendMessage
  <2> QED
    BY <1>6, <2>1, <2>2 DEF InWith, Says, CarriedWith
<1> HIDE DEF ch
<1>11. /\ Apart(toController') /\ InSequence(toController', mempool, mined) /\ Fits(toController', mempool)
       /\ Carried(toController') = Carried(toController) \cup good \cup bad
       /\ In(toController', "AttachedTxs") = In(toController, "AttachedTxs")
       /\ In(toController, "MinedTxs") \subseteq In(toController', "MinedTxs")
  <2>1. /\ i.type \notin {"MinedTxs", "ConfirmedTxs"} /\ i.type # "AttachedTxs"
        /\ Carries(i) \cap Carried(ch) = {}
        /\ \A t \in Carries(i) : mempool[t] \in StatusOf(i.type)
    BY <1>3, <1>5, <1>6, <1>8, <1>9, <1>10 DEF StatusOf
  <2>2. /\ Apart(toController') /\ InSequence(toController', mempool, mined) /\ Fits(toController', mempool)
        /\ Carried(toController') = CarriedWith(ch, i)
        /\ In(toController', "AttachedTxs")
             = InWith(ch, i, "AttachedTxs")
        /\ In(ch, "MinedTxs") \subseteq In(toController', "MinedTxs")
    BY <1>1, <1>4, <1>10, <2>1, SendMessage
  <2> QED
    BY <1>6, <1>10, <2>1, <2>2 DEF InWith, Says, CarriedWith
<1>12. UNCHANGED <<l1, mempool, toConfirm, toGraph, waiting, mined, checking, unchecked, checked_txs,
                   invalid_txs, batch, stored_txs, attached_txs>>
  BY DEF check_txs_isolated, storage, checkerVars, graphVars
<1>13. UNCHANGED InChecker
  BY <1>12 DEF InChecker
<1>14. OnePlace'
  BY <1>3, <1>7, <1>11, <1>12, <1>13 DEF Tracked, OnePlace, Disjoint
<1>15. StatusFits'
  BY <1>7, <1>11, <1>12, <1>13 DEF Tracked, StatusFits
<1>16. MinedFirst'
  BY <1>11, <1>12 DEF Tracked, MinedFirst
<1>17. GraphHolds'
  BY <1>11, <1>12 DEF Tracked, GraphHolds, InGraph
<1> QED
  BY <1>12, <1>14, <1>15, <1>16, <1>17 DEF Tracked, AtRest, EntriesHandled, Handled

LEMMA FullTracked ==
  ASSUME Vetted, Tracked, check_txs_full, UNCHANGED <<toGraph, toConfirm, graphVars, waiting, mined>>
  PROVE  Tracked' /\ (Handled => Handled')
<1> DEFINE m == Head(toChecker)
<1>1. /\ toChecker \in Seq(CheckerMsgs) /\ toChecker # <<>> /\ m.type = "FullCheck"
      /\ Apart(toChecker) /\ Fits(toChecker, mempool)
      /\ toChecker' = Tail(toChecker) /\ unchecked' = m.txs /\ checking' = TRUE
  BY DEF check_txs_full, CheckerTakes, Next1, Vetted, ChannelsVetted, Tracked, OnePlace,
     StatusFits
<1>2. Carries(m) = Ids(m.txs)
  BY <1>1, CarriesOf
<1>3. checked_txs = {} /\ invalid_txs = {} /\ unchecked = {}
  BY DEF check_txs_full, CheckerTakes, Tracked, AtRest
<1>4. UNCHANGED <<l1, mempool, toController, toConfirm, toGraph, waiting, mined, checked_txs,
                  invalid_txs, batch, stored_txs, attached_txs>>
  BY DEF check_txs_full, storage, graphVars
<1> HIDE DEF m
<1>5. /\ Apart(toChecker') /\ Carried(toChecker) = Ids(m.txs) \cup Carried(toChecker')
      /\ Ids(m.txs) \cap Carried(toChecker') = {} /\ Fits(toChecker', mempool)
      /\ \A t \in Ids(m.txs) : mempool[t] \in StatusOf("FullCheck")
  <2>1. /\ Apart(Tail(toChecker)) /\ Carried(toChecker) = CarriedWith(Tail(toChecker), m)
        /\ Carries(m) \cap Carried(Tail(toChecker)) = {}
    BY <1>1, TakeApart DEF m
  <2>2. /\ Fits(Tail(toChecker), mempool)
        /\ \A t \in Carries(m) : mempool[t] \in StatusOf(m.type)
    BY <1>1, TakeFits DEF m
  <2> QED
    BY <1>1, <1>2, <2>1, <2>2 DEF CarriedWith
<1>6. InChecker' = Ids(m.txs)
  BY <1>1, <1>3, <1>4 DEF InChecker, Ids
<1>7. OnePlace'
  BY <1>1, <1>3, <1>4, <1>5, <1>6 DEF Tracked, OnePlace, Disjoint
<1>8. StatusFits'
  <2>1. \A t \in InChecker' : mempool'[t] = "Mined"
    BY <1>4, <1>5, <1>6 DEF StatusOf
  <2> QED
    BY <1>4, <1>5, <2>1 DEF Tracked, StatusFits
<1>9. MinedFirst'
  BY <1>4 DEF Tracked, MinedFirst
<1>10. GraphHolds'
  BY <1>4 DEF Tracked, GraphHolds, InGraph
<1> QED
  BY <1>1, <1>4, <1>7, <1>8, <1>9, <1>10 DEF Tracked, AtRest, EntriesHandled, Handled

LEMMA OneCheckedTracked ==
  ASSUME OneTxPerId, Vetted, Tracked, NEW x \in Tx, check_lrc20_transaction(x),
         UNCHANGED <<toGraph, toConfirm, graphVars, waiting, mined>>
  PROVE  Tracked' /\ (Handled => Handled')
<1>1. /\ x \in unchecked /\ unchecked' = unchecked \ {x}
      /\ \/ checked_txs' = checked_txs \cup {x} /\ invalid_txs' = invalid_txs
         \/ invalid_txs' = invalid_txs \cup {x} /\ checked_txs' = checked_txs
      /\ UNCHANGED l1 \/ l1' = Inserted({x})
      /\ UNCHANGED <<checking, mempool, toChecker, toController>>
  BY OneChecked
<1>2. checking'
  BY SMT, <1>1 DEF check_lrc20_transaction
<1>3. UNCHANGED InChecker
  BY <1>1 DEF InChecker, Ids
<1>4. UNCHANGED <<toGraph, toConfirm, batch, stored_txs, attached_txs, waiting, mined>>
  BY DEF graphVars
<1>5. OnePlace'
  BY <1>1, <1>3, <1>4 DEF Tracked, OnePlace
<1>6. StatusFits'
  BY <1>1, <1>3, <1>4 DEF Tracked, StatusFits
<1>7. MinedFirst'
  BY <1>1, <1>4 DEF Tracked, MinedFirst
<1>8. TxidOf[x] \in InChecker /\ TxidOf[x] \in Txid /\ mempool[TxidOf[x]] = "Mined"
  BY <1>1, TxAssumption DEF InChecker, Ids, Tracked, StatusFits
<1>9. /\ \A t \in Txid : t # TxidOf[x] => l1'[t] = l1[t]
      /\ UNCHANGED l1 \/ l1'[TxidOf[x]] = [tx |-> x, status |-> "Handling"]
  <2>1. CASE l1' = Inserted({x})
    <3>1. /\ l1'[TxidOf[x]] = [tx |-> x, status |-> "Handling"]
          /\ \A t \in Txid : t \notin Ids({x}) => l1'[t] = l1[t]
      BY <2>1, InsertedRows
    <3>2. Ids({x}) = {TxidOf[x]}
      BY DEF Ids
    <3> QED
      BY <3>1, <3>2
  <2> QED
    BY <1>1, <2>1
<1>10. GraphHolds'
  <2>1. {TxidOf[x]} \cap InGraph = {}
    BY <1>8, PlacedNotInGraph DEF Places
  <2>2. UNCHANGED InGraph
    BY <1>1, <1>4 DEF InGraph
  <2> QED
    BY <1>1, <1>4, <1>8, <1>9, <2>1, <2>2, GraphKeeps
<1>11. EntriesHandled' /\ (Handled => Handled')
  <2> SUFFICES ASSUME NEW t \in Txid
               PROVE  /\ mempool'[t] # "None" => l1'[t].status = "Handling"
                      /\ Handled /\ l1'[t] # NoRow /\ l1'[t].status = "Handling"
                           => mempool'[t] # "None"
    BY DEF EntriesHandled, Handled
  <2>1. CASE t = TxidOf[x]
    BY SMT, <1>1, <1>8, <1>9, <2>1 DEF Tracked, EntriesHandled
  <2>2. CASE t # TxidOf[x]
    BY <1>1, <1>9, <2>2 DEF Tracked, EntriesHandled, Handled
  <2> QED
    BY <2>1, <2>2
<1> QED
  BY <1>2, <1>5, <1>6, <1>7, <1>10, <1>11 DEF Tracked, AtRest

LEMMA FullDoneTracked ==
  ASSUME OneTxPerId, Vetted, Tracked, FullCheckDone,
         UNCHANGED <<toGraph, toConfirm, graphVars, waiting, mined>>
  PROVE  Tracked' /\ (Handled => Handled')
<1> DEFINE good == Ids(checked_txs)
           bad == Ids(invalid_txs)
           f == FullyCheckedTxs(checked_txs)
           i == InvalidTxs(bad)
           g == GetData(not_found_parents)
           c1 == SendUnlessEmpty(toController, f)
           c2 == SendUnlessEmpty(c1, i)
<1>1. /\ toController' = SendUnlessEmpty(c2, g) /\ unchecked = {} /\ unchecked' = {}
      /\ checked_txs' = {} /\ invalid_txs' = {}
  BY DEF FullCheckDone
<1>2. f \in ControllerMsgs /\ i \in ControllerMsgs /\ g \in ControllerMsgs
  BY IdSets DEF Vetted, ServicesVetted, FullyCheckedTxs, InvalidTxs, GetData, ControllerMsgs
<1>3. f.type = "FullyCheckedTxs" /\ f.txs = checked_txs /\ i.type = "InvalidTxs" /\ i.txs = bad
      /\ g.type = "GetData"
  BY ZenonT(30), Messages
<1>4. Carries(f) = good /\ Carries(i) = bad /\ Carries(g) = {}
  BY <1>3, CarriesOf
<1>5. good \cap bad = {}
  BY IdSets, IdsApart DEF Vetted, ServicesVetted, Tracked, OnePlace
<1>6. InChecker = good \cup bad /\ InChecker' = {}
  BY <1>1 DEF InChecker, Ids
<1>7. \A t \in good \cup bad : mempool[t] = "Mined"
  BY <1>6 DEF Tracked, StatusFits
<1>8. (good \cup bad) \cap Carried(toController) = {}
  BY <1>6 DEF Tracked, OnePlace, Disjoint
<1> HIDE DEF good, bad, f, i, g
<1>9. /\ c1 \in Seq(ControllerMsgs) /\ Apart(c1) /\ InSequence(c1, mempool, mined) /\ Fits(c1, mempool)
      /\ Carried(c1) = Carried(toController) \cup good
      /\ In(c1, "AttachedTxs") = In(toController, "AttachedTxs")
      /\ In(toController, "MinedTxs") \subseteq In(c1, "MinedTxs")
  <2>1. /\ f.type \notin {"MinedTxs", "ConfirmedTxs"} /\ f.type # "AttachedTxs"
        /\ Carries(f) \cap Carried(toController) = {}
        /\ \A t \in Carries(f) : mempool[t] \in StatusOf(f.type)
    BY <1>3, <1>4, <1>7, <1>8 DEF StatusOf
  <2>2. /\ c1 \in Seq(ControllerMsgs) /\ Apart(c1) /\ InSequence(c1, mempool, mined) /\ Fits(c1, mempool)
        /\ Carried(c1) = CarriedWith(toController, f)
        /\ In(c1, "AttachedTxs")
             = InWith(toController, f, "AttachedTxs")
        /\ In(toController, "MinedTxs") \subseteq In(c1, "MinedTxs")
    BY <1>2, <2>1, ControllerChannel, SendMessage
  <2> QED
    BY <1>4, <2>1, <2>2 DEF InWith, Says, CarriedWith
<1> HIDE DEF c1
<1>10. /\ c2 \in Seq(ControllerMsgs) /\ Apart(c2) /\ InSequence(c2, mempool, mined) /\ Fits(c2, mempool)
       /\ Carried(c2) = Carried(toController) \cup good \cup bad
       /\ In(c2, "AttachedTxs") = In(toController, "AttachedTxs")
       /\ In(toController, "MinedTxs") \subseteq In(c2, "MinedTxs")
  <2>1. /\ i.type \notin {"MinedTxs", "ConfirmedTxs"} /\ i.type # "AttachedTxs"
        /\ Carries(i) \cap Carried(c1) = {}
        /\ \A t \in Carries(i) : mempool[t] \in StatusOf(i.type)
    BY <1>3, <1>4, <1>5, <1>7, <1>8, <1>9 DEF StatusOf
  <2>2. /\ c2 \in Seq(ControllerMsgs) /\ Apart(c2) /\ InSequence(c2, mempool, mined) /\ Fits(c2, mempool)
        /\ Carried(c2) = CarriedWith(c1, i)
        /\ In(c2, "AttachedTxs")
             = InWith(c1, i, "AttachedTxs")
        /\ In(c1, "MinedTxs") \subseteq In(c2, "MinedTxs")
    BY <1>2, <1>9, <2>1, SendMessage
  <2> QED
    BY <1>4, <1>9, <2>1, <2>2 DEF InWith, Says, CarriedWith
<1> HIDE DEF c2
<1>11. /\ Apart(toController') /\ InSequence(toController', mempool, mined) /\ Fits(toController', mempool)
       /\ Carried(toController') = Carried(toController) \cup good \cup bad
       /\ In(toController', "AttachedTxs") = In(toController, "AttachedTxs")
       /\ In(toController, "MinedTxs") \subseteq In(toController', "MinedTxs")
  <2>1. /\ g.type \notin {"MinedTxs", "ConfirmedTxs"} /\ g.type # "AttachedTxs"
        /\ Carries(g) \cap Carried(c2) = {}
        /\ \A t \in Carries(g) : mempool[t] \in StatusOf(g.type)
    BY <1>3, <1>4
  <2>2. /\ Apart(toController') /\ InSequence(toController', mempool, mined) /\ Fits(toController', mempool)
        /\ Carried(toController') = CarriedWith(c2, g)
        /\ In(toController', "AttachedTxs")
             = InWith(c2, g, "AttachedTxs")
        /\ In(c2, "MinedTxs") \subseteq In(toController', "MinedTxs")
    BY <1>1, <1>2, <1>10, <2>1, SendMessage
  <2> QED
    BY <1>4, <1>10, <2>1, <2>2 DEF InWith, Says, CarriedWith
<1>12. UNCHANGED <<l1, mempool, toChecker, toConfirm, toGraph, waiting, mined, batch, stored_txs,
                   attached_txs>>
  BY DEF FullCheckDone, storage, graphVars
<1>13. OnePlace'
  BY <1>1, <1>6, <1>11, <1>12 DEF Tracked, OnePlace, Disjoint
<1>14. StatusFits'
  BY <1>6, <1>11, <1>12 DEF Tracked, StatusFits
<1>15. MinedFirst'
  BY <1>11, <1>12 DEF Tracked, MinedFirst
<1>16. GraphHolds'
  BY <1>11, <1>12 DEF Tracked, GraphHolds, InGraph
<1> QED
  BY <1>1, <1>12, <1>13, <1>14, <1>15, <1>16 DEF Tracked, AtRest, EntriesHandled, Handled

(* The graph builder: what it has in hand changes its place only.          *)
LEMMA InHandKeeps ==
  ASSUME Vetted, Tracked, UNCHANGED <<l1, mempool, InGraph>>,
         In(toGraph, "CheckedTxs")' \cup batch' \subseteq In(toGraph, "CheckedTxs") \cup batch
  PROVE  GraphHolds'
  BY DEF Tracked, GraphHolds

LEMMA PlacesKeep ==
  ASSUME Tracked, UNCHANGED <<l1, mempool, toController, toChecker, toConfirm, waiting, mined, checking,
                              unchecked, checked_txs, invalid_txs>>
  PROVE  OnePlace' /\ StatusFits' /\ MinedFirst' /\ AtRest' /\ EntriesHandled'
         /\ (Handled => Handled')
<1>1. UNCHANGED InChecker
  BY DEF InChecker
<1>2. OnePlace'
  BY <1>1 DEF Tracked, OnePlace
<1>3. StatusFits'
  BY <1>1 DEF Tracked, StatusFits
<1>4. MinedFirst'
  BY DEF Tracked, MinedFirst
<1> QED
  BY <1>2, <1>3, <1>4 DEF Tracked, AtRest, EntriesHandled, Handled

LEMMA AttachTracked ==
  ASSUME GraphInv, Vetted, Tracked, toGraph # <<>>, attach_txs(Head(toGraph).txs),
         toGraph' = Tail(toGraph), UNCHANGED <<storage, toController>>
  PROVE  GraphHolds'
<1>1. toGraph \in Seq(GraphMsgs) /\ Head(toGraph) \in GraphMsgs
  BY HeadTail DEF Vetted, ChannelsVetted
<1>2. Head(toGraph).type = "CheckedTxs"
  BY <1>1 DEF GraphMsgs
<1>3. In(toGraph, "CheckedTxs") = In(toGraph', "CheckedTxs") \cup Head(toGraph).txs
  BY <1>1, <1>2, TakeIn DEF InWith, Says
<1>4. batch = {} /\ batch' = Head(toGraph).txs /\ UNCHANGED <<stored_txs, attached_txs>>
  BY DEF GraphInv, QueuesInOrder, attach_txs
<1>5. Ids(In(toGraph, "CheckedTxs")) = Ids(In(toGraph', "CheckedTxs")) \cup Ids(batch')
      /\ Ids(batch) = {}
  BY <1>3, <1>4 DEF Ids
<1>6. UNCHANGED InGraph
  BY <1>4, <1>5 DEF InGraph
<1> QED
  BY <1>3, <1>4, <1>6, InHandKeeps DEF storage

LEMMA BatchTracked ==
  ASSUME Vetted, Tracked, NEW x \in Tx, UNCHANGED <<storage, toGraph, toController>>,
         BatchStep(x, TxidOf[x], Kind[x], Parents[x] \ EmptyParents[x], Present)
  PROVE  GraphHolds'
<1> DEFINE t == TxidOf[x]
<1>1. x \in batch /\ batch' = batch \ {x}
  BY DEF BatchStep
<1>2. Kind[x] \in {"Issue", "Transfer", "SparkExit"}
  BY <1>1, TxAssumption DEF Tracked, GraphHolds, IsAnnouncement, Kinds
<1>3. \/ attached_txs' = attached_txs \cup {t} /\ stored_txs' = stored_txs
      \/ stored_txs' = stored_txs \cup {t} /\ attached_txs' = attached_txs
  <2>1. CASE Kind[x] = "Issue"
    BY <2>1 DEF BatchStep, attach_issue, Attach
  <2>2. CASE Kind[x] = "Transfer"
    BY <2>2 DEF BatchStep, handle_transfer, Attach
  <2>3. CASE Kind[x] = "SparkExit"
    BY <2>3 DEF BatchStep, handle_spark_exit
  <2> QED
    BY <1>2, <2>1, <2>2, <2>3
<1>4. Ids(batch) = Ids(batch') \cup {t}
  BY <1>1 DEF Ids
<1>5. UNCHANGED InGraph
  BY <1>3, <1>4 DEF InGraph
<1> QED
  BY <1>1, <1>5, InHandKeeps DEF storage

LEMMA QueueTracked ==
  ASSUME Vetted, Tracked, NEW t \in Txid, QueueStep(t, Present),
         UNCHANGED <<storage, toGraph, toController>>
  PROVE  GraphHolds'
<1>1. /\ stored_txs' \cup attached_txs' = stored_txs \cup attached_txs
      /\ UNCHANGED batch
  BY DEF QueueStep
<1>2. UNCHANGED InGraph
  BY <1>1 DEF InGraph
<1> QED
  BY <1>1, <1>2, InHandKeeps DEF storage

LEMMA GraphStepTracked ==
  ASSUME GraphInv, Vetted, Tracked, GraphStep
  PROVE  Tracked' /\ (Handled => Handled')
<1>1. UNCHANGED <<l1, mempool, toChecker, toConfirm, waiting, mined, checking, unchecked,
                  checked_txs, invalid_txs>>
  BY DEF GraphStep, storage, checkerVars
<1>2. CASE /\ toGraph # <<>> /\ attach_txs(Head(toGraph).txs)
           /\ toGraph' = Tail(toGraph) /\ UNCHANGED toController
  <2>1. GraphHolds'
    BY <1>1, <1>2, AttachTracked DEF storage
  <2> QED
    BY <1>1, <1>2, <2>1, PlacesKeep DEF Tracked
<1>3. ASSUME NEW x \in Tx, UNCHANGED <<toGraph, toController>>,
             BatchStep(x, TxidOf[x], Kind[x], Parents[x] \ EmptyParents[x], Present)
      PROVE  Tracked' /\ (Handled => Handled')
  <2>1. GraphHolds'
    BY <1>1, <1>3, BatchTracked DEF storage
  <2> QED
    BY <1>1, <1>3, <2>1, PlacesKeep DEF Tracked
<1>4. ASSUME NEW t \in Txid, QueueStep(t, Present), UNCHANGED <<toGraph, toController>>
      PROVE  Tracked' /\ (Handled => Handled')
  <2>1. GraphHolds'
    BY <1>1, <1>4, QueueTracked DEF storage
  <2> QED
    BY <1>1, <1>4, <2>1, PlacesKeep DEF Tracked
<1>5. CASE /\ AttachDone /\ UNCHANGED toGraph
           /\ toController' = SendUnlessEmpty(toController, AttachedTxs(attached_txs))
  <2> DEFINE m == AttachedTxs(attached_txs)
  <2>1. m \in ControllerMsgs
    BY DEF Vetted, ServicesVetted, AttachedTxs, ControllerMsgs
  <2>2. m.type = "AttachedTxs" /\ m.txs = attached_txs
    BY Messages
  <2>3. Carries(m) = {}
    BY <2>2, CarriesOf
  <2> HIDE DEF m
  <2>4. /\ m.type \notin {"MinedTxs", "ConfirmedTxs"}
        /\ Carries(m) \cap Carried(toController) = {}
        /\ \A t \in Carries(m) : mempool[t] \in StatusOf(m.type)
    BY <2>2, <2>3
  <2>5. /\ Apart(toController') /\ InSequence(toController', mempool, mined) /\ Fits(toController', mempool)
        /\ Carried(toController') = CarriedWith(toController, m)
        /\ In(toController', "AttachedTxs")
             = InWith(toController, m, "AttachedTxs")
        /\ In(toController, "MinedTxs") \subseteq In(toController', "MinedTxs")
    BY <1>5, <2>1, <2>4, ControllerChannel, SendMessage DEF m
  <2>6. /\ Carried(toController') = Carried(toController)
        /\ In(toController', "AttachedTxs") = In(toController, "AttachedTxs") \cup attached_txs
    BY <2>2, <2>3, <2>5 DEF InWith, Says, CarriedWith
  <2>7. UNCHANGED <<InGraph, InChecker, batch>>
    <3>1. attached_txs' = {} /\ UNCHANGED <<stored_txs, batch, toGraph>>
      BY <1>5 DEF AttachDone
    <3> QED
      BY <1>1, <2>6, <3>1 DEF InGraph, InChecker
  <2>8. OnePlace'
    BY <1>1, <2>5, <2>6, <2>7 DEF Tracked, OnePlace
  <2>9. StatusFits'
    BY <1>1, <2>5, <2>7 DEF Tracked, StatusFits
  <2>10. MinedFirst'
    BY <1>1, <2>5 DEF Tracked, MinedFirst
  <2>11. GraphHolds'
    BY <1>1, <1>5, <2>7, InHandKeeps
  <2> QED
    BY <1>1, <2>8, <2>9, <2>10, <2>11 DEF Tracked, AtRest, EntriesHandled, Handled
<1> QED
  BY <1>2, <1>3, <1>4, <1>5 DEF GraphStep

LEMMA EmptyChannel ==
  /\ Apart(<<>>) /\ Carried(<<>>) = {} /\ \A status : Fits(<<>>, status)
  /\ (\A status, S : InSequence(<<>>, status, S)) /\ \A type : In(<<>>, type) = {}
  BY SMT DEF Apart, Carried, Fits, InSequence, In

LEMMA FirstMessage ==
  ASSUME NEW m, NEW status, \A t \in Carries(m) : status[t] \in StatusOf(m.type)
  PROVE  /\ Apart(SendUnlessEmpty(<<>>, m)) /\ Carried(SendUnlessEmpty(<<>>, m)) = Carries(m)
         /\ Fits(SendUnlessEmpty(<<>>, m), status)
<1>1. <<>> \in Seq({m}) /\ m \in {m}
  BY SMT
<1>2. Carries(m) \cap Carried(<<>>) = {}
  BY EmptyChannel
<1>3. /\ Apart(SendUnlessEmpty(<<>>, m))
      /\ Carried(SendUnlessEmpty(<<>>, m)) = CarriedWith(<<>>, m)
  BY <1>1, <1>2, EmptyChannel, SendApart
<1>4. Fits(SendUnlessEmpty(<<>>, m), status)
  BY <1>1, EmptyChannel, SendFits
<1> QED
  BY <1>3, <1>4, EmptyChannel DEF CarriedWith

LEMMA FirstIn ==
  ASSUME NEW m
  PROVE  In(SendUnlessEmpty(<<>>, m), m.type) = m.txs
<1>1. <<>> \in Seq({m}) /\ m \in {m}
  BY SMT
<1>2. In(SendUnlessEmpty(<<>>, m), m.type) =
        InWith(<<>>, m, m.type)
  BY <1>1, SendIn
<1> QED
  BY <1>2, EmptyChannel DEF InWith, Says

(* handle_mempool_txs puts every entry into the place that its status      *)
(* names.  The rows of the entries are as they were.                       *)
LEMMA RestartTracked ==
  ASSUME OneTxPerId, Vetted, Tracked, RestartNode,
         \A t \in Txid : mempool[t] # "None" => l1'[t] = l1[t]
  PROVE  Tracked'
<1> DEFINE With(s) == {t \in Txid : mempool[t] = s}
           I == With("Initialized")
           W == With("WaitingMined") \cup With("Mined")
           A == With("Attaching")
           mi == IsolatedCheck(StoredTxs(I))
           mg == CheckedTxs(StoredTxs(A))
           mc == Txs(W)
<1>1. /\ toController' = <<>> /\ toChecker' = SendUnlessEmpty(<<>>, mi)
      /\ toGraph' = SendUnlessEmpty(<<>>, mg) /\ toConfirm' = SendUnlessEmpty(<<>>, mc)
      /\ waiting' = {} /\ mined' = {} /\ unchecked' = {} /\ checked_txs' = {} /\ invalid_txs' = {}
      /\ batch' = {} /\ stored_txs' = {} /\ attached_txs' = {} /\ UNCHANGED mempool
  BY DEF RestartNode, handle_mempool_txs
<1>2. \A t \in Txid : mempool[t] # "None" =>
        l1[t] # NoRow /\ l1[t].tx \in Tx /\ TxidOf[l1[t].tx] = t
  BY RowOfId DEF Vetted, EntriesVetted
<1>3. Ids(StoredTxs(I)) = I /\ Ids(StoredTxs(A)) = A
  BY SMT, <1>2 DEF Ids, StoredTxs
<1>4. \A t \in A : l1[t] # NoRow /\ ~IsAnnouncement(l1[t].tx)
  BY <1>2 DEF Tracked, GraphHolds
<1>5. \A x \in StoredTxs(A) : ~IsAnnouncement(x)
  BY <1>4 DEF StoredTxs
<1>6. mi.type = "IsolatedCheck" /\ mi.txs = StoredTxs(I) /\ mg.type = "CheckedTxs"
      /\ mg.txs = StoredTxs(A) /\ mc.type = "Txs" /\ mc.txs = W
  BY Messages
<1>7. Carries(mi) = I /\ Carries(mc) = W
  BY <1>3, <1>6, CarriesOf
<1>8. /\ I \cap W = {}
      /\ \A t \in I : mempool[t] = "Initialized"
      /\ \A t \in W : mempool[t] \in {"WaitingMined", "Mined"}
  OBVIOUS
<1>9. /\ \A t \in Txid : mempool[t] = "Attaching" <=> t \in A
      /\ A \subseteq Txid
  OBVIOUS
<1> HIDE DEF I, W, A, mi, mg, mc
<1>10. \A t \in Carries(mi) : mempool[t] \in StatusOf(mi.type)
  BY <1>6, <1>7, <1>8 DEF StatusOf
<1>11. \A t \in Carries(mc) : mempool[t] \in StatusOf(mc.type)
  <2>1. StatusOf(mc.type) = {"WaitingMined", "Mined"}
    BY <1>6 DEF StatusOf
  <2> QED
    BY <1>7, <1>8, <2>1
<1>12. Apart(toChecker') /\ Carried(toChecker') = I /\ Fits(toChecker', mempool)
  BY <1>1, <1>7, <1>10, FirstMessage
<1>13. Apart(toConfirm') /\ Carried(toConfirm') = W /\ Fits(toConfirm', mempool)
  BY <1>1, <1>7, <1>11, FirstMessage
<1>14. In(toGraph', "CheckedTxs") = StoredTxs(A)
  BY <1>1, <1>6, FirstIn
<1>15. InChecker' = {} /\ InGraph' = A
  <2>1. In(toController', "AttachedTxs") = {}
    BY <1>1, EmptyChannel
  <2> QED
    BY <1>1, <1>3, <1>14, <2>1 DEF InChecker, InGraph, Ids
<1>16. OnePlace'
  BY <1>1, <1>8, <1>12, <1>13, <1>15, EmptyChannel DEF OnePlace, Disjoint
<1>17. StatusFits'
  BY <1>1, <1>12, <1>13, <1>15, EmptyChannel DEF StatusFits
<1>18. MinedFirst'
  BY <1>1, EmptyChannel DEF MinedFirst
<1>19. GraphHolds'
  <2>1. \A t \in A : mempool'[t] = "Attaching" /\ l1'[t] = l1[t]
    BY <1>1, <1>9
  <2>2. \A t \in Txid : mempool'[t] = "Attaching" => t \in A
    BY <1>1, <1>9
  <2> QED
    BY <1>1, <1>4, <1>5, <1>14, <1>15, <2>1, <2>2 DEF GraphHolds
<1>20. EntriesHandled'
  BY <1>1 DEF Tracked, EntriesHandled
<1> QED
  BY <1>1, <1>16, <1>17, <1>18, <1>19, <1>20 DEF Tracked, AtRest

LEMMA CrashTracked ==
  ASSUME OneTxPerId, Vetted, Tracked, Crash
  PROVE  Tracked' /\ (Handled => Handled')
<1>1. UNCHANGED <<l1, mempool>> /\ RestartNode
  BY DEF Crash, RestartNode
<1> QED
  BY <1>1, RestartTracked DEF Handled

LEMMA TornTracked ==
  ASSUME OneTxPerId, Vetted, Tracked, CrashBetweenInserts
  PROVE  Tracked'
<1>1. Head(toController).txs \subseteq Tx
  <2>1. Head(toController) \in ControllerMsgs /\ Head(toController).type = "InitializeTxs"
    BY HeadTail DEF CrashBetweenInserts, Next1, Vetted, ChannelsVetted
  <2> QED
    BY <2>1 DEF ControllerMsgs
<1>2. PICK x \in Tx : IsNew(x) /\ l1' = Inserted({x})
  BY <1>1 DEF CrashBetweenInserts
<1>3. mempool[TxidOf[x]] = "None" /\ Ids({x}) = {TxidOf[x]}
  BY <1>2, NewIsNowhere DEF Ids
<1>4. \A t \in Txid : mempool[t] # "None" => l1'[t] = l1[t]
  BY <1>2, <1>3, InsertedRows
<1> QED
  BY <1>4, RestartTracked DEF CrashBetweenInserts

LEMMA TrackedInit ==
  ASSUME Init
  PROVE  Tracked /\ Handled
<1>1. /\ toController = <<>> /\ toChecker = <<>> /\ toConfirm = <<>> /\ toGraph = <<>>
      /\ waiting = {} /\ mined = {} /\ unchecked = {} /\ checked_txs = {} /\ invalid_txs = {}
      /\ batch = {} /\ stored_txs = {} /\ attached_txs = {}
  BY DEF Init, ChannelsInit, CheckerInit, GraphInit
<1>2. InChecker = {} /\ InGraph = {}
  BY <1>1, EmptyChannel DEF InChecker, InGraph, Ids
<1>3. \A t \in Txid : mempool[t] = "None" /\ l1[t] = NoRow
  BY DEF Init, StorageInit
<1>4. OnePlace
  BY <1>1, <1>2, EmptyChannel DEF OnePlace, Disjoint
<1>5. StatusFits
  BY <1>1, <1>2, EmptyChannel DEF StatusFits
<1>6. MinedFirst
  BY <1>1, EmptyChannel DEF MinedFirst
<1>7. GraphHolds
  BY <1>1, <1>2, <1>3, EmptyChannel DEF GraphHolds
<1> QED
  BY <1>1, <1>3, <1>4, <1>5, <1>6, <1>7 DEF Tracked, AtRest, EntriesHandled, Handled

(* Every step but a cleanup keeps track.                                   *)
LEMMA TrackedStep ==
  ASSUME OneTxPerId, GraphInv, Vetted, Tracked, [Next]_vars
  PROVE  /\ GraphCleanup \/ Tracked'
         /\ GraphCleanup \/ CrashBetweenInserts \/ (Handled => Handled')
<1>1. CASE UNCHANGED vars
  <2>1. UNCHANGED <<l1, mempool, toController, toChecker, toConfirm, waiting, mined, checking,
                    unchecked, checked_txs, invalid_txs, toGraph, batch, stored_txs, attached_txs>>
    BY <1>1 DEF vars, channels, storage, checkerVars, graphVars
  <2>2. GraphHolds'
    BY <2>1 DEF Tracked, GraphHolds, InGraph
  <2> QED
    BY <2>1, <2>2, PlacesKeep DEF Tracked
<1>2. CASE CheckerStep
  BY <1>2, IsolatedTracked, FullTracked, OneCheckedTracked, FullDoneTracked DEF CheckerStep
<1>3. CASE (\E x \in Tx : Submit(x)) \/ ConfirmatorTakes
             \/ (\E S \in SUBSET Txid : ConfirmatorMines(S))
             \/ (\E S \in SUBSET Txid : ConfirmatorConfirms(S))
  BY <1>3, SubmitTracked, ConfirmatorTakesTracked, ConfirmatorMinesTracked,
     ConfirmatorConfirmsTracked
<1>4. CASE ControllerStep \/ send_get_data \/ GraphStep
  BY <1>4, ControllerStepTracked, GetDataTracked, GraphStepTracked
<1>5. CASE Crash \/ CrashBetweenInserts
  BY <1>5, CrashTracked, TornTracked
<1> QED
  BY <1>1, <1>2, <1>3, <1>4, <1>5 DEF Next

TrackedInv ==
  /\ "cleanup" \notin happened => Tracked
  /\ happened \subseteq {"crash"} => Handled

(* Faults are remembered.                                                  *)
LEMMA FaultsRemembered ==
  ASSUME [Next]_vars
  PROVE  /\ happened \subseteq happened'
         /\ GraphCleanup => "cleanup" \in happened'
         /\ CrashBetweenInserts => "torn" \in happened'
  BY DEF Next, vars, Submit, ConfirmatorTakes, ConfirmatorMines, ConfirmatorConfirms, ControllerStep,
         send_get_data, CheckerStep, GraphStep, GraphCleanup, Crash, CrashBetweenInserts, Fault

LEMMA TrackedInvariant ==
  ASSUME OneTxPerId
  PROVE  Spec => []TrackedInv
<1>1. Init => TrackedInv
  BY TrackedInit DEF TrackedInv
<1>2. ASSUME GraphInv, Vetted, TrackedInv, [Next]_vars
      PROVE  TrackedInv'
  <2>1. ASSUME "cleanup" \notin happened'
        PROVE  Tracked'
    BY <1>2, <2>1, FaultsRemembered, TrackedStep DEF TrackedInv
  <2>2. ASSUME happened' \subseteq {"crash"}
        PROVE  Handled'
    <3>1. /\ happened \subseteq {"crash"} /\ "cleanup" \notin happened
          /\ ~GraphCleanup /\ ~CrashBetweenInserts
      BY <1>2, <2>2, FaultsRemembered
    <3> QED
      BY <1>2, <3>1, TrackedStep DEF TrackedInv
  <2> QED
    BY <2>1, <2>2 DEF TrackedInv
<1> QED
  BY <1>1, <1>2, VettedInvariant, GraphInvariant, PTL DEF Spec

(* No Attaching entry is lost until a cleanup, and no transaction is being *)
(* handled without an entry that handle_mempool_txs finds, for any number  *)
(* of transactions and whatever the order of crashes and rejections, as    *)
(* long as an id names one transaction.                                    *)
THEOREM AttachingAlwaysInHand ==
  ASSUME OneTxPerId
  PROVE  Spec => []AttachingInHand
<1>1. TrackedInv => AttachingInHand
  BY DEF TrackedInv, Tracked, GraphHolds, InGraph, Handled, AttachingInHand, EntryInHand
<1> QED
  BY <1>1, TrackedInvariant, PTL

-----------------------------------------------------------------------------
(* The stages of a transaction.                                            *)

(* The issuance that check_issuance stores is the one that is stored.      *)
LEMMA OneCheckedMoves ==
  ASSUME OneTxPerId, Vetted, Tracked, NEW x \in Tx, check_lrc20_transaction(x)
  PROVE  \A t \in Txid : l1'[t] = l1[t] /\ mempool'[t] = mempool[t]
<1> DEFINE u == TxidOf[x]
<1>1. x \in unchecked /\ UNCHANGED mempool /\ (UNCHANGED l1 \/ l1' = Inserted({x}))
  BY OneChecked
<1>2. u \in Txid /\ mempool[u] = "Mined"
  BY <1>1, TxAssumption DEF InChecker, Ids, Tracked, StatusFits
<1>3. l1[u] # NoRow /\ l1[u].status = "Handling"
  BY <1>2 DEF Vetted, EntriesVetted, Tracked, EntriesHandled
<1>4. l1[u] \in L1Row /\ l1[u].tx = x
  BY <1>2, <1>3, RowOfId DEF OneTxPerId
<1>5. l1[u] = [tx |-> x, status |-> "Handling"]
  BY <1>3, <1>4 DEF L1Row
<1>6. CASE l1' = Inserted({x})
  <2>1. /\ l1'[u] = [tx |-> x, status |-> "Handling"]
        /\ \A t \in Txid : t \notin Ids({x}) => l1'[t] = l1[t]
    BY <1>6, InsertedRows
  <2>2. Ids({x}) = {u}
    BY DEF Ids
  <2> QED
    BY <1>1, <1>5, <2>1, <2>2
<1> QED
  BY <1>1, <1>6

LEMMA StepMoves ==
  ASSUME OneTxPerId, Vetted, Tracked, [Next]_vars
  PROVE  GraphCleanup \/ CrashBetweenInserts \/ \A t \in Txid : Moved(t)
<1>1. CASE UNCHANGED storage
  BY <1>1 DEF storage, Moved
<1>2. CASE CheckerStep
  <2>1. ASSUME NEW x \in Tx, check_lrc20_transaction(x)
        PROVE  \A t \in Txid : Moved(t)
    BY <2>1, OneCheckedMoves DEF Moved
  <2>2. CASE check_txs_isolated \/ check_txs_full \/ FullCheckDone
    BY <1>1, <2>2 DEF check_txs_isolated, check_txs_full, FullCheckDone
  <2> QED
    BY <1>2, <2>1, <2>2 DEF CheckerStep
<1>3. CASE ControllerStep
  BY <1>3, ControllerStepTracked
<1>4. CASE Crash
  BY <1>1, <1>4 DEF Crash, RestartNode, storage
<1>5. CASE \/ \E x \in Tx : Submit(x)
           \/ ConfirmatorTakes
           \/ \E S \in SUBSET Txid : ConfirmatorMines(S) \/ ConfirmatorConfirms(S)
           \/ send_get_data \/ GraphStep \/ UNCHANGED vars
  BY <1>1, <1>5 DEF Submit, ConfirmatorTakes, ConfirmatorMines, ConfirmatorConfirms,
     send_get_data, GraphStep, vars
<1> QED
  BY <1>2, <1>3, <1>4, <1>5 DEF Next

(* The stage that a row and an entry stand for.                            *)
StageAs(row, entry) ==
  CASE row = NoRow                                     -> "absent"
    [] row # NoRow /\ row.status = "Attached"     -> "attached"
    [] row # NoRow /\ row.status = "InvalidIssue" -> "rejected"
    [] OTHER -> entry

LEMMA StageOf ==
  ASSUME NEW row \in L1Row \cup {NoRow}, NEW entry
  PROVE  /\ row = NoRow => StageAs(row, entry) = "absent"
         /\ row # NoRow /\ row.status = "Attached" => StageAs(row, entry) = "attached"
         /\ row # NoRow /\ row.status = "InvalidIssue" => StageAs(row, entry) = "rejected"
         /\ row # NoRow /\ row.status = "Handling" => StageAs(row, entry) = entry
         /\ row = NoRow \/ row.status = "Handling" \/ row.status = "Attached"
              \/ row.status = "InvalidIssue"
<1>1. row # NoRow => row.status \in {"Handling", "Attached", "InvalidIssue"}
  BY DEF L1Row, L1TxStatus
<1>2. row = NoRow => StageAs(row, entry) = "absent"
  BY DEF StageAs
<1>3. row # NoRow /\ row.status = "Attached" => StageAs(row, entry) = "attached"
  BY DEF StageAs
<1>4. row # NoRow /\ row.status = "InvalidIssue" => StageAs(row, entry) = "rejected"
  BY DEF StageAs
<1>5. row # NoRow /\ row.status = "Handling" => StageAs(row, entry) = entry
  BY DEF StageAs
<1> QED
  BY <1>1, <1>2, <1>3, <1>4, <1>5

(* A step takes every transaction along an arrow of the lifecycle, or      *)
(* leaves it where it is.                                                  *)
LEMMA MoveOfStage ==
  ASSUME Vetted, Vetted', Tracked, Handled, NEW t \in Txid, Moved(t)
  PROVE  \/ Stage(t)' = Stage(t)
         \/ <<Stage(t), Stage(t)'>> \in Lifecycle!Moves
<1> DEFINE s == Stage(t)
           n == Stage(t)'
<1>1. /\ l1[t] \in L1Row \cup {NoRow} /\ l1'[t] \in L1Row \cup {NoRow}
      /\ s = StageAs(l1[t], mempool[t]) /\ n = StageAs(l1'[t], mempool'[t])
  BY DEF Vetted, RowsVetted, Stage, StageAs
<1>2. mempool[t] # "None" => s = mempool[t]
  BY <1>1, StageOf DEF Vetted, EntriesVetted, Tracked, EntriesHandled
<1> HIDE DEF s, n
<1>3. CASE l1'[t] = l1[t] /\ mempool'[t] = mempool[t]
  BY <1>1, <1>3 DEF s, n
<1>4. CASE /\ l1[t] = NoRow \/ l1[t].status = "InvalidIssue"
           /\ mempool'[t] = "Initialized" /\ l1'[t] # NoRow /\ l1'[t].status = "Handling"
  <2>1. n = "Initialized" /\ (s = "absent" \/ s = "rejected")
    BY <1>1, <1>4, StageOf
  <2> QED
    BY <2>1 DEF s, n, Lifecycle!Moves
<1>5. CASE /\ l1'[t] = l1[t]
           /\ \/ mempool[t] = "Initialized" /\ mempool'[t] = "WaitingMined"
              \/ mempool[t] = "WaitingMined" /\ mempool'[t] = "Mined"
              \/ mempool[t] = "Mined" /\ mempool'[t] = "Attaching"
  <2>1. s = mempool[t] /\ l1[t] # NoRow /\ l1[t].status = "Handling"
    BY <1>2, <1>5 DEF Vetted, EntriesVetted, Tracked, EntriesHandled
  <2>2. n = mempool'[t]
    BY <1>1, <1>5, <2>1, StageOf
  <2> QED
    BY <1>5, <2>1, <2>2 DEF s, n, Lifecycle!Moves
<1>6. CASE mempool[t] = "Mined" /\ l1'[t] # NoRow /\ l1'[t].status = "Attached"
  <2>1. s = "Mined" /\ n = "attached"
    BY <1>1, <1>2, <1>6, StageOf
  <2> QED
    BY <2>1 DEF s, n, Lifecycle!Moves
<1>7. CASE t \in In(toController, "AttachedTxs") /\ l1'[t] # NoRow /\ l1'[t].status = "Attached"
  <2>1. n = "attached"
    BY <1>1, <1>7, StageOf
  <2>2. l1[t] # NoRow /\ (mempool[t] = "Attaching" \/ l1[t].status = "Attached")
    BY <1>7 DEF Tracked, GraphHolds, InGraph
  <2>3. s = "Attaching" \/ s = "attached"
    BY <1>1, <1>2, <2>2, StageOf
  <2> QED
    BY <2>1, <2>3 DEF s, n, Lifecycle!Moves
<1>8. CASE /\ mempool[t] = "Initialized" \/ mempool[t] = "Mined"
           /\ l1'[t] = NoRow \/ l1'[t].status = "InvalidIssue"
  <2>1. (s = "Initialized" \/ s = "Mined") /\ (n = "absent" \/ n = "rejected")
    BY <1>1, <1>2, <1>8, StageOf
  <2> QED
    BY <2>1 DEF s, n, Lifecycle!Moves
<1> QED
  BY <1>3, <1>4, <1>5, <1>6, <1>7, <1>8 DEF Moved

LEMMA InStages ==
  ASSUME Vetted, Handled, NEW t \in Txid
  PROVE  Stage(t) \in Lifecycle!Stages
<1>1. l1[t] \in L1Row \cup {NoRow} /\ Stage(t) = StageAs(l1[t], mempool[t])
  BY DEF Vetted, RowsVetted, Stage, StageAs
<1>2. l1[t] # NoRow /\ l1[t].status = "Handling" =>
        mempool[t] \in {"Initialized", "WaitingMined", "Mined", "Attaching"}
  BY DEF Handled, Vetted, EntriesVetted, MempoolStatus
<1> QED
  BY <1>1, <1>2, StageOf DEF Lifecycle!Stages

(* Only the faults that may happen do.                                     *)
LEMMA FaultsAllowed == Spec => [](happened \subseteq FaultKinds)
<1>1. Init => happened \subseteq FaultKinds
  BY DEF Init
<1>2. happened \subseteq FaultKinds /\ [Next]_vars => (happened \subseteq FaultKinds)'
  BY DEF Next, vars, Submit, ConfirmatorTakes, ConfirmatorMines, ConfirmatorConfirms, ControllerStep,
         send_get_data, CheckerStep, GraphStep, GraphCleanup, Crash, CrashBetweenInserts, Fault
<1> QED
  BY <1>1, <1>2, PTL DEF Spec

(* The pipeline implements the lifecycle, for every set of transactions    *)
(* and any number of crashes between two events: no stage is skipped or    *)
(* undone.  (A cleanup, or a crash between the two inserts of              *)
(* handle_new_lrc20_txs, takes a transaction off it.)                      *)
THEOREM LifecycleFollowed ==
  ASSUME OneTxPerId, FaultKinds \subseteq {"crash"}
  PROVE  Spec => FollowsLifecycle
<1> DEFINE OnlyCrashes == happened \subseteq FaultKinds
<1>1. Init => Lifecycle!Init
  BY DEF Init, StorageInit, Lifecycle!Init, Stage
<1>2. ASSUME Vetted, TrackedInv, Vetted', TrackedInv', OnlyCrashes, OnlyCrashes', [Next]_vars
      PROVE  [Lifecycle!Next]_([t \in Txid |-> Stage(t)])
  <2>1. Tracked /\ Handled /\ Handled' /\ ~GraphCleanup /\ ~CrashBetweenInserts
    BY <1>2, FaultsRemembered DEF TrackedInv
  <2>2. \A t \in Txid : Stage(t)' = Stage(t) \/ <<Stage(t), Stage(t)'>> \in Lifecycle!Moves
    BY <1>2, <2>1, StepMoves, MoveOfStage
  <2>3. \A t \in Txid : Stage(t) \in Lifecycle!Stages
    BY <1>2, <2>1, InStages
  <2>4. \A t \in Txid : Stage(t)' \in Lifecycle!Stages
    BY <2>2, <2>3 DEF Lifecycle!Moves, Lifecycle!Stages
  <2> QED
    BY <2>2, <2>4 DEF Lifecycle!Next
<1> QED
  BY <1>1, <1>2, VettedInvariant, TrackedInvariant, FaultsAllowed, PTL
     DEF Spec, FollowsLifecycle, Lifecycle!Spec

-----------------------------------------------------------------------------
(* Nobody is left behind.                                                  *)

(* The ids that somebody may wait for.                                     *)
Awaited == UNION {Parents[y] \ EmptyParents[y] : y \in Tx}

(* Nobody spends an output of a Spark exit with a proof: handle_spark_exit *)
(* wakes nobody.                                                           *)
ExitsNotAwaited == \A x \in Tx : Kind[x] = "SparkExit" => TxidOf[x] \notin Awaited

(* Who waits for a transaction that is attached is about to be looked at,  *)
(* in the call that attached it.                                           *)
Woken ==
  \A t, p \in Txid : p \in deps[t] /\ Attached(p) => p \in attached_txs /\ t \in Queued

WaitsForParents == \A t \in Txid : deps[t] \subseteq Awaited

LEMMA SendAny ==
  ASSUME NEW ch \in Seq(ControllerMsgs), NEW m \in ControllerMsgs, NEW type,
         NEW new, new = Send(ch, m) \/ new = SendUnlessEmpty(ch, m)
  PROVE  /\ new \in Seq(ControllerMsgs)
         /\ In(new, type) = InWith(ch, m, type)
<1>1. new \in Seq(ControllerMsgs)
  BY Sending
<1>2. In(new, type) = InWith(ch, m, type)
  BY SendIn
<1> QED
  BY <1>1, <1>2

(* A message of another type says nothing to In.                           *)
LEMMA SendOther ==
  ASSUME NEW ch \in Seq(ControllerMsgs), NEW m \in ControllerMsgs, NEW type, m.type # type,
         NEW new, new = Send(ch, m) \/ new = SendUnlessEmpty(ch, m)
  PROVE  new \in Seq(ControllerMsgs) /\ In(new, type) = In(ch, type)
<1>1. new \in Seq(ControllerMsgs)
  BY Sending
<1>2. In(new, type) = InWith(ch, m, type)
  BY SendIn
<1> QED
  BY <1>1, <1>2 DEF InWith, Says

(* What the services tell the controller, by the type of the message.      *)
LEMMA SubmitSays ==
  ASSUME Vetted, NEW x \in Tx, Submit(x), NEW type, type # "InitializeTxs"
  PROVE  In(toController', type) = In(toController, type)
<1> DEFINE m == InitializeTxs({x})
<1>1. m \in ControllerMsgs /\ m.type # type
  BY DEF InitializeTxs, ControllerMsgs
<1> HIDE DEF m
<1>2. toController' = Send(toController, m)
  BY DEF Submit, m
<1>3. toController \in Seq(ControllerMsgs)
  BY DEF Vetted, ChannelsVetted
<1> QED
  BY <1>1, <1>2, <1>3, SendOther

LEMMA ConfirmsSays ==
  ASSUME Vetted, NEW S \in SUBSET Txid, ConfirmatorMines(S) \/ ConfirmatorConfirms(S),
         NEW type, type # "MinedTxs", type # "ConfirmedTxs"
  PROVE  In(toController', type) = In(toController, type)
<1> DEFINE m == MinedTxs(S)
           c == ConfirmedTxs(S)
<1>1. S \subseteq Ids(Sound) /\ toController \in Seq(ControllerMsgs)
  BY DEF ConfirmatorMines, ConfirmatorConfirms, Vetted, ServicesVetted, ChannelsVetted
<1>2. m \in ControllerMsgs /\ m.type # type /\ c \in ControllerMsgs /\ c.type # type
  BY ZenonT(40), <1>1 DEF MinedTxs, ConfirmedTxs, ControllerMsgs
<1>3. toController' = Send(toController, m) \/ toController' = Send(toController, c)
  BY DEF ConfirmatorMines, ConfirmatorConfirms
<1> HIDE DEF m, c
<1>4. CASE toController' = Send(toController, m)
  BY <1>1, <1>2, <1>4, SendOther
<1>5. CASE toController' = Send(toController, c)
  BY <1>1, <1>2, <1>5, SendOther
<1> QED
  BY <1>3, <1>4, <1>5

LEMMA IsolatedSays ==
  ASSUME Vetted, check_txs_isolated, NEW type, type # "PartiallyCheckedTxs"
  PROVE  /\ Head(toChecker).txs \subseteq Tx
         /\ type # "InvalidTxs" => In(toController', type) = In(toController, type)
         /\ In(toController', "InvalidTxs")
              = In(toController, "InvalidTxs") \cup Ids(Head(toChecker).txs \ Sound)
<1> DEFINE good == Ids(Head(toChecker).txs \cap Sound)
           bad == Ids(Head(toChecker).txs \ Sound)
           m == PartiallyCheckedTxs(good)
           c == InvalidTxs(bad)
           ch == SendUnlessEmpty(toController, m)
<1>1. Head(toChecker).txs \subseteq Tx
  <2>1. toChecker # <<>> /\ toChecker \in Seq(CheckerMsgs)
        /\ Head(toChecker).type = "IsolatedCheck"
    BY DEF check_txs_isolated, CheckerTakes, Next1, Vetted, ChannelsVetted
  <2>2. Head(toChecker) \in CheckerMsgs
    BY <2>1, HeadTail
  <2> QED
    BY <2>1, <2>2, CheckerAssumption DEF CheckerMsgs
<1>2. good \subseteq Ids(Sound) /\ bad \subseteq Txid
  BY <1>1, TxAssumption DEF Ids
<1>3. toController' = SendUnlessEmpty(ch, c)
  BY DEF check_txs_isolated
<1> HIDE DEF good, bad
<1>4. /\ m \in ControllerMsgs /\ m.type = "PartiallyCheckedTxs" /\ c \in ControllerMsgs
      /\ c.type = "InvalidTxs" /\ c.txs = bad
  BY <1>2 DEF PartiallyCheckedTxs, InvalidTxs, ControllerMsgs
<1> HIDE DEF m, c
<1>5. /\ ch \in Seq(ControllerMsgs) /\ In(ch, type) = In(toController, type)
      /\ In(ch, "InvalidTxs") = In(toController, "InvalidTxs")
  <2>1. toController \in Seq(ControllerMsgs) /\ m.type # type /\ m.type # "InvalidTxs"
    BY <1>4 DEF Vetted, ChannelsVetted
  <2>2. ch = SendUnlessEmpty(toController, m) /\ m \in ControllerMsgs
    BY <1>4
  <2> HIDE DEF ch
  <2>3. ch \in Seq(ControllerMsgs) /\ In(ch, type) = In(toController, type)
    BY <2>1, <2>2, SendOther
  <2>4. In(ch, "InvalidTxs") = In(toController, "InvalidTxs")
    BY <2>1, <2>2, SendOther
  <2> QED
    BY <2>3, <2>4
<1> HIDE DEF ch
<1>6. type # "InvalidTxs" => In(toController', type) = In(toController, type)
  BY <1>3, <1>4, <1>5, SendOther
<1>7. In(toController', "InvalidTxs") = InWith(ch, c, "InvalidTxs")
  BY <1>3, <1>4, <1>5, SendIn
<1> QED
  BY <1>1, <1>4, <1>5, <1>6, <1>7 DEF bad, InWith, Says

LEMMA FullDoneSays ==
  ASSUME Vetted, FullCheckDone
  PROVE  /\ In(toController', "FullyCheckedTxs")
              = In(toController, "FullyCheckedTxs") \cup checked_txs
         /\ In(toController', "InvalidTxs")
              = In(toController, "InvalidTxs") \cup Ids(invalid_txs)
         /\ In(toController', "GetData") = In(toController, "GetData") \cup not_found_parents
         /\ In(toController', "AttachedTxs") = In(toController, "AttachedTxs")
<1> DEFINE f == FullyCheckedTxs(checked_txs)
           i == InvalidTxs(Ids(invalid_txs))
           g == GetData(not_found_parents)
           c1 == SendUnlessEmpty(toController, f)
           c2 == SendUnlessEmpty(c1, i)
<1>1. f \in ControllerMsgs /\ i \in ControllerMsgs /\ g \in ControllerMsgs
  BY IdSets DEF Vetted, ServicesVetted, FullyCheckedTxs, InvalidTxs, GetData, ControllerMsgs
<1>2. /\ f.type = "FullyCheckedTxs" /\ f.txs = checked_txs
      /\ i.type = "InvalidTxs" /\ i.txs = Ids(invalid_txs)
      /\ g.type = "GetData" /\ g.txs = not_found_parents
  BY ZenonT(40), Messages
<1>3. toController' = SendUnlessEmpty(c2, g)
  BY DEF FullCheckDone
<1> HIDE DEF f, i, g
<1>4. ASSUME NEW type
      PROVE  /\ In(c1, type) = InWith(toController, f, type)
             /\ In(c2, type) = InWith(c1, i, type)
             /\ In(toController', type) = InWith(c2, g, type)
  <2>1. toController \in Seq(ControllerMsgs)
    BY DEF Vetted, ChannelsVetted
  <2>2. c1 \in Seq(ControllerMsgs) /\ In(c1, type) = InWith(toController, f, type)
    BY <1>1, <2>1, SendAny
  <2> HIDE DEF c1
  <2>3. c2 \in Seq(ControllerMsgs) /\ In(c2, type) = InWith(c1, i, type)
    BY <1>1, <2>2, SendAny
  <2> HIDE DEF c2
  <2>4. In(toController', type) = InWith(c2, g, type)
    BY <1>1, <1>3, <2>3, SendAny
  <2> QED
    BY <2>2, <2>3, <2>4
<1> HIDE DEF c1, c2
<1>5. In(toController', "FullyCheckedTxs") = In(toController, "FullyCheckedTxs") \cup checked_txs
  <2>1. /\ In(c1, "FullyCheckedTxs") = InWith(toController, f, "FullyCheckedTxs")
        /\ In(c2, "FullyCheckedTxs") = InWith(c1, i, "FullyCheckedTxs")
        /\ In(toController', "FullyCheckedTxs") = InWith(c2, g, "FullyCheckedTxs")
    BY <1>4
  <2>2. In(c1, "FullyCheckedTxs") = In(toController, "FullyCheckedTxs") \cup checked_txs
    BY <1>2, <2>1 DEF InWith, Says
  <2>3. In(c2, "FullyCheckedTxs") = In(c1, "FullyCheckedTxs")
    BY <1>2, <2>1 DEF InWith, Says
  <2>4. In(toController', "FullyCheckedTxs") = In(c2, "FullyCheckedTxs")
    BY <1>2, <2>1 DEF InWith, Says
  <2> QED
    BY <2>2, <2>3, <2>4
<1>6. In(toController', "InvalidTxs") = In(toController, "InvalidTxs") \cup Ids(invalid_txs)
  <2>1. /\ In(c1, "InvalidTxs") = InWith(toController, f, "InvalidTxs")
        /\ In(c2, "InvalidTxs") = InWith(c1, i, "InvalidTxs")
        /\ In(toController', "InvalidTxs") = InWith(c2, g, "InvalidTxs")
    BY <1>4
  <2>2. In(c1, "InvalidTxs") = In(toController, "InvalidTxs")
    BY <1>2, <2>1 DEF InWith, Says
  <2>3. In(c2, "InvalidTxs") = In(c1, "InvalidTxs") \cup Ids(invalid_txs)
    BY <1>2, <2>1 DEF InWith, Says
  <2>4. In(toController', "InvalidTxs") = In(c2, "InvalidTxs")
    BY <1>2, <2>1 DEF InWith, Says
  <2> QED
    BY <2>2, <2>3, <2>4
<1>7. In(toController', "GetData") = In(toController, "GetData") \cup not_found_parents
  <2>1. /\ In(c1, "GetData") = InWith(toController, f, "GetData")
        /\ In(c2, "GetData") = InWith(c1, i, "GetData")
        /\ In(toController', "GetData") = InWith(c2, g, "GetData")
    BY <1>4
  <2>2. In(c1, "GetData") = In(toController, "GetData")
    BY <1>2, <2>1 DEF InWith, Says
  <2>3. In(c2, "GetData") = In(c1, "GetData")
    BY <1>2, <2>1 DEF InWith, Says
  <2>4. In(toController', "GetData") = In(c2, "GetData") \cup not_found_parents
    BY <1>2, <2>1 DEF InWith, Says
  <2> QED
    BY <2>2, <2>3, <2>4
<1>8. In(toController', "AttachedTxs") = In(toController, "AttachedTxs")
  <2>1. /\ In(c1, "AttachedTxs") = InWith(toController, f, "AttachedTxs")
        /\ In(c2, "AttachedTxs") = InWith(c1, i, "AttachedTxs")
        /\ In(toController', "AttachedTxs") = InWith(c2, g, "AttachedTxs")
    BY <1>4
  <2>2. In(c1, "AttachedTxs") = In(toController, "AttachedTxs")
    BY <1>2, <2>1 DEF InWith, Says
  <2>3. In(c2, "AttachedTxs") = In(c1, "AttachedTxs")
    BY <1>2, <2>1 DEF InWith, Says
  <2>4. In(toController', "AttachedTxs") = In(c2, "AttachedTxs")
    BY <1>2, <2>1 DEF InWith, Says
  <2> QED
    BY <2>2, <2>3, <2>4
<1> QED
  BY <1>5, <1>6, <1>7, <1>8

LEMMA GraphSays ==
  ASSUME Vetted, GraphStep, NEW type, type # "AttachedTxs"
  PROVE  In(toController', type) = In(toController, type)
<1>1. CASE toController' = SendUnlessEmpty(toController, AttachedTxs(attached_txs))
  <2> DEFINE m == AttachedTxs(attached_txs)
  <2>1. m \in ControllerMsgs /\ m.type # type
    BY DEF Vetted, ServicesVetted, AttachedTxs, ControllerMsgs
  <2> HIDE DEF m
  <2>2. toController' = SendUnlessEmpty(toController, m)
    BY <1>1 DEF m
  <2> QED
    BY <2>1, <2>2, SendOther DEF Vetted, ChannelsVetted
<1> QED
  BY <1>1 DEF GraphStep

LEMMA ControllerHears ==
  ASSUME Vetted, ControllerStep \/ send_get_data, NEW type
  PROVE  In(toController, type) = InWith(toController', Head(toController), type)
<1>1. toController # <<>> /\ toController' = Tail(toController)
  BY DEF ControllerStep, ControllerEvent, send_get_data, Next1
<1> QED
  BY <1>1, TakeIn DEF Vetted, ChannelsVetted

(* Only the graph builder announces what is attached.                      *)
LEMMA AttachedReports ==
  ASSUME Vetted, [Next]_vars, ~GraphStep, ~Crash, ~CrashBetweenInserts
  PROVE  In(toController', "AttachedTxs") \subseteq In(toController, "AttachedTxs")
<1>1. CASE UNCHANGED toController
  BY <1>1
<1>2. ASSUME NEW x \in Tx, Submit(x)
      PROVE  In(toController', "AttachedTxs") = In(toController, "AttachedTxs")
  BY <1>2, SubmitSays
<1>3. ASSUME NEW S \in SUBSET Txid,
             ConfirmatorMines(S) \/ ConfirmatorConfirms(S)
      PROVE  In(toController', "AttachedTxs") = In(toController, "AttachedTxs")
  BY <1>3, ConfirmsSays
<1>4. CASE check_txs_isolated
  BY <1>4, IsolatedSays
<1>5. CASE FullCheckDone
  BY <1>5, FullDoneSays
<1>6. CASE ControllerStep \/ send_get_data
  <2>1. In(toController, "AttachedTxs")
          = InWith(toController', Head(toController), "AttachedTxs")
    BY <1>6, ControllerHears
  <2> QED
    BY <2>1 DEF InWith
<1>7. CASE CheckerStep
  <2>1. CASE check_txs_full \/ \E x \in Tx : check_lrc20_transaction(x)
    BY <1>1, <2>1 DEF check_txs_full, check_lrc20_transaction
  <2> QED
    BY <1>4, <1>5, <1>7, <2>1 DEF CheckerStep
<1>8. CASE ConfirmatorTakes \/ GraphCleanup \/ UNCHANGED vars
  BY <1>1, <1>8 DEF ConfirmatorTakes, GraphCleanup, vars, channels
<1> QED
  BY <1>2, <1>3, <1>6, <1>7, <1>8 DEF Next

(* And only the graph builder attaches.                                    *)
LEMMA AttachedBefore ==
  ASSUME OneTxPerId, Vetted, Tracked, [Next]_vars, ~GraphStep, ~GraphCleanup,
         ~Crash, ~CrashBetweenInserts, UNCHANGED attached_txs, NEW p \in Txid, Attached(p)'
  PROVE  Attached(p)
<1>1. In(toController', "AttachedTxs") \subseteq In(toController, "AttachedTxs")
  BY AttachedReports
<1>2. /\ l1'[p] # NoRow /\ ~IsAnnouncement(l1'[p].tx)
      /\ \/ p \in attached_txs \/ p \in In(toController, "AttachedTxs")
         \/ l1'[p].status = "Attached"
  BY <1>1 DEF Attached
<1>3. l1'[p] = l1[p] => Attached(p)
  BY <1>2 DEF Attached
<1>4. p \in InGraph \/ l1'[p].status = "Attached"
  BY <1>2 DEF InGraph
<1>5. p \in In(toController, "AttachedTxs") /\ l1[p] # NoRow /\ l1'[p].tx = l1[p].tx => Attached(p)
  BY <1>2 DEF Attached
<1>6. Moved(p)
  BY StepMoves
<1> QED
  BY <1>2, <1>3, <1>4, <1>5, <1>6 DEF Moved

LEMMA AttachWoken ==
  ASSUME GraphInv, Woken, NEW t \in Txid, Attach(t), UNCHANGED <<deps, local_queue, l1, toController>>
  PROVE  Woken'
<1> SUFFICES ASSUME NEW u \in Txid, NEW p \in Txid, p \in deps[u], Attached(p)'
             PROVE  p \in attached_txs' /\ u \in Queued'
  BY DEF Woken
<1>1. /\ attached_txs' = attached_txs \cup {t} /\ Queued' = Queued \cup inverse_deps[t]
  BY DEF Attach, Queued
<1>2. CASE p = t
  BY <1>1, <1>2 DEF GraphInv, ParentKnows
<1>3. CASE p # t
  <2>1. Attached(p)
    BY <1>1, <1>3 DEF Attached
  <2> QED
    BY <1>1, <2>1 DEF Woken
<1> QED
  BY <1>2, <1>3

LEMMA BatchWoken ==
  ASSUME ExitsNotAwaited, GraphInv, Woken, WaitsForParents, NEW x \in Tx,
         BatchStep(x, TxidOf[x], Kind[x], Parents[x] \ EmptyParents[x], Present),
         UNCHANGED <<l1, toController>>
  PROVE  Woken' /\ WaitsForParents'
<1> DEFINE t == TxidOf[x]
           parents == Parents[x] \ EmptyParents[x]
           missing == Missing(parents, Present)
<1>1. t \in Txid /\ parents \subseteq Awaited /\ parents \subseteq Txid
  BY TxAssumption, CheckerAssumption DEF Awaited
<1>2. missing \subseteq parents /\ \A p \in missing : l1[p] = NoRow
  BY <1>1 DEF Missing, Present
<1>3. CASE Attach(t) /\ UNCHANGED <<deps, stored_txs, local_queue>>
  BY <1>1, <1>3, AttachWoken DEF WaitsForParents
<1>4. CASE attach_issue(t)
  BY <1>3, <1>4 DEF attach_issue
<1>5. CASE handle_transfer(t, parents, Present)
  <2> HIDE DEF missing
  <2>1. CASE /\ deps' = [deps EXCEPT ![t] = deps[t] \cup missing]
             /\ UNCHANGED <<queued_txs, local_queue, attached_txs>>
    <3>1. \A u, p \in Txid : p \in deps'[u] => p \in deps[u] \/ p \in missing
      BY <1>1, <2>1 DEF GraphInv, GraphTyped
    <3>2. Queued' = Queued /\ \A p \in Txid : Attached(p)' => Attached(p) /\ p \notin missing
      BY <1>2, <2>1 DEF Queued, Attached
    <3>3. Woken'
      BY <2>1, <3>1, <3>2 DEF Woken
    <3>4. \A u \in Txid : deps'[u] \subseteq deps[u] \cup missing
      BY <1>1, <2>1 DEF GraphInv, GraphTyped
    <3> QED
      BY <1>1, <1>2, <3>3, <3>4 DEF WaitsForParents
  <2> QED
    BY <1>3, <1>5, <2>1 DEF handle_transfer, missing
<1>6. CASE Kind[x] = "SparkExit" /\ handle_spark_exit(t)
  <2>1. t \notin Awaited /\ Queued' = Queued /\ UNCHANGED deps
    BY <1>6 DEF ExitsNotAwaited, handle_spark_exit, Queued
  <2>2. \A p \in Txid : Attached(p)' => p = t \/ Attached(p)
    BY <1>6 DEF Attached, handle_spark_exit
  <2>3. attached_txs \subseteq attached_txs'
    BY <1>6 DEF handle_spark_exit
  <2> QED
    BY <2>1, <2>2, <2>3 DEF Woken, WaitsForParents
<1>7. CASE skip_announcement
  <2>1. Queued' = Queued /\ UNCHANGED <<deps, attached_txs>>
    BY <1>7 DEF skip_announcement, Queued
  <2>2. \A p \in Txid : Attached(p)' => Attached(p)
    BY <2>1 DEF Attached
  <2> QED
    BY <2>1, <2>2 DEF Woken, WaitsForParents
<1> QED
  BY <1>4, <1>5, <1>6, <1>7 DEF BatchStep

LEMMA QueueWoken ==
  ASSUME GraphInv, Woken, WaitsForParents, NEW t \in Txid, QueueStep(t, Present),
         UNCHANGED <<l1, toController>>
  PROVE  Woken' /\ WaitsForParents'
<1> DEFINE left  == Missing(deps[t], Present)
           woken == left = {} /\ t \in stored_txs
<1>1. /\ left \subseteq deps[t] /\ deps' = [deps EXCEPT ![t] = left]
      /\ attached_txs' = IF woken THEN attached_txs \cup {t} ELSE attached_txs
  BY DEF QueueStep, Missing
<1>2. /\ Queued \ {t} \subseteq Queued'
      /\ woken => inverse_deps[t] \subseteq Queued'
  BY DEF GraphInv, QueuesInOrder, QueueStep, Queued
<1>3. \A p \in left : p \in Txid => l1[p] = NoRow
  BY DEF Missing, Present
<1> HIDE DEF left
<1>4. \A u \in Txid : deps'[u] \subseteq deps[u] /\ (u = t => deps'[u] = left)
  BY <1>1 DEF GraphInv, GraphTyped
<1>5. ASSUME NEW u \in Txid, NEW p \in Txid, p \in deps'[u], Attached(p)'
      PROVE  p \in attached_txs' /\ u \in Queued'
  <2>1. u # t /\ p \in deps[u]
    BY <1>3, <1>4, <1>5 DEF Attached
  <2>2. CASE Attached(p)
    BY <1>1, <1>2, <2>1, <2>2 DEF Woken
  <2>3. CASE ~Attached(p)
    <3>1. woken /\ p = t /\ p \notin attached_txs
      BY <1>1, <1>5, <2>3 DEF Attached
    <3> QED
      BY <1>1, <1>2, <2>1, <3>1 DEF GraphInv, ParentKnows
  <2> QED
    BY <2>2, <2>3
<1> QED
  BY <1>4, <1>5 DEF Woken, WaitsForParents

LEMMA WokenStep ==
  ASSUME OneTxPerId, ExitsNotAwaited, GraphInv, Vetted, Tracked, Woken, WaitsForParents,
         [Next]_vars
  PROVE  GraphCleanup \/ (Woken' /\ WaitsForParents')
<1>1. CASE GraphStep
  <2>1. UNCHANGED l1
    BY <1>1 DEF GraphStep, storage
  <2>2. CASE attach_txs(Head(toGraph).txs) /\ UNCHANGED toController
    <3>1. Queued' = Queued /\ UNCHANGED <<deps, attached_txs>>
      BY <2>2 DEF attach_txs, Queued
    <3>2. \A p \in Txid : Attached(p)' => Attached(p)
      BY <2>1, <2>2, <3>1 DEF Attached
    <3> QED
      BY <3>1, <3>2 DEF Woken, WaitsForParents
  <2>3. CASE AttachDone /\ toController' = SendUnlessEmpty(toController, AttachedTxs(attached_txs))
    <3> DEFINE m == AttachedTxs(attached_txs)
    <3>1. m \in ControllerMsgs
      BY DEF Vetted, ServicesVetted, AttachedTxs, ControllerMsgs
    <3>2. m.type = "AttachedTxs" /\ m.txs = attached_txs
      BY Messages
    <3> HIDE DEF m
    <3>3. In(toController', "AttachedTxs")
            = InWith(toController, m, "AttachedTxs")
      <4>1. toController \in Seq(ControllerMsgs) /\ toController' = SendUnlessEmpty(toController, m)
        BY <2>3 DEF m, Vetted, ChannelsVetted
      <4> QED
        BY <3>1, <4>1, SendIn
    <3>4. Queued = {} /\ attached_txs' = {} /\ UNCHANGED deps
      BY <2>3 DEF GraphInv, QueuesInOrder, AttachDone, Queued
    <3>5. \A p \in Txid : Attached(p)' => Attached(p)
      <4>1. In(toController', "AttachedTxs") = In(toController, "AttachedTxs") \cup attached_txs
        BY <3>2, <3>3 DEF InWith, Says
      <4> QED
        BY <2>1, <3>4, <4>1 DEF Attached
    <3>6. \A t, p \in Txid : p \in deps[t] => ~Attached(p)
      BY <3>4 DEF Woken
    <3> QED
      BY ZenonT(40), <3>4, <3>5, <3>6 DEF Woken, WaitsForParents
  <2> QED
    BY ZenonT(40), <1>1, <2>1, <2>2, <2>3, BatchWoken, QueueWoken DEF GraphStep
<1>2. CASE Crash \/ CrashBetweenInserts
  <2>1. deps' = [t \in Txid |-> {}]
    BY <1>2 DEF Crash, CrashBetweenInserts, RestartNode
  <2> QED
    BY <2>1 DEF Woken, WaitsForParents
<1>3. CASE ~GraphStep /\ ~Crash /\ ~CrashBetweenInserts /\ ~GraphCleanup
  <2>1. UNCHANGED graphVars
    BY <1>3 DEF Next, vars, Submit, ConfirmatorTakes, ConfirmatorMines, ConfirmatorConfirms, ControllerStep,
                send_get_data, CheckerStep
  <2>2. Queued' = Queued /\ UNCHANGED <<deps, attached_txs>>
    BY <2>1 DEF graphVars, Queued
  <2>3. \A p \in Txid : Attached(p)' => Attached(p)
    BY <1>3, <2>2, AttachedBefore
  <2> QED
    BY <2>2, <2>3 DEF Woken, WaitsForParents
<1> QED
  BY <1>1, <1>2, <1>3

(* Nobody waits for an attached transaction between two calls of           *)
(* attach_txs, whatever came in which order and however often the process  *)
(* ended, until a cleanup; for any number of transactions, as long as an   *)
(* id names one of them and no exit is waited for.                         *)
THEOREM NobodyEverLeftBehind ==
  ASSUME OneTxPerId, ExitsNotAwaited
  PROVE  Spec => []NobodyLeftBehind
<1> DEFINE Inv == "cleanup" \notin happened => Woken /\ WaitsForParents
<1>1. Init => Inv
  BY DEF Init, GraphInit, Woken, WaitsForParents
<1>2. ASSUME GraphInv, Vetted, TrackedInv, Inv, [Next]_vars
      PROVE  Inv'
  <2> SUFFICES ASSUME "cleanup" \notin happened'
               PROVE  Woken' /\ WaitsForParents'
    OBVIOUS
  <2>1. "cleanup" \notin happened /\ ~GraphCleanup
    BY <1>2, FaultsRemembered
  <2> QED
    BY <1>2, <2>1, WokenStep DEF TrackedInv
<1>3. GraphInv /\ Vetted /\ Inv => NobodyLeftBehind
  <2> SUFFICES ASSUME GraphInv, Vetted, Inv, ~busy, "cleanup" \notin happened,
                      NEW t \in stored_txs, NEW p \in deps[t]
               PROVE  ~Attached(p)
    BY DEF NobodyLeftBehind
  <2>1. t \in Txid
    BY IdSets DEF Vetted, ServicesVetted
  <2>2. p \in Txid /\ Queued = {}
    BY <2>1 DEF GraphInv, GraphTyped, QueuesInOrder, Queued
  <2> QED
    BY <2>1, <2>2 DEF Woken
<1> QED
  BY <1>1, <1>2, <1>3, GraphInvariant, VettedInvariant, TrackedInvariant, PTL DEF Spec

-----------------------------------------------------------------------------
(* Missing parents are asked for.                                          *)

(* Every transaction that somebody may wait for passes its checks: a row   *)
(* that goes away because its transaction is rejected is not asked for.    *)
ParentsPass == \A x \in Tx : TxidOf[x] \in Awaited => x \in Sound /\ x \in Permitted

ParentsNotRejected ==
  \A p \in Awaited : p \notin In(toController, "InvalidTxs") /\ p \notin Ids(invalid_txs)

(* The node has p, has asked for it, or is about to.                       *)
Covered(p) == l1[p] # NoRow \/ p \in In(toController, "GetData") \/ p \in requested

(* Fully checked, and on the way to the graph builder.                     *)
OnTheWay == In(toController, "FullyCheckedTxs") \cup In(toGraph, "CheckedTxs") \cup batch

Asked ==
  /\ ParentsNotRejected
  /\ \A x \in checked_txs : x \in FromPeer /\ Kind[x] = "Transfer" =>
       \A p \in Parents[x] \ EmptyParents[x] : Covered(p) \/ p \in not_found_parents
  /\ \A x \in OnTheWay : x \in FromPeer /\ Kind[x] = "Transfer" =>
       \A p \in Parents[x] \ EmptyParents[x] : Covered(p)
  /\ \A x \in FromPeer : \A p \in deps[TxidOf[x]] : Covered(p)

NoFault == ~GraphCleanup /\ ~Crash /\ ~CrashBetweenInserts

(* A row goes away only when its transaction is rejected.                  *)
LEMMA RowsLeave ==
  ASSUME OneTxPerId, Vetted, Tracked, [Next]_vars, NoFault, NEW p \in Txid,
         l1[p] # NoRow, l1'[p] = NoRow
  PROVE  p \in In(toController, "InvalidTxs")
<1>1. CASE ControllerStep
  <2> DEFINE m == Head(toController)
  <2>1. m \in ControllerMsgs /\ m.type # "GetData"
    BY <1>1, HeadTail DEF Vetted, ChannelsVetted, ControllerStep
  <2>2. m.type = "InvalidTxs" /\ p \in m.txs
    <3>1. CASE m.type = "InitializeTxs"
      <4>1. l1' = Inserted({x \in m.txs : IsNew(x)}) /\ m.txs \in SUBSET Tx
        BY <1>1, <2>1, <3>1 DEF ControllerStep, ControllerEvent, handle_new_lrc20_txs, ControllerMsgs
      <4> QED
        BY <4>1, InsertedVetted
    <3>2. CASE m.type = "FullyCheckedTxs"
      <4>1. handle_fully_checked_txs(m.txs)
        BY <1>1, <3>2 DEF ControllerStep, ControllerEvent
      <4>2. UNCHANGED l1 \/ \E S : l1' = WithStatus(S, "Attached")
        BY <4>1 DEF handle_fully_checked_txs, MissingEntry
      <4>3. l1[p] \in L1Row
        BY DEF Vetted, RowsVetted
      <4>4. [l1[p] EXCEPT !.status = "Attached"] \in L1Row
        BY <4>3 DEF L1Row, L1TxStatus
      <4> QED
        BY <4>2, <4>4, TxAssumption DEF WithStatus
    <3>3. CASE m.type = "AttachedTxs"
      <4>1. l1' = WithStatus(m.txs, "Attached")
        BY <1>1, <3>3 DEF ControllerStep, ControllerEvent, handle_attached_txs
      <4>2. l1[p] \in L1Row
        BY DEF Vetted, RowsVetted
      <4>3. [l1[p] EXCEPT !.status = "Attached"] \in L1Row
        BY <4>2 DEF L1Row, L1TxStatus
      <4> QED
        BY <4>1, <4>3, TxAssumption DEF WithStatus
    <3>4. CASE m.type = "InvalidTxs"
      <4>1. handle_invalid_txs(m.txs, Entries(m.txs))
        BY <1>1, <3>4 DEF ControllerStep, ControllerEvent
      <4> QED
        BY <3>4, <4>1 DEF handle_invalid_txs, Entries
    <3>5. CASE m.type = "PartiallyCheckedTxs"
      <4>1. handle_partially_checked_txs(m.txs)
        BY <1>1, <3>5 DEF ControllerStep, ControllerEvent
      <4> QED
        BY <4>1 DEF handle_partially_checked_txs, MissingEntry
    <3>6. CASE m.type = "MinedTxs"
      <4>1. handle_mined_txs(m.txs)
        BY <1>1, <3>6 DEF ControllerStep, ControllerEvent
      <4> QED
        BY <4>1 DEF handle_mined_txs, MissingEntry
    <3>7. CASE m.type = "ConfirmedTxs"
      <4>1. handle_confirmed_txs(m.txs)
        BY <1>1, <3>7 DEF ControllerStep, ControllerEvent
      <4> QED
        BY <4>1 DEF handle_confirmed_txs
    <3> QED
      BY <2>1, <3>1, <3>2, <3>3, <3>4, <3>5, <3>6, <3>7 DEF ControllerMsgs
  <2>3. In(toController, "InvalidTxs")
          = InWith(toController', Head(toController), "InvalidTxs")
    BY <1>1, ControllerHears
  <2> QED
    BY <2>2, <2>3 DEF InWith, Says
<1>2. ASSUME NEW x \in Tx, check_lrc20_transaction(x)
      PROVE  FALSE
  BY <1>2, OneCheckedMoves
<1>3. CASE UNCHANGED l1
  BY <1>3
<1>4. CASE CheckerStep
  BY <1>2, <1>3, <1>4 DEF CheckerStep, check_txs_isolated, check_txs_full, FullCheckDone, storage
<1> QED
  BY <1>1, <1>3, <1>4 DEF Next, NoFault, vars, Submit, ConfirmatorTakes, ConfirmatorMines, ConfirmatorConfirms,
                          send_get_data, GraphStep, storage

(* A request is on its way until it has been sent.                         *)
LEMMA Requests ==
  ASSUME Vetted, [Next]_vars, NoFault
  PROVE  /\ not_found_parents \subseteq not_found_parents' \cup In(toController', "GetData")
         /\ In(toController, "GetData") \subseteq In(toController', "GetData") \cup requested'
         /\ requested \subseteq requested'
<1>1. ASSUME NEW x \in Tx, Submit(x)
      PROVE  /\ UNCHANGED <<not_found_parents, requested>>
             /\ In(toController', "GetData") = In(toController, "GetData")
  BY <1>1, SubmitSays DEF Submit, checkerVars
<1>2. ASSUME NEW S \in SUBSET Txid,
             ConfirmatorMines(S) \/ ConfirmatorConfirms(S)
      PROVE  /\ UNCHANGED <<not_found_parents, requested>>
             /\ In(toController', "GetData") = In(toController, "GetData")
  BY <1>2, ConfirmsSays DEF ConfirmatorMines, ConfirmatorConfirms, checkerVars
<1>3. CASE ControllerStep
  <2>1. Head(toController).type # "GetData" /\ UNCHANGED <<not_found_parents, requested>>
    BY <1>3 DEF ControllerStep, checkerVars
  <2>2. In(toController, "GetData")
          = InWith(toController', Head(toController), "GetData")
    BY <1>3, ControllerHears
  <2> QED
    BY <2>1, <2>2 DEF InWith, Says
<1>4. CASE send_get_data
  <2>1. /\ requested' = requested \cup Head(toController).txs /\ UNCHANGED not_found_parents
    BY <1>4 DEF send_get_data, checkerVars
  <2>2. In(toController, "GetData")
          = InWith(toController', Head(toController), "GetData")
    BY <1>4, ControllerHears
  <2> QED
    BY <2>1, <2>2 DEF InWith, Says
<1>5. CASE CheckerStep
  <2>1. UNCHANGED requested
    BY <1>5 DEF CheckerStep
  <2>2. CASE check_txs_isolated
    <3>1. In(toController', "GetData") = In(toController, "GetData")
      BY <2>2, IsolatedSays
    <3> QED
      BY <2>1, <2>2, <3>1 DEF check_txs_isolated, checkerVars
  <2>3. CASE FullCheckDone
    BY <2>1, <2>3, FullDoneSays
  <2>4. CASE check_txs_full
    BY <2>1, <2>4 DEF check_txs_full
  <2>5. ASSUME NEW x \in Tx, check_lrc20_transaction(x)
        PROVE  not_found_parents \subseteq not_found_parents' /\ UNCHANGED toController
    BY <2>5, OneChecked
  <2> QED
    BY <1>5, <2>1, <2>2, <2>3, <2>4, <2>5 DEF CheckerStep
<1>6. CASE GraphStep
  <2>1. UNCHANGED <<not_found_parents, requested>>
    BY <1>6 DEF GraphStep, checkerVars
  <2>2. In(toController', "GetData") = In(toController, "GetData")
    BY <1>6, GraphSays
  <2> QED
    BY <2>1, <2>2
<1>7. CASE ConfirmatorTakes \/ UNCHANGED vars
  BY <1>7 DEF ConfirmatorTakes, vars, checkerVars, channels
<1> QED
  BY <1>1, <1>2, <1>3, <1>4, <1>5, <1>6, <1>7 DEF Next, NoFault

LEMMA CoveredStays ==
  ASSUME OneTxPerId, Vetted, Tracked, ParentsNotRejected, [Next]_vars, NoFault,
         NEW p \in Awaited
  PROVE  /\ Covered(p) => Covered(p)'
         /\ p \in not_found_parents => p \in not_found_parents' \/ Covered(p)'
<1>1. p \in Txid
  BY CheckerAssumption DEF Awaited
<1>2. l1[p] # NoRow => l1'[p] # NoRow
  BY <1>1, RowsLeave DEF ParentsNotRejected
<1> QED
  BY <1>2, Requests DEF Covered

(* One transaction of a full check, once more: what it rejects is not      *)
(* permitted, and a transfer from a peer that it accepts is covered.       *)
LEMMA CheckedCovered ==
  ASSUME Vetted, Tracked, NEW x \in Tx, check_lrc20_transaction(x)
  PROVE  /\ \A y \in invalid_txs' : y \in invalid_txs \/ (y = x /\ x \notin Permitted)
         /\ \A y \in checked_txs' : y \in checked_txs \/ y = x
         /\ x \in FromPeer /\ Kind[x] = "Transfer" /\ x \in checked_txs' /\ x \notin checked_txs
              => \A p \in Parents[x] : l1'[p] # NoRow \/ p \in not_found_parents'
<1>1. Kind[x] \in Kinds
  BY TxAssumption
<1>2. CASE Kind[x] = "Issue"
  <2>1. check_issuance(x)
    BY <1>2 DEF check_lrc20_transaction, IsAnnouncement
  <2> QED
    BY <1>2, <2>1 DEF check_issuance, check_issue_announcement, Accept, Reject
<1>3. CASE IsAnnouncement(x)
  <2>1. check_announcements(x)
    BY <1>3 DEF check_lrc20_transaction, IsAnnouncement
  <2>2. Kind[x] # "Transfer"
    BY <1>3 DEF IsAnnouncement
  <2>3. CASE Kind[x] = "IssueAnnouncement"
    BY <2>1, <2>2, <2>3 DEF check_announcements, check_issue_announcement, Accept, Reject
  <2>4. CASE Kind[x] # "IssueAnnouncement"
    BY <2>1, <2>2, <2>4 DEF check_announcements, Accept, Reject
  <2> QED
    BY <2>3, <2>4
<1>4. CASE Kind[x] = "Transfer"
  <2> DEFINE missing == {p \in Parents[x] : l1[p] = NoRow /\ p \notin Ids(checked_txs)}
             ask(S)  == not_found_parents' =
                          IF x \in FromPeer THEN not_found_parents \cup S ELSE not_found_parents
  <2>1. check_transfer(x)
    BY <1>4 DEF check_lrc20_transaction, IsAnnouncement
  <2>2. /\ \/ x \in Permitted /\ Accept(x) /\ ask(missing)
           \/ x \notin Permitted /\ Reject(x)
        /\ UNCHANGED l1
    BY <2>1 DEF check_transfer
  <2>3. \A p \in Ids(checked_txs) : l1[p] # NoRow
    <3>1. Ids(checked_txs) \subseteq Txid
      BY IdSets DEF Vetted, ServicesVetted
    <3>2. \A p \in Ids(checked_txs) : mempool[p] = "Mined"
      BY DEF Tracked, StatusFits, InChecker
    <3> QED
      BY <3>1, <3>2 DEF Vetted, EntriesVetted
  <2>4. \A p \in Parents[x] : l1[p] # NoRow \/ p \in missing
    BY <2>3
  <2> QED
    BY <2>2, <2>4 DEF Accept, Reject
<1>5. CASE Kind[x] = "SparkExit"
  <2>1. check_spark_exit_transaction(x)
    BY <1>5 DEF check_lrc20_transaction, IsAnnouncement
  <2> QED
    BY <1>5, <2>1 DEF check_spark_exit_transaction, Accept, Reject
<1> QED
  BY <1>1, <1>2, <1>3, <1>4, <1>5 DEF Kinds, IsAnnouncement

LEMMA NotRejectedStep ==
  ASSUME OneTxPerId, ParentsPass, Vetted, Tracked, ParentsNotRejected, [Next]_vars, NoFault
  PROVE  ParentsNotRejected'
<1> DEFINE Same == In(toController', "InvalidTxs") = In(toController, "InvalidTxs")
<1>1. ASSUME NEW X \in SUBSET Tx
      PROVE  (\A x \in X : ~(x \in Sound /\ x \in Permitted)) => \A p \in Awaited : p \notin Ids(X)
  BY <1>1 DEF ParentsPass, Ids
<1>2. CASE UNCHANGED invalid_txs /\ Same
  <2>1. Ids(invalid_txs)' = Ids(invalid_txs)
    BY <1>2
  <2> QED
    BY <1>2, <2>1 DEF ParentsNotRejected
<1>3. ASSUME NEW x \in Tx, Submit(x) PROVE ParentsNotRejected'
  BY <1>2, <1>3, SubmitSays DEF Submit, checkerVars
<1>4. ASSUME NEW S \in SUBSET Txid,
             ConfirmatorMines(S) \/ ConfirmatorConfirms(S) PROVE ParentsNotRejected'
  BY <1>2, <1>4, ConfirmsSays DEF ConfirmatorMines, ConfirmatorConfirms, checkerVars
<1>5. CASE ControllerStep \/ send_get_data
  <2>1. In(toController', "InvalidTxs") \subseteq In(toController, "InvalidTxs")
    <3>1. In(toController, "InvalidTxs")
            = InWith(toController', Head(toController), "InvalidTxs")
      BY <1>5, ControllerHears
    <3> QED
      BY <3>1 DEF InWith
  <2>2. Ids(invalid_txs)' = Ids(invalid_txs)
    BY <1>5 DEF ControllerStep, send_get_data, checkerVars
  <2> QED
    BY <2>1, <2>2 DEF ParentsNotRejected
<1>6. CASE check_txs_isolated
  <2>1. /\ In(toController', "InvalidTxs")
             = In(toController, "InvalidTxs") \cup Ids(Head(toChecker).txs \ Sound)
        /\ Head(toChecker).txs \subseteq Tx
    BY SMT, <1>6, IsolatedSays
  <2>2. \A p \in Awaited : p \notin Ids(Head(toChecker).txs \ Sound)
    BY <1>1, <2>1
  <2>3. Ids(invalid_txs)' = Ids(invalid_txs)
    BY <1>6 DEF check_txs_isolated, checkerVars
  <2> QED
    BY <2>1, <2>2, <2>3 DEF ParentsNotRejected
<1>7. CASE FullCheckDone
  <2>1. In(toController', "InvalidTxs") = In(toController, "InvalidTxs") \cup Ids(invalid_txs)
    BY <1>7, FullDoneSays
  <2>2. Ids(invalid_txs)' = {}
    BY <1>7 DEF FullCheckDone, Ids
  <2> QED
    BY <2>1, <2>2 DEF ParentsNotRejected
<1>8. ASSUME NEW x \in Tx, check_lrc20_transaction(x) PROVE ParentsNotRejected'
  <2>1. \A y \in invalid_txs' : y \in invalid_txs \/ (y = x /\ x \notin Permitted)
    BY <1>8, CheckedCovered
  <2>2. \A p \in Awaited : x \notin Permitted => p # TxidOf[x]
    BY DEF ParentsPass
  <2>3. UNCHANGED toController
    BY <1>8, OneChecked
  <2>4. \A p \in Awaited : p \notin Ids(invalid_txs')
    BY <2>1, <2>2 DEF ParentsNotRejected, Ids
  <2> QED
    BY <2>3, <2>4 DEF ParentsNotRejected
<1>9. CASE check_txs_full \/ ConfirmatorTakes \/ UNCHANGED vars
  BY <1>2, <1>9 DEF check_txs_full, ConfirmatorTakes, vars, checkerVars, channels
<1>10. CASE GraphStep
  <2>1. UNCHANGED invalid_txs
    BY <1>10 DEF GraphStep, checkerVars
  <2>2. Same
    BY <1>10, GraphSays
  <2> QED
    BY <1>2, <2>1, <2>2
<1> QED
  BY <1>3, <1>4, <1>5, <1>6, <1>7, <1>8, <1>9, <1>10 DEF Next, NoFault, CheckerStep

(* Only what has been checked comes to be on the way.                      *)
LEMMA WayKept ==
  ASSUME GraphInv, Vetted, [Next]_vars, NoFault
  PROVE  \/ OnTheWay' \subseteq OnTheWay
         \/ CheckerStep /\ FullCheckDone /\ OnTheWay' \subseteq OnTheWay \cup checked_txs
<1> DEFINE Checked(ch) == In(ch, "FullyCheckedTxs")
<1>1. ASSUME Checked(toController') \subseteq Checked(toController), UNCHANGED <<toGraph, batch>>
      PROVE  OnTheWay' \subseteq OnTheWay
  BY <1>1 DEF OnTheWay
<1>2. ASSUME NEW x \in Tx, Submit(x) PROVE OnTheWay' \subseteq OnTheWay
  BY <1>1, <1>2, SubmitSays DEF Submit, graphVars
<1>3. ASSUME NEW S \in SUBSET Txid,
             ConfirmatorMines(S) \/ ConfirmatorConfirms(S) PROVE OnTheWay' \subseteq OnTheWay
  BY <1>1, <1>3, ConfirmsSays DEF ConfirmatorMines, ConfirmatorConfirms, graphVars
<1>4. CASE send_get_data
  <2>1. In(toController, "FullyCheckedTxs")
          = InWith(toController', Head(toController), "FullyCheckedTxs")
    BY <1>4, ControllerHears
  <2>2. Checked(toController') \subseteq Checked(toController)
    BY <2>1 DEF InWith
  <2> QED
    BY <1>1, <1>4, <2>2 DEF send_get_data, graphVars
<1>5. CASE ControllerStep
  <2> DEFINE m == Head(toController)
  <2>1. UNCHANGED batch
    BY <1>5 DEF ControllerStep, graphVars
  <2>2. /\ Checked(toController') \subseteq Checked(toController)
        /\ m.type = "FullyCheckedTxs" => m.txs \subseteq Checked(toController)
    <3>1. In(toController, "FullyCheckedTxs") = InWith(toController', m, "FullyCheckedTxs")
      BY <1>5, ControllerHears
    <3> QED
      BY <3>1 DEF InWith, Says
  <2>3. m \in ControllerMsgs /\ m.type # "GetData"
    BY <1>5, HeadTail DEF Vetted, ChannelsVetted, ControllerStep
  <2>4. CASE m.type = "FullyCheckedTxs"
    <3> DEFINE others == m.txs \ {x \in m.txs : IsAnnouncement(x)}
               c == CheckedTxs(others)
    <3>1. handle_fully_checked_txs(m.txs)
      BY <1>5, <2>4 DEF ControllerStep, ControllerEvent
    <3>2. UNCHANGED toGraph \/ toGraph' = SendUnlessEmpty(toGraph, c)
      BY <3>1 DEF handle_fully_checked_txs
    <3>3. m.txs \subseteq Passed /\ others \subseteq Passed
      BY <2>3, <2>4 DEF ControllerMsgs
    <3> HIDE DEF others
    <3>4. /\ c \in GraphMsgs /\ c.type = "CheckedTxs" /\ c.txs = others
          /\ toGraph \in Seq(GraphMsgs)
      BY <3>3 DEF CheckedTxs, GraphMsgs, Vetted, ChannelsVetted
    <3> HIDE DEF c
    <3>5. toGraph' = SendUnlessEmpty(toGraph, c) =>
            In(toGraph', "CheckedTxs")
              = InWith(toGraph, c, "CheckedTxs")
      BY <3>4, SendIn
    <3>6. In(toGraph', "CheckedTxs") \subseteq In(toGraph, "CheckedTxs") \cup others
      BY <3>2, <3>4, <3>5 DEF InWith, Says
    <3>7. others \subseteq Checked(toController)
      BY <2>2, <2>4 DEF others
    <3> QED
      BY <2>1, <2>2, <3>6, <3>7 DEF OnTheWay
  <2>5. CASE m.type # "FullyCheckedTxs"
    <3>1. UNCHANGED toGraph
      BY <1>5, <2>3, <2>5
         DEF ControllerStep, ControllerEvent, ControllerMsgs, handle_new_lrc20_txs,
             handle_partially_checked_txs, handle_invalid_txs, handle_mined_txs,
             handle_confirmed_txs, handle_attached_txs
    <3> QED
      BY <1>1, <2>1, <2>2, <3>1
  <2> QED
    BY <2>4, <2>5
<1>6. CASE CheckerStep
  <2>1. UNCHANGED <<toGraph, batch>>
    BY <1>6 DEF CheckerStep, graphVars
  <2>2. CASE check_txs_isolated
    BY <1>1, <2>1, <2>2, IsolatedSays
  <2>3. CASE check_txs_full \/ \E x \in Tx : check_lrc20_transaction(x)
    BY <1>1, <2>1, <2>3 DEF check_txs_full, check_lrc20_transaction
  <2>4. CASE FullCheckDone
    <3>1. Checked(toController') = Checked(toController) \cup checked_txs
      BY <2>4, FullDoneSays
    <3> QED
      BY <1>6, <2>1, <2>4, <3>1 DEF OnTheWay
  <2> QED
    BY <1>6, <2>2, <2>3, <2>4 DEF CheckerStep
<1>7. CASE GraphStep
  <2>1. Checked(toController') = Checked(toController)
    BY <1>7, GraphSays
  <2>3. CASE /\ toGraph # <<>> /\ attach_txs(Head(toGraph).txs) /\ toGraph' = Tail(toGraph)
    <3>1. Head(toGraph).type = "CheckedTxs" /\ toGraph \in Seq(GraphMsgs)
      <4>1. toGraph \in Seq(GraphMsgs)
        BY DEF Vetted, ChannelsVetted
      <4>2. Head(toGraph) \in GraphMsgs
        BY <2>3, <4>1, HeadTail
      <4> QED
        BY <4>1, <4>2 DEF GraphMsgs
    <3>2. In(toGraph, "CheckedTxs")
            = InWith(toGraph', Head(toGraph), "CheckedTxs")
      BY <2>3, <3>1, TakeIn
    <3>3. batch' = Head(toGraph).txs
      BY <2>3 DEF attach_txs
    <3> QED
      BY <2>1, <3>1, <3>2, <3>3 DEF OnTheWay, InWith, Says
  <2>4. CASE batch' \subseteq batch /\ UNCHANGED toGraph
    BY <2>1, <2>4 DEF OnTheWay
  <2> QED
    BY <1>7, <2>3, <2>4 DEF GraphStep, BatchStep, QueueStep, AttachDone
<1>8. CASE ConfirmatorTakes \/ UNCHANGED vars
  BY ZenonT(40), <1>1, <1>8 DEF ConfirmatorTakes, vars, graphVars, channels
<1> QED
  BY <1>2, <1>3, <1>4, <1>5, <1>6, <1>7, <1>8 DEF Next, NoFault

(* A transaction comes to wait for the parents of its own only.            *)
LEMMA WaitsGrow ==
  ASSUME GraphInv, [Next]_vars, NoFault, NEW t \in Txid, NEW p \in deps'[t]
  PROVE  \/ p \in deps[t]
         \/ \E x \in batch : /\ x \in Tx /\ TxidOf[x] = t /\ Kind[x] = "Transfer"
                             /\ p \in Parents[x] \ EmptyParents[x]
<1>1. CASE UNCHANGED deps
  BY <1>1
<1>2. ASSUME NEW x \in Tx, BatchStep(x, TxidOf[x], Kind[x], Parents[x] \ EmptyParents[x], Present)
      PROVE  \/ p \in deps[t]
             \/ /\ x \in batch /\ TxidOf[x] = t /\ Kind[x] = "Transfer"
                /\ p \in Parents[x] \ EmptyParents[x]
  <2> DEFINE missing == Missing(Parents[x] \ EmptyParents[x], Present)
  <2>1. x \in batch /\ missing \subseteq Parents[x] \ EmptyParents[x]
    BY <1>2 DEF BatchStep, Missing
  <2>2. CASE Kind[x] = "Transfer"
    <3>1. UNCHANGED deps \/ deps' = [deps EXCEPT ![TxidOf[x]] = deps[TxidOf[x]] \cup missing]
      BY <1>2, <2>2 DEF BatchStep, handle_transfer
    <3> HIDE DEF missing
    <3> QED
      BY <2>1, <2>2, <3>1 DEF GraphInv, GraphTyped
  <2>3. CASE Kind[x] # "Transfer"
    <3>1. UNCHANGED deps
      BY <1>2, <2>3 DEF BatchStep, attach_issue, handle_spark_exit, skip_announcement
    <3> QED
      BY <3>1
  <2> QED
    BY <2>2, <2>3
<1>3. ASSUME NEW u \in Txid, QueueStep(u, Present)
      PROVE  p \in deps[t]
  <2>1. deps' = [deps EXCEPT ![u] = Missing(deps[u], Present)]
    BY <1>3 DEF QueueStep
  <2> QED
    BY <2>1 DEF Missing, GraphInv, GraphTyped
<1>4. CASE GraphStep
  BY ZenonT(40), <1>1, <1>2, <1>3, <1>4 DEF GraphStep, attach_txs, AttachDone
<1> QED
  BY <1>1, <1>4 DEF Next, NoFault, vars, graphVars, Submit, ConfirmatorTakes, ConfirmatorMines, ConfirmatorConfirms,
                    ControllerStep, send_get_data, CheckerStep

LEMMA AskedStep ==
  ASSUME OneTxPerId, ParentsPass, GraphInv, Vetted, Tracked, WaitsForParents, Asked,
         [Next]_vars, NoFault
  PROVE  WaitsForParents' /\ Asked'
<1>1. ParentsNotRejected'
  BY NotRejectedStep DEF Asked
<1>2. \A p \in Awaited :
        /\ Covered(p) => Covered(p)'
        /\ p \in not_found_parents => p \in not_found_parents' \/ Covered(p)'
  BY CoveredStays DEF Asked
<1>3. \A x \in Tx : Parents[x] \ EmptyParents[x] \subseteq Awaited
  BY DEF Awaited
<1>4. WaitsForParents'
  BY <1>3, WaitsGrow DEF WaitsForParents
<1>5. ASSUME NEW x \in checked_txs', x \in FromPeer, Kind[x] = "Transfer",
             NEW p \in Parents[x] \ EmptyParents[x]
      PROVE  Covered(p)' \/ p \in not_found_parents'
  <2>1. x \in Tx /\ p \in Awaited
    BY <1>3, <1>5, CheckerAssumption
  <2>2. CASE x \in checked_txs
    BY <1>2, <1>5, <2>1, <2>2 DEF Asked
  <2>3. CASE x \notin checked_txs
    <3>1. \E y \in Tx : check_lrc20_transaction(y)
      BY <1>5, <2>3
         DEF Next, NoFault, vars, checkerVars, Submit, ConfirmatorTakes, ConfirmatorMines, ConfirmatorConfirms,
             ControllerStep, send_get_data, GraphStep, CheckerStep, check_txs_isolated,
             check_txs_full, FullCheckDone
    <3>2. PICK y \in Tx : check_lrc20_transaction(y)
      BY <3>1
    <3>3. x = y
      BY <1>5, <2>3, <3>2, CheckedCovered
    <3> QED
      BY <1>5, <2>3, <3>2, <3>3, CheckedCovered DEF Covered
  <2> QED
    BY <2>2, <2>3
<1>6. ASSUME NEW x \in OnTheWay', x \in FromPeer, Kind[x] = "Transfer",
             NEW p \in Parents[x] \ EmptyParents[x]
      PROVE  Covered(p)'
  <2>1. x \in Tx /\ p \in Awaited
    BY <1>3, <1>6, CheckerAssumption
  <2>2. CASE x \in OnTheWay
    BY <1>2, <1>6, <2>1, <2>2 DEF Asked
  <2>3. CASE x \notin OnTheWay
    <3>1. FullCheckDone /\ x \in checked_txs
      BY <1>6, <2>3, WayKept
    <3>2. not_found_parents' = {}
      BY <3>1 DEF FullCheckDone
    <3> QED
      BY <1>2, <1>6, <2>1, <3>1, <3>2 DEF Asked
  <2> QED
    BY <2>2, <2>3
<1>7. ASSUME NEW x \in FromPeer, NEW p \in deps'[TxidOf[x]]
      PROVE  Covered(p)'
  <2>1. x \in Tx /\ TxidOf[x] \in Txid
    BY CheckerAssumption, TxAssumption
  <2>2. CASE p \in deps[TxidOf[x]]
    BY <1>2, <2>1, <2>2 DEF Asked, WaitsForParents
  <2>3. CASE p \notin deps[TxidOf[x]]
    <3>1. PICK y \in batch : /\ y \in Tx /\ TxidOf[y] = TxidOf[x] /\ Kind[y] = "Transfer"
                             /\ p \in Parents[y] \ EmptyParents[y]
      BY <2>1, <2>3, WaitsGrow
    <3>2. y = x /\ x \in OnTheWay /\ p \in Awaited
      BY <2>1, <3>1 DEF OneTxPerId, OnTheWay, Awaited
    <3> QED
      BY <1>2, <3>1, <3>2 DEF Asked
  <2> QED
    BY <2>2, <2>3
<1> QED
  BY <1>1, <1>4, <1>5, <1>6, <1>7 DEF Asked

(* A peer that sends a transfer is asked for every parent that the graph   *)
(* builder waits for and the node does not have, whatever the order in     *)
(* which parents and children are handed in, confirmed, checked and        *)
(* attached; for any number of transactions, as long as an id names one of *)
(* them and the parents pass their checks.                                 *)
THEOREM MissingParentsAlwaysRequested ==
  ASSUME OneTxPerId, ParentsPass
  PROVE  Spec => []MissingParentsRequested
<1> DEFINE Inv == happened = {} => WaitsForParents /\ Asked
<1>1. Init => Inv
  <2> SUFFICES ASSUME Init PROVE WaitsForParents /\ Asked
    OBVIOUS
  <2>1. /\ toController = <<>> /\ toGraph = <<>> /\ checked_txs = {} /\ batch = {}
        /\ invalid_txs = {} /\ deps = [t \in Txid |-> {}]
    BY DEF Init, ChannelsInit, CheckerInit, GraphInit
  <2>2. \A type : In(<<>>, type) = {}
    BY EmptyChannel
  <2>3. WaitsForParents
    BY <2>1 DEF WaitsForParents
  <2>4. ParentsNotRejected
    BY <2>1, <2>2 DEF ParentsNotRejected, Ids
  <2>5. OnTheWay = {}
    BY <2>1, <2>2 DEF OnTheWay
  <2>6. \A x \in FromPeer : deps[TxidOf[x]] = {}
    BY <2>1, TxAssumption, CheckerAssumption
  <2> QED
    BY <2>1, <2>3, <2>4, <2>5, <2>6 DEF Asked
<1>2. ASSUME GraphInv, Vetted, TrackedInv, Inv, [Next]_vars
      PROVE  Inv'
  <2> SUFFICES ASSUME happened' = {}
               PROVE  (WaitsForParents /\ Asked)'
    OBVIOUS
  <2>1. NoFault
    BY DEF NoFault, GraphCleanup, Crash, CrashBetweenInserts, Fault
  <2>2. happened = {}
    BY <1>2, FaultsRemembered
  <2> QED
    BY <1>2, <2>1, <2>2, AskedStep DEF TrackedInv
<1>3. Vetted /\ TrackedInv /\ Inv => MissingParentsRequested
  <2> SUFFICES ASSUME Vetted, TrackedInv, Inv, happened = {}, NEW t \in stored_txs,
                      NEW p \in deps[t], l1[t].tx \in FromPeer
               PROVE  l1[p] # NoRow \/ p \in requested \/ p \in In(toController, "GetData")
    BY DEF MissingParentsRequested
  <2>1. t \in Txid /\ deps[t] # {}
    BY IdSets DEF Vetted, ServicesVetted
  <2>2. l1[t] # NoRow
    BY DEF TrackedInv, Tracked, GraphHolds, InGraph
  <2>3. TxidOf[l1[t].tx] = t
    BY <2>1, <2>2 DEF Vetted, RowsVetted
  <2> QED
    BY <2>3 DEF Asked, Covered
<1> QED
  BY <1>1, <1>2, <1>3, GraphInvariant, VettedInvariant, TrackedInvariant, PTL DEF Spec

=============================================================================
