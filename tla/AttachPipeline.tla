--------------------------- MODULE AttachPipeline ---------------------------
(***************************************************************************)
(* The way of L1 transactions that depend on each other: controller,       *)
(* checker and graph builder on one storage.  Of the confirmator only its  *)
(* promise is left: a transaction handed to it is reported mined and       *)
(* confirmed at some time (ConfirmationPipeline has the rest), in whatever *)
(* order, since a child may be handed in before its parent.                *)
(***************************************************************************)
EXTENDS TxChecker, GraphBuilder

CONSTANTS
  MaxSubmits,    \* bound on the transactions handed in
  MaxFaults,     \* bound on the faults of a behaviour
  FaultKinds     \* those that may happen, of "crash", "torn", "cleanup"

ASSUME AttachAssumption ==
  MaxSubmits \in Nat /\ MaxFaults \in Nat /\ IsFiniteSet(FaultKinds)

VARIABLES
  waiting,      \* in the confirmator
  mined,        \* those of them that it has reported mined
  requested,    \* asked for with GetData
  submits,      \* transactions handed in so far
  happened      \* the kinds of faults so far

vars == <<channels, cancelled, storage, checkerVars, graphVars, waiting,
          mined, requested, submits, happened>>

Init ==
  /\ ChannelsInit
  /\ StorageInit
  /\ CheckerInit
  /\ GraphInit
  /\ waiting = {}
  /\ mined = {}
  /\ requested = {}
  /\ submits = 0
  /\ happened = {}

-----------------------------------------------------------------------------
(* Users and peers hand in transactions that the node does not have, or    *)
(* the issuance to an announcement that it has.                            *)
Submit(x) ==
  /\ submits < MaxSubmits
  /\ submits' = submits + 1
  /\ IsNew(x)
  /\ \A i \in 1..Len(toController) :
       toController[i].type = "InitializeTxs" => x \notin toController[i].txs
  /\ toController' = Send(toController, InitializeTxs({x}))
  /\ UNCHANGED <<toChecker, toGraph, toConfirm, toIndexer, cancelled, storage,
                 checkerVars, graphVars, waiting, mined, requested, happened>>

(* The confirmator: a transaction is reported mined with the first block   *)
(* that has it, and confirmed some blocks later.                           *)
ConfirmatorTakes ==
  /\ toConfirm # <<>>
  /\ waiting' = waiting \cup Head(toConfirm).txs
  /\ toConfirm' = Tail(toConfirm)
  /\ UNCHANGED <<toController, toChecker, toGraph, toIndexer, cancelled, storage,
                 checkerVars, graphVars, mined, requested, submits, happened>>

ConfirmatorMines(S) ==
  /\ S # {}
  /\ S \subseteq waiting \ mined
  /\ mined' = mined \cup S
  /\ toController' = Send(toController, MinedTxs(S))
  /\ UNCHANGED <<toChecker, toGraph, toConfirm, toIndexer, cancelled, storage,
                 checkerVars, graphVars, waiting, requested, submits, happened>>

ConfirmatorConfirms(S) ==
  /\ S # {}
  /\ S \subseteq mined
  /\ waiting' = waiting \ S
  /\ mined' = mined \ S
  /\ toController' = Send(toController, ConfirmedTxs(S))
  /\ UNCHANGED <<toChecker, toGraph, toConfirm, toIndexer, cancelled, storage,
                 checkerVars, graphVars, requested, submits, happened>>

-----------------------------------------------------------------------------
(* The services.                                                           *)

ControllerStep ==
  /\ toController # <<>>
  /\ Head(toController).type # "GetData"
  /\ ControllerEvent
  /\ UNCHANGED <<cancelled, checkerVars, graphVars, waiting, mined, requested, submits,
                 happened>>

send_get_data ==
  /\ Next1(toController, "GetData")
  /\ requested' = requested \cup Head(toController).txs
  /\ toController' = Tail(toController)
  /\ UNCHANGED <<toChecker, toGraph, toConfirm, toIndexer, cancelled, storage,
                 checkerVars, graphVars, waiting, mined, submits, happened>>

CheckerStep ==
  /\ \/ check_txs_isolated
     \/ check_txs_full
     \/ \E x \in Tx : check_lrc20_transaction(x)
     \/ FullCheckDone
  /\ UNCHANGED <<toGraph, toConfirm, toIndexer, cancelled, graphVars, waiting,
                 mined, requested, submits, happened>>

Present == {t \in Txid : l1[t] # NoRow}

GraphStep ==
  /\ \/ /\ toGraph # <<>>
        /\ attach_txs(Head(toGraph).txs)
        /\ toGraph' = Tail(toGraph)
        /\ UNCHANGED toController
     \/ /\ \/ \E x \in Tx : BatchStep(x, TxidOf[x], Kind[x],
                                      Parents[x] \ EmptyParents[x], Present)
           \/ \E t \in Txid : QueueStep(t, Present)
        /\ UNCHANGED <<toGraph, toController>>
     \/ /\ AttachDone
        /\ toController' = SendUnlessEmpty(toController, AttachedTxs(attached_txs))
        /\ UNCHANGED toGraph
  /\ UNCHANGED <<toChecker, toConfirm, toIndexer, cancelled, storage, checkerVars,
                 waiting, mined, requested, submits, happened>>

-----------------------------------------------------------------------------
(* Faults.                                                                 *)

Fault(kind) ==
  /\ kind \in FaultKinds \ happened
  /\ Cardinality(happened) < MaxFaults
  /\ happened' = happened \cup {kind}

(* tx_outdated_duration has passed for a stored transaction.  The rows go, *)
(* and the mempool entries with them.                                      *)
GraphCleanup ==
  /\ Fault("cleanup")
  /\ \E t \in Txid :
       /\ remove_outdated_tx(t)
       /\ l1' = [u \in Txid |-> IF u \in Outdated(t) THEN NoRow ELSE l1[u]]
       /\ mempool' = MempoolDelete(Outdated(t))
  /\ UNCHANGED <<channels, cancelled, checkerVars, waiting, mined, requested, submits>>

(* The process ends and starts again with what is in the storage.          *)
RestartNode ==
  /\ handle_mempool_txs
  /\ toController' = <<>>
  /\ toIndexer' = <<>>
  /\ waiting' = {}
  /\ mined' = {}
  /\ requested' = {}
  /\ checking' = FALSE /\ unchecked' = {} /\ checked_txs' = {}
  /\ invalid_txs' = {} /\ not_found_parents' = {}
  /\ deps' = [t \in Txid |-> {}] /\ inverse_deps' = [t \in Txid |-> {}]
  /\ stored_txs' = {} /\ busy' = FALSE /\ batch' = {}
  /\ queued_txs' = {} /\ local_queue' = {} /\ attached_txs' = {}
  /\ UNCHANGED <<cancelled, mempool, submits>>

Crash ==
  /\ Fault("crash")
  /\ RestartNode
  /\ UNCHANGED l1

(* handle_new_lrc20_txs has inserted a transaction, and not yet put it     *)
(* into the mempool, when the process ends.                                *)
CrashBetweenInserts ==
  /\ Fault("torn")
  /\ Next1(toController, "InitializeTxs")
  /\ \E x \in Head(toController).txs : IsNew(x) /\ l1' = Inserted({x})
  /\ RestartNode

Next ==
  \/ \E x \in Tx : Submit(x)
  \/ ConfirmatorTakes
  \/ \E S \in SUBSET Txid : ConfirmatorMines(S)
  \/ \E S \in SUBSET Txid : ConfirmatorConfirms(S)
  \/ ControllerStep
  \/ send_get_data
  \/ CheckerStep
  \/ GraphStep
  \/ GraphCleanup
  \/ Crash
  \/ CrashBetweenInserts

Spec == Init /\ [][Next]_vars

(* The services are tasks that the runtime runs again and again; that a    *)
(* transaction handed to the confirmator is confirmed is what the user has *)
(* to bring about.                                                         *)
Fairness ==
  /\ WF_vars(ConfirmatorTakes)
  /\ \A t \in Txid : WF_vars(\E S \in SUBSET Txid : t \in S /\ ConfirmatorMines(S))
  /\ \A t \in Txid : WF_vars(\E S \in SUBSET Txid : t \in S /\ ConfirmatorConfirms(S))
  /\ WF_vars(ControllerStep \/ send_get_data)
  /\ WF_vars(CheckerStep)
  /\ WF_vars(GraphStep)

FairSpec == Spec /\ Fairness

-----------------------------------------------------------------------------
(* Properties.                                                             *)

In(channel, type) ==
  UNION {channel[i].txs : i \in {j \in 1..Len(channel) : channel[j].type = type}}

(* Every variable has the type of the field or column that it models.      *)
TypeOK ==
  /\ l1 \in [Txid -> L1Row \cup {NoRow}]
  /\ mempool \in [Txid -> MempoolStatus]
  /\ checking \in BOOLEAN /\ busy \in BOOLEAN
  /\ unchecked \subseteq Tx /\ checked_txs \subseteq Tx /\ invalid_txs \subseteq Tx
  /\ not_found_parents \subseteq Txid /\ requested \subseteq Txid
  /\ deps \in [Txid -> SUBSET Txid] /\ inverse_deps \in [Txid -> SUBSET Txid]
  /\ stored_txs \subseteq Txid /\ batch \subseteq Tx
  /\ queued_txs \subseteq Txid /\ local_queue \subseteq Txid
  /\ attached_txs \subseteq Txid /\ waiting \subseteq Txid /\ mined \subseteq waiting

(* Whoever waits will be woken: between two calls of attach_txs a stored   *)
(* transaction waits for somebody, and each parent that it waits for knows *)
(* of it, after any number of batches, cleanups and restarts.              *)
WaitersKnown ==
  ~busy => /\ \A t \in Txid : deps[t] # {} <=> t \in stored_txs
           /\ \A t, p \in Txid : p \in deps[t] => t \in inverse_deps[p]

(* The node has the transaction (an announcement of it is not enough), and *)
(* it is attached or about to be.                                          *)
Attached(t) ==
  /\ l1[t] # NoRow
  /\ ~IsAnnouncement(l1[t].tx)
  /\ \/ t \in attached_txs
     \/ t \in In(toController, "AttachedTxs")
     \/ l1[t].status = "Attached"

(* attach_txs goes on until there is nothing to do: nobody waits for a     *)
(* transaction that is attached, as long as no rows were cleaned up.       *)
NobodyLeftBehind ==
  ~busy /\ "cleanup" \notin happened =>
    \A t \in stored_txs : \A p \in deps[t] : ~Attached(p)

(* A peer that sends a transfer is asked for the parents that the node     *)
(* does not have: the full check finds them missing, and the graph builder *)
(* waits for no other, as long as no row goes away in between.             *)
MissingParentsRequested ==
  happened = {} =>
    \A t \in stored_txs : \A p \in deps[t] :
      l1[t].tx \in FromPeer =>
        \/ l1[p] # NoRow
        \/ p \in requested
        \/ p \in In(toController, "GetData")

(* A mempool entry that is Attaching is with the graph builder, on the way *)
(* to it, or on the way back.                                              *)
EntryInHand(t) ==
  mempool[t] = "Attaching" =>
    \/ t \in Ids(In(toGraph, "CheckedTxs"))
    \/ t \in Ids(batch)
    \/ t \in stored_txs
    \/ t \in attached_txs
    \/ t \in In(toController, "AttachedTxs")

(* No Attaching entry is lost, across crashes and rejected transactions,   *)
(* as long as no rows were cleaned up.  And every transaction that is      *)
(* being handled has an entry, across crashes between two events: a row    *)
(* without one is not taken up again after a start, and the transaction    *)
(* cannot be handed in again either.                                       *)
AttachingInHand ==
  /\ "cleanup" \notin happened => \A t \in Txid : EntryInHand(t)
  /\ happened \subseteq {"crash"} =>
       \A t \in Txid :
         l1[t] # NoRow /\ l1[t].status = "Handling" => mempool[t] # "None"

(* An id is attached only when a message with that id has passed the       *)
(* isolated check, and one the full check, whatever crashes and cleanups   *)
(* came between.  (An issuance, or its announcement, that the node has     *)
(* passes the full check in any case: check_issue_announcement.)  Where an *)
(* id has one message that is the message of the row.  An issuance that    *)
(* has taken over the row of its announcement may be attached by the       *)
(* verdict on the announcement.                                            *)
OnlyCheckedAttached ==
  \A t \in Txid :
    l1[t] # NoRow /\ l1[t].status = "Attached" =>
      /\ \E x \in Sound : TxidOf[x] = t
      /\ \E x \in Tx : /\ TxidOf[x] = t
                       /\ x \in Permitted \/ Kind[x] \in {"Issue", "IssueAnnouncement"}

(* The stages of the abstract lifecycle, by row and mempool entry.         *)
Stage(t) ==
  CASE l1[t] = NoRow                  -> "absent"
    [] l1[t] # NoRow /\ l1[t].status = "Attached"     -> "attached"
    [] l1[t] # NoRow /\ l1[t].status = "InvalidIssue" -> "rejected"
    [] OTHER -> mempool[t]

Lifecycle == INSTANCE TxLifecycle WITH stage <- [t \in Txid |-> Stage(t)]

(* The node follows the transaction flow of docs/README.md: no stage is    *)
(* skipped or undone, and what is attached stays so, with every            *)
(* interleaving of the services and across crashes.                        *)
FollowsLifecycle == Lifecycle!Spec

(* Once all transactions are handed in, all are attached eventually, in    *)
(* whatever order they came, were confirmed and checked, and whenever the  *)
(* node crashed.                                                           *)
AllEventuallyAttached ==
  <>[](/\ happened \subseteq {"crash"}
       /\ \A t \in Ids(Sound \cap Permitted) : l1[t] # NoRow)
    => <>(\A t \in Ids(Sound \cap Permitted) : l1[t] # NoRow /\ l1[t].status = "Attached")

=============================================================================
