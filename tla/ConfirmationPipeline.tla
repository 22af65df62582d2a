------------------------ MODULE ConfirmationPipeline ------------------------
(***************************************************************************)
(* The way of an L1 transaction through a node that follows a Bitcoin      *)
(* chain with reorgs: controller, confirmator and block indexer, with the  *)
(* checker and the graph builder reduced to services that accept whatever  *)
(* they are given (what they decide is modelled in other modules).         *)
(*                                                                         *)
(* Faults (crashes, errors of the Bitcoin RPC, of the storage) are steps   *)
(* of their own, at most MaxFaults of them in a behaviour.                 *)
(***************************************************************************)
EXTENDS Controller, TxConfirmator, BlockIndexer

CONSTANTS
  MaxFaults,    \* bound on the faults of a behaviour
  FaultKinds,   \* those that may happen, of "crash", "rpc", "retry", "load", "store"
  TxsExpire     \* max_confirmation_time may pass

ASSUME FaultAssumption == MaxFaults \in Nat /\ TxsExpire \in BOOLEAN

VARIABLES
  faults,     \* the kinds of the faults so far, in order
  expired     \* dropped by the confirmator since the last start of the node

vars == <<chainVars, channels, cancelled, storage, confirmatorVars,
          indexerVars, faults, expired>>

Init ==
  /\ ChainInit
  /\ ChannelsInit
  /\ StorageInit
  /\ ConfirmatorInit
  /\ IndexerInit
  /\ faults = <<>>
  /\ expired = {}

-----------------------------------------------------------------------------
(* The environment: miners, users, and the two services reduced here.      *)

ChainStep ==
  /\ \E b \in Block : NewTip(b)
  /\ UNCHANGED <<channels, cancelled, storage, confirmatorVars, indexerVars,
                 faults, expired>>

(* A user hands in a transaction that the node does not have yet.          *)
Submit(x) ==
  /\ l1[TxidOf[x]] = NoRow
  /\ \A i \in 1..Len(toController) :
       toController[i].type = "InitializeTxs" => x \notin toController[i].txs
  /\ toController' = Send(toController, InitializeTxs({x}))
  /\ UNCHANGED <<chainVars, toChecker, toGraph, toConfirm, toIndexer, cancelled,
                 storage, confirmatorVars, indexerVars, faults, expired>>

CheckerAccepts ==
  /\ toChecker # <<>>
  /\ LET m == Head(toChecker)
     IN  toController' =
           SendUnlessEmpty(toController,
                           IF m.type = "FullCheck" THEN FullyCheckedTxs(m.txs)
                           ELSE PartiallyCheckedTxs(Ids(m.txs)))
  /\ toChecker' = Tail(toChecker)
  /\ UNCHANGED <<chainVars, toGraph, toConfirm, toIndexer, cancelled, storage,
                 confirmatorVars, indexerVars, faults, expired>>

GraphBuilderAttaches ==
  /\ toGraph # <<>>
  /\ toController' = Send(toController, AttachedTxs(Ids(Head(toGraph).txs)))
  /\ toGraph' = Tail(toGraph)
  /\ UNCHANGED <<chainVars, toChecker, toConfirm, toIndexer, cancelled, storage,
                 confirmatorVars, indexerVars, faults, expired>>

-----------------------------------------------------------------------------
(* The services.                                                           *)

ControllerStep ==
  /\ ControllerEvent
  /\ UNCHANGED <<chainVars, cancelled, confirmatorVars, indexerVars, faults,
                 expired>>

ConfirmatorStep ==
  /\ handle_new_block \/ \E t \in Txid : handle_tx_to_confirm(t)
  /\ UNCHANGED <<chainVars, toChecker, toGraph, toIndexer, storage, indexerVars,
                 faults, expired>>

CleanUp ==
  /\ TxsExpire
  /\ \E old \in SUBSET queue :
       clean_up_waiting_txs(old) /\ expired' = expired \cup old
  /\ UNCHANGED <<chainVars, toChecker, toGraph, toIndexer, storage, indexerVars,
                 faults>>

IndexerStep ==
  /\ \/ /\ InitStarts \/ init_blocks_handle \/ InitFinishes \/ handle_new_blocks
        /\ UNCHANGED toIndexer
     \/ IndexerEvent
  /\ UNCHANGED <<chainVars, toController, toChecker, toGraph, cancelled, storage,
                 confirmatorVars, faults, expired>>

-----------------------------------------------------------------------------
(* Faults.                                                                 *)

Fault(kind) ==
  /\ kind \in FaultKinds
  /\ Len(faults) < MaxFaults
  /\ faults' = Append(faults, kind)

(* The process ends, because it was cancelled or has crashed, and starts   *)
(* again: what is in the storage is all that is left.                      *)
RestartNode ==
  /\ handle_mempool_txs
  /\ toController' = <<>>
  /\ toIndexer' = <<>>
  /\ cancelled' = FALSE
  /\ queue' = {}
  /\ latest_blocks' = <<>>
  /\ IndexerRestarts
  /\ expired' = {}
  /\ UNCHANGED <<chainVars, storage>>

Restart ==
  \/ cancelled /\ RestartNode /\ UNCHANGED faults
  \/ Fault("crash") /\ RestartNode

ConfirmatorFault ==
  /\ Fault("rpc")
  /\ BranchLookupFails \/ \E t \in Txid : TxLookupFails(t)
  /\ UNCHANGED <<chainVars, toChecker, toGraph, toIndexer, storage, indexerVars,
                 expired>>

IndexerFault ==
  /\ \/ Fault("retry") /\ InitRetries
     \/ Fault("load") /\ LoaderFails
     \/ Fault("store") /\ UpdateStateFails
  /\ UNCHANGED <<chainVars, toController, toChecker, toGraph, toIndexer, cancelled,
                 storage, confirmatorVars, expired>>

Next ==
  \/ ChainStep
  \/ \E x \in Tx : Submit(x)
  \/ CheckerAccepts
  \/ GraphBuilderAttaches
  \/ ControllerStep
  \/ ConfirmatorStep
  \/ CleanUp
  \/ IndexerStep
  \/ Restart
  \/ ConfirmatorFault
  \/ IndexerFault

Spec == Init /\ [][Next]_vars

(* Every service is a task of the runtime and is scheduled again and       *)
(* again; nothing is assumed of miners, users, timeouts or faults.         *)
Fairness ==
  /\ WF_vars(CheckerAccepts)
  /\ WF_vars(GraphBuilderAttaches)
  /\ WF_vars(ControllerStep)
  /\ WF_vars(ConfirmatorStep)
  /\ WF_vars(IndexerStep)

FairSpec == Spec /\ Fairness

-----------------------------------------------------------------------------
(* Properties.                                                             *)

(* The ids that the messages of one type in a channel are about.           *)
In(channel, type) ==
  UNION {channel[i].txs : i \in {j \in 1..Len(channel) : channel[j].type = type}}

ControllerMsg ==
  [type : {"PartiallyCheckedTxs", "MinedTxs", "ConfirmedTxs", "AttachedTxs"},
   txs : SUBSET Txid]
    \cup [type : {"InitializeTxs", "FullyCheckedTxs"}, txs : SUBSET Tx]
    \cup [type : {"Reorganization"}, txs : SUBSET Txid, height : Nat]

CheckerMsg == [type : {"IsolatedCheck", "FullCheck"}, txs : SUBSET Tx]

GraphMsg == [type : {"CheckedTxs"}, txs : SUBSET Tx]

ConfirmMsg ==
  [type : {"Txs"}, txs : SUBSET Txid] \cup [type : {"Block"}, block : Block]

(* Every variable has the type of the field or column that it models.      *)
TypeOK ==
  /\ tip \in Block /\ known \in SUBSET Block
  /\ toController \in Seq(ControllerMsg)
  /\ toChecker \in Seq(CheckerMsg)
  /\ toGraph \in Seq(GraphMsg)
  /\ toConfirm \in Seq(ConfirmMsg)
  /\ toIndexer \in Seq(Nat)
  /\ cancelled \in BOOLEAN
  /\ l1 \in [Txid -> L1Row \cup {NoRow}]
  /\ mempool \in [Txid -> MempoolStatus]
  /\ queue \in SUBSET Txid
  /\ latest_blocks \in Seq(Block)
  /\ phase \in {"init", "load", "run", "poll"}
  /\ confirmed_block_height \in Nat
  /\ confirmed_block_hash \in Block \cup {NoBlock}
  /\ indexer_last_block_height \in Nat
  /\ load_to \in Nat
  /\ indexer_state \in Block \cup {NoBlock}
  /\ faults \in Seq(FaultKinds)
  /\ expired \in SUBSET Txid

(* No fault so far was of another kind.                                    *)
FaultsOnly(kinds) == \A i \in 1..Len(faults) : faults[i] \in kinds

(* The window the confirmator compares new blocks with is a piece of one   *)
(* branch and has fewer than confirmations_number blocks, whatever blocks  *)
(* reach it in whatever order: handle_new_block, handle_reorg.  (The       *)
(* genesis block has no previousblockhash to compare.)                     *)
WindowIsBranch ==
  /\ Len(latest_blocks) < confirmations_number
  /\ \A i \in 2..Len(latest_blocks) :
       latest_blocks[i] = Genesis \/ Parent[latest_blocks[i]] = latest_blocks[i - 1]

(* The transaction has been confirmations_number deep in the best chain.   *)
WasBuried(t) ==
  \E b \in known : \E c \in Branch[b] :
    t \in BlockTxs[c] /\ Height[b] - Height[c] + 1 >= confirmations_number

(* The controller has been told that the transaction is confirmed.         *)
TakenForConfirmed(t) ==
  \/ t \in In(toController, "ConfirmedTxs")
  \/ t \in Ids(In(toChecker, "FullCheck"))
  \/ t \in Ids(In(toController, "FullyCheckedTxs"))
  \/ mempool[t] = "Attaching"
  \/ t \in Ids(In(toGraph, "CheckedTxs"))
  \/ t \in In(toController, "AttachedTxs")
  \/ l1[t] # NoRow /\ l1[t].status = "Attached"

(* Neither the window nor the RPC path of the confirmator ever takes a     *)
(* transaction for confirmed that was not confirmations_number deep in a   *)
(* best chain: reorgs and late messages do not let it pass early.          *)
OnlyBuriedTxsConfirmed == \A t \in Txid : TakenForConfirmed(t) => WasBuried(t)

(* The service whose turn it is with the transaction, by its mempool       *)
(* status, has it or is about to get it.                                   *)
InHand(t) ==
  CASE mempool[t] = "None" -> TRUE
    [] mempool[t] = "Initialized" ->
         \/ t \in Ids(In(toChecker, "IsolatedCheck"))
         \/ t \in In(toController, "PartiallyCheckedTxs")
    [] mempool[t] \in {"WaitingMined", "Mined"} ->
         \/ t \in In(toConfirm, "Txs")
         \/ t \in queue
         \/ t \in In(toController, "Reorganization")
         \/ t \in In(toController, "ConfirmedTxs")
         \/ t \in Ids(In(toChecker, "FullCheck"))
         \/ t \in Ids(In(toController, "FullyCheckedTxs"))
         \/ t \in expired
    [] mempool[t] = "Attaching" ->
         \/ t \in Ids(In(toGraph, "CheckedTxs"))
         \/ t \in In(toController, "AttachedTxs")

(* No mempool entry is forgotten: as long as the node runs, every entry    *)
(* that the confirmator has not dropped as too old is in a queue or in a   *)
(* message on its way, across reorgs, restarts and retries.                *)
NoEntryForgotten == ~cancelled => \A t \in Txid : InHand(t)

(* The best chain has had the transaction, and then a tip at least as high *)
(* without it.                                                             *)
DroppedByReorg(t) ==
  \E b, c \in known :
    /\ t \in BlockTxs[c] /\ Height[c] <= Height[b]
    /\ \A d \in Branch[b] : t \notin BlockTxs[d]

(* An entry moves only along the statuses that the controller's handlers   *)
(* document, and never back from Attaching: it passes the full check only  *)
(* as Mined, unless a reorg dropped the transaction, and leaves the        *)
(* mempool with it when it is an announcement.  (While the node shuts down *)
(* after a failed lookup, MinedTxs may be skipped.)                        *)
StatusStep(t) ==
  LET old == mempool[t]
      new == mempool'[t]
  IN  \/ old = new
      \/ <<old, new>> \in
           {<<"None", "Initialized">>, <<"Initialized", "WaitingMined">>,
            <<"WaitingMined", "Mined">>, <<"Mined", "WaitingMined">>, <<"Attaching", "None">>}
      \/ /\ old = "Mined" \/ (old = "WaitingMined" /\ DroppedByReorg(t))
         /\ new = IF IsAnnouncement(l1[t].tx) THEN "None" ELSE "Attaching"

StatusesInOrder == [][~cancelled => \A t \in Txid : StatusStep(t)]_vars

(* When init is over, the confirmator has handled all its blocks and no    *)
(* reorg is being handled, the indexer continues exactly where the window  *)
(* ends: init has indexed the missed blocks, and polls and reorgs skip and *)
(* repeat nothing, across crashes and RPC errors.  (An init that is tried  *)
(* again, a block loader that fails and an update that is not stored make  *)
(* the indexer send blocks again, see StopsOnlyForUnknownFork; Genesis     *)
(* stands for a chain with nothing to index.)                              *)
IndexerContinuesWindow ==
  ( /\ FaultsOnly({"crash", "rpc"})
    /\ ~cancelled
    /\ phase = "run"
    /\ toIndexer = <<>>
    /\ \A i \in 1..Len(toConfirm) : toConfirm[i].type # "Block"
    /\ \A i \in 1..Len(toController) : toController[i].type # "Reorganization"
    /\ confirmed_block_hash # Genesis
    /\ confirmations_number > 1 )
  => latest_blocks # <<>> /\ latest_blocks[Depth] = confirmed_block_hash

(* The confirmator stops the node only when no block of its window is on   *)
(* the branch of the block that it cannot place.                           *)
StopsOnlyForUnknownFork ==
  [][cancelled' /\ ~cancelled
       => \A i \in 1..Depth : latest_blocks[i] \notin Branch[Head(toConfirm).block]]_vars

(* A transaction that stays deep enough in the best chain is eventually    *)
(* handed to the full check, unless the node is stopped or drops it,       *)
(* whatever crashes and RPC errors there were.  (After a failed block      *)
(* loader the blocks left out are not sent: the next blocks have to bring  *)
(* the depth once more.)                                                   *)
DeepTxEventuallyChecked ==
  \A t \in Txid :
    <>[](/\ FaultsOnly({"crash", "rpc"})
         /\ Confirmations(t) >= confirmations_number
         /\ l1[t] # NoRow
         /\ ~cancelled
         /\ t \notin expired)
      => <>(l1[t] # NoRow /\ l1[t].status = "Attached")

=============================================================================
