----------------------------- MODULE Controller -----------------------------
(***************************************************************************)
(* crates/controller: the service that owns the life of an L1 transaction. *)
(* It keeps the transaction and its mempool entry in the storage and moves *)
(* it from service to service.  The storage (crates/storage) is two        *)
(* tables: l1_transaction and mempool_transaction; deleting a row of the   *)
(* first deletes the row of the second (ON DELETE CASCADE).                *)
(*                                                                         *)
(* A handler walks over a batch and returns at the first error: when an    *)
(* entry is missing, the entries before it have been updated and nothing   *)
(* is sent.  Batches are sets, so "before" is any subset of the rest.      *)
(***************************************************************************)
EXTENDS NodeParameters, Channels, FiniteSets

CONSTANTS
  Tx,        \* LRC20 transactions; an issuance and its announcement are
             \* two members of Tx with the same id
  TxidOf,    \* id of an LRC20 transaction
  Kind,      \* its Lrc20TxType
  NoRow      \* "no row in l1_transaction"

Kinds == {"Issue", "IssueAnnouncement", "Announcement", "Transfer", "SparkExit"}

L1TxStatus == {"Handling", "Attached", "InvalidIssue"}

(* MempoolStatus; "None": the transaction has no mempool entry.            *)
MempoolStatus == {"None", "Initialized", "WaitingMined", "Mined", "Attaching"}

L1Row == [tx : Tx, status : L1TxStatus]

ASSUME TxAssumption ==
  /\ TxidOf \in [Tx -> Txid]
  /\ Kind \in [Tx -> Kinds]
  /\ NoRow \notin L1Row

VARIABLES
  l1,        \* the l1_transaction row of an id
  mempool    \* the status of its mempool_transaction row

storage == <<l1, mempool>>

StorageInit ==
  /\ l1 = [t \in Txid |-> NoRow]
  /\ mempool = [t \in Txid |-> "None"]

Ids(X) == {TxidOf[x] : x \in X}

IsAnnouncement(x) == Kind[x] \in {"IssueAnnouncement", "Announcement"}

-----------------------------------------------------------------------------
(* The storage operations, on sets of transactions.                        *)

(* insert_lrc20_transaction: a new row, or a reset of the present one.     *)
Inserted(X) ==
  [t \in Txid |->
     IF \E x \in X : TxidOf[x] = t
     THEN [tx |-> CHOOSE x \in X : TxidOf[x] = t, status |-> "Handling"]
     ELSE l1[t]]

(* set_lrc20_tx_status: does nothing when the row is missing.              *)
WithStatus(S, s) ==
  [t \in Txid |-> IF t \in S /\ l1[t] # NoRow THEN [l1[t] EXCEPT !.status = s]
                  ELSE l1[t]]

(* put_mempool_transaction: ON CONFLICT DO NOTHING.                        *)
MempoolPut(S) ==
  [t \in Txid |-> IF t \in S /\ mempool[t] = "None" THEN "Initialized"
                  ELSE mempool[t]]

(* update_mempool_tx_status, for ids that have an entry.                   *)
MempoolSet(S, s) == [t \in Txid |-> IF t \in S THEN s ELSE mempool[t]]

(* delete_mempool_entry, delete_mempool_txs.                               *)
MempoolDelete(S) == MempoolSet(S, "None")

(* get_mempool_by_txids: the stored transactions that have an entry.       *)
Entries(S) == {t \in S : mempool[t] # "None"}

StoredTxs(S) == {l1[t].tx : t \in S}

(* What get_lrc20_transaction_by_id returns is an issue announcement: an   *)
(* invalid issuance is handed out as its announcement.                     *)
IsStoredIssueAnnouncement(t) ==
  /\ l1[t] # NoRow
  /\ \/ Kind[l1[t].tx] = "IssueAnnouncement"
     \/ Kind[l1[t].tx] = "Issue" /\ l1[t].status = "InvalidIssue"

-----------------------------------------------------------------------------
(* The handlers.  Each is the whole reaction to one ControllerMessage.     *)

IsNew(x) ==
  \/ l1[TxidOf[x]] = NoRow
  \/ Kind[x] = "Issue" /\ IsStoredIssueAnnouncement(TxidOf[x])

handle_new_lrc20_txs(X) ==
  LET new == {x \in X : IsNew(x)}
  IN  /\ l1' = Inserted(new)
      /\ mempool' = MempoolPut(Ids(new))
      /\ toChecker' = SendUnlessEmpty(toChecker, IsolatedCheck(new))
      /\ UNCHANGED <<toGraph, toConfirm, toIndexer>>

(* The batch has an id without an entry: some of the others are updated    *)
(* and the handler returns its error, which is only logged.                *)
MissingEntry(S, s) ==
  /\ Entries(S) # S
  /\ \E done \in SUBSET Entries(S) : mempool' = MempoolSet(done, s)
  /\ UNCHANGED l1

handle_partially_checked_txs(S) ==
  /\ \/ /\ Entries(S) = S
        /\ mempool' = MempoolSet(S, "WaitingMined")
        /\ toConfirm' = Send(toConfirm, Txs(S))
        /\ UNCHANGED l1
     \/ MissingEntry(S, "WaitingMined") /\ UNCHANGED toConfirm
  /\ UNCHANGED <<toChecker, toGraph, toIndexer>>

(* Announcements are done: they leave the mempool and count as attached.   *)
(* All others go to the graph builder.                                     *)
handle_fully_checked_txs(X) ==
  LET announcements == {x \in X : IsAnnouncement(x)}
      others        == X \ announcements
  IN  /\ \/ /\ Entries(Ids(others)) = Ids(others)
            /\ mempool' =
                 [t \in Txid |-> IF t \in Ids(announcements) THEN "None"
                                 ELSE IF t \in Ids(others) THEN "Attaching"
                                 ELSE mempool[t]]
            /\ l1' = WithStatus(Ids(announcements), "Attached")
            /\ toGraph' = SendUnlessEmpty(toGraph, CheckedTxs(others))
         \/ MissingEntry(Ids(others), "Attaching") /\ UNCHANGED toGraph
      /\ UNCHANGED <<toChecker, toConfirm, toIndexer>>

(* Faulty: the status is not updated.                                      *)
handle_mined_txs_ignored(S) ==
  UNCHANGED <<l1, mempool, toChecker, toGraph, toConfirm, toIndexer>>

handle_mined_txs(S) ==
  /\ \/ /\ Entries(S) = S
        /\ mempool' = MempoolSet(S, "Mined")
        /\ UNCHANGED l1
     \/ MissingEntry(S, "Mined")
  /\ UNCHANGED <<toChecker, toGraph, toConfirm, toIndexer>>

handle_confirmed_txs(S) ==
  /\ toChecker' = Send(toChecker, FullCheck(StoredTxs(Entries(S))))
  /\ UNCHANGED <<l1, mempool, toGraph, toConfirm, toIndexer>>

(* Faulty: the transactions are not sent to the confirmator again.         *)
handle_reorganization_txs_lost(S, h) ==
  /\ toIndexer' = Send(toIndexer, h)
  /\ mempool' = MempoolSet(Entries(S), "WaitingMined")
  /\ UNCHANGED <<l1, toChecker, toGraph, toConfirm>>

handle_reorganization_txs(S, h) ==
  /\ toIndexer' = Send(toIndexer, h)
  /\ \/ /\ Entries(S) = S
        /\ mempool' = MempoolSet(S, "WaitingMined")
        /\ toConfirm' = SendUnlessEmpty(toConfirm, Txs(S))
        /\ UNCHANGED l1
     \/ MissingEntry(S, "WaitingMined") /\ UNCHANGED toConfirm
  /\ UNCHANGED <<toChecker, toGraph>>

handle_attached_txs(S) ==
  /\ l1' = WithStatus(S, "Attached")
  /\ mempool' = MempoolDelete(S)
  /\ UNCHANGED <<toChecker, toGraph, toConfirm, toIndexer>>

(* `done` are the entries reached before an error of ban_peer ended the    *)
(* loop: without one, all of them.                                         *)
handle_invalid_txs(S, done) ==
  /\ mempool' = MempoolDelete(S)
  /\ l1' = [t \in Txid |->
              IF t \notin done THEN l1[t]
              ELSE IF Kind[l1[t].tx] = "Issue"
                   THEN [l1[t] EXCEPT !.status = "InvalidIssue"]
                   ELSE NoRow]
  /\ UNCHANGED <<toChecker, toGraph, toConfirm, toIndexer>>

-----------------------------------------------------------------------------
(* handle_event, for the messages about L1 transactions.                   *)
ControllerEvent ==
  /\ toController # <<>>
  /\ toController' = Tail(toController)
  /\ LET m == Head(toController)
     IN  CASE m.type = "InitializeTxs"       -> handle_new_lrc20_txs(m.txs)
           [] m.type = "PartiallyCheckedTxs" -> handle_partially_checked_txs(m.txs)
           [] m.type = "FullyCheckedTxs"     -> handle_fully_checked_txs(m.txs)
           [] m.type = "InvalidTxs"          -> handle_invalid_txs(m.txs, Entries(m.txs))
           [] m.type = "MinedTxs"            -> handle_mined_txs(m.txs)
           [] m.type = "ConfirmedTxs"        -> handle_confirmed_txs(m.txs)
           [] m.type = "Reorganization"      -> handle_reorganization_txs(m.txs, m.height)
           [] m.type = "AttachedTxs"         -> handle_attached_txs(m.txs)

(* Faulty: mined transactions are forgotten; attaching ones start again.   *)
handle_mempool_txs_unmined ==
  LET With(s) == {t \in Txid : mempool[t] = s}
  IN  /\ toChecker' = SendUnlessEmpty(<<>>, IsolatedCheck(StoredTxs(With("Initialized"))))
      /\ toGraph' = SendUnlessEmpty(<<>>, CheckedTxs(StoredTxs(With("Attaching"))))
      /\ toConfirm' = SendUnlessEmpty(<<>>, Txs(With("WaitingMined")))

handle_mempool_txs_again ==
  /\ toChecker' = <<>>
  /\ toGraph' = <<>>
  /\ toConfirm' = SendUnlessEmpty(<<>>, Txs({t \in Txid : mempool[t] # "None"}))

(* handle_mempool_txs: before the first event after a start, every entry   *)
(* of the mempool goes back to the service its status names.               *)
handle_mempool_txs ==
  LET With(s) == {t \in Txid : mempool[t] = s}
  IN  /\ toChecker' = SendUnlessEmpty(<<>>, IsolatedCheck(StoredTxs(With("Initialized"))))
      /\ toGraph' = SendUnlessEmpty(<<>>, CheckedTxs(StoredTxs(With("Attaching"))))
      /\ toConfirm' = SendUnlessEmpty(<<>>, Txs(With("WaitingMined") \cup With("Mined")))

=============================================================================
