---------------------------- MODULE GraphBuilder ----------------------------
(***************************************************************************)
(* crates/tx-attach: the service that attaches a checked transaction once  *)
(* the transactions whose outputs it spends are there.  attach_txs walks   *)
(* over a batch, then over the transactions that waited for members of the *)
(* batch, level by level.  It awaits the storage at every transaction, so  *)
(* it takes one step per transaction and other services run in between.    *)
(*                                                                         *)
(* The storage is only asked whether it has a parent: `present` are the    *)
(* ids it has.  An absent entry of deps or inverse_deps is {}: the code    *)
(* does not tell an empty set from no entry.                               *)
(***************************************************************************)
EXTENDS NodeParameters

VARIABLES
  deps,           \* the parents a transaction waits for
  inverse_deps,   \* the transactions that wait for a parent
  stored_txs,     \* the transactions that wait
  busy,           \* inside attach_txs
  batch,          \* checked_txs still to be walked over
  queued_txs,     \* transactions one of whose parents has been attached
  local_queue,    \* those of the next level
  attached_txs    \* the transactions that this call has attached

graphVars == <<deps, inverse_deps, stored_txs, busy, batch, queued_txs,
               local_queue, attached_txs>>

GraphInit ==
  /\ deps = [t \in Txid |-> {}]
  /\ inverse_deps = [t \in Txid |-> {}]
  /\ stored_txs = {}
  /\ busy = FALSE
  /\ batch = {}
  /\ queued_txs = {}
  /\ local_queue = {}
  /\ attached_txs = {}

-----------------------------------------------------------------------------
(* attach_txs.                                                             *)

attach_txs(txs) ==
  /\ ~busy
  /\ busy' = TRUE
  /\ batch' = txs
  /\ UNCHANGED <<deps, inverse_deps, stored_txs, queued_txs, local_queue,
                 attached_txs>>

(* t is attached, and those that wait for it join the queue.               *)
Attach(t) ==
  /\ attached_txs' = attached_txs \cup {t}
  /\ queued_txs' = queued_txs \cup inverse_deps[t]
  /\ inverse_deps' = [inverse_deps EXCEPT ![t] = {}]

(* Faulty: those that wait for the issuance are not queued.                *)
attach_issue_no_wakeup(t) ==
  /\ attached_txs' = attached_txs \cup {t}
  /\ inverse_deps' = [inverse_deps EXCEPT ![t] = {}]
  /\ UNCHANGED <<deps, stored_txs, local_queue, queued_txs>>

(* An issuance waits for nothing.                                          *)
attach_issue(t) ==
  /\ Attach(t)
  /\ UNCHANGED <<deps, stored_txs, local_queue>>

(* The parents that t still waits for.                                     *)
Missing(parents, present) == parents \ (attached_txs \cup present)

handle_transfer(t, parents, present) ==
  LET missing == Missing(parents, present)
      waits   == deps[t] \cup missing
  IN  \/ /\ waits = {}
         /\ Attach(t)
         /\ UNCHANGED <<deps, stored_txs, local_queue>>
      \/ /\ waits # {}
         /\ deps' = [deps EXCEPT ![t] = waits]
         /\ inverse_deps' =
              [p \in Txid |-> IF p \in missing THEN inverse_deps[p] \cup {t}
                              ELSE inverse_deps[p]]
         /\ stored_txs' = stored_txs \cup {t}
         /\ UNCHANGED <<queued_txs, local_queue, attached_txs>>

(* An exit is attached at once; nobody who waits for it is told.           *)
handle_spark_exit(t) ==
  /\ attached_txs' = attached_txs \cup {t}
  /\ UNCHANGED <<deps, inverse_deps, stored_txs, queued_txs, local_queue>>

skip_announcement ==
  UNCHANGED <<deps, inverse_deps, stored_txs, queued_txs, local_queue, attached_txs>>

(* One turn of the loop over the batch.                                    *)
BatchStep(x, t, kind, parents, present) ==
  /\ busy
  /\ x \in batch
  /\ batch' = batch \ {x}
  /\ CASE kind = "Issue"     -> attach_issue(t)
       [] kind = "Transfer"  -> handle_transfer(t, parents, present)
       [] kind = "SparkExit" -> handle_spark_exit(t)
       [] OTHER              -> skip_announcement
  /\ UNCHANGED busy

(* One turn of the loop over the queue.  A transaction that is not stored  *)
(* although it waits for nothing is what the debug_assert excludes; a      *)
(* release build goes on to the next one.                                  *)
QueueStep(t, present) ==
  LET left  == Missing(deps[t], present)
      woken == left = {} /\ t \in stored_txs
      next  == local_queue \cup (IF woken THEN inverse_deps[t] ELSE {})
      last  == queued_txs = {t}
  IN  /\ busy
      /\ batch = {}
      /\ t \in queued_txs
      /\ deps' = [deps EXCEPT ![t] = left]
      /\ stored_txs' = IF woken THEN stored_txs \ {t} ELSE stored_txs
      /\ attached_txs' = IF woken THEN attached_txs \cup {t} ELSE attached_txs
      /\ inverse_deps' = IF woken THEN [inverse_deps EXCEPT ![t] = {}] ELSE inverse_deps
      /\ queued_txs' = IF last THEN next ELSE queued_txs \ {t}
      /\ local_queue' = IF last THEN {} ELSE next
      /\ UNCHANGED <<busy, batch>>

(* handle_fully_attached_txs, once there is nothing left to do.            *)
AttachDone ==
  /\ busy
  /\ batch = {}
  /\ queued_txs = {}
  /\ busy' = FALSE
  /\ attached_txs' = {}
  /\ UNCHANGED <<deps, inverse_deps, stored_txs, batch, queued_txs, local_queue>>

-----------------------------------------------------------------------------
(* handle_cleanup, for one outdated transaction.                           *)

(* t and all that wait for it, directly or through others.                 *)
Descendants(t) ==
  {u \in Txid : \A S \in SUBSET Txid :
     (t \in S /\ \A p \in S : inverse_deps[p] \subseteq S) => u \in S}

(* The rows that remove_tx_from_deps deletes: those of the transactions    *)
(* removed, and those of the parents that somebody waits for.              *)
Outdated(t) ==
  Descendants(t)
    \cup {p \in Txid : inverse_deps[p] # {} /\ \E u \in Descendants(t) : p \in deps[u]}

(* Faulty: those that wait for t stay, and nobody will wake them.          *)
remove_outdated_tx_alone(t) ==
  /\ ~busy
  /\ t \in stored_txs
  /\ stored_txs' = stored_txs \ {t}
  /\ deps' = [deps EXCEPT ![t] = {}]
  /\ inverse_deps' = [p \in Txid |-> IF p = t THEN {} ELSE inverse_deps[p] \ {t}]
  /\ UNCHANGED <<busy, batch, queued_txs, local_queue, attached_txs>>

remove_outdated_tx(t) ==
  LET removed == Descendants(t)
  IN  /\ ~busy
      /\ t \in stored_txs
      /\ stored_txs' = stored_txs \ removed
      /\ deps' = [u \in Txid |-> IF u \in removed THEN {} ELSE deps[u]]
      /\ inverse_deps' =
           [p \in Txid |-> IF p \in removed THEN {}
                           ELSE {u \in inverse_deps[p] : ~(u \in removed /\ p \in deps[u])}]
      /\ UNCHANGED <<busy, batch, queued_txs, local_queue, attached_txs>>

=============================================================================
