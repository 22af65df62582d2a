----------------------------- MODULE BlockLoader -----------------------------
(***************************************************************************)
(* crates/indexers/src/blockloader: how BitcoinBlockIndexer::init gets the *)
(* missed blocks.  The loader hands the heights of a chunk to workers over *)
(* a bounded channel, collects what they fetched from another one, and     *)
(* sends the sorted chunk to the indexer over a channel with one place.    *)
(* Cancellation, failed fetches and an indexer that gives up can come at   *)
(* any point, while anybody may be waiting for room in a channel.          *)
(*                                                                         *)
(* Only heights matter here: the loader does not look into blocks.  The    *)
(* channels between loader and workers count the events per height; they   *)
(* may be taken in any order.                                              *)
(***************************************************************************)
EXTENDS Integers, FiniteSets, FiniteSetsExt

CONSTANTS
  Worker,         \* workers_number of them
  chunk_size,
  MaxHeight,      \* bound on the heights of a run
  MaxFailures     \* bound on failed requests

ASSUME LoaderAssumption ==
  /\ chunk_size \in Nat \ {0}
  /\ MaxHeight \in Nat
  /\ MaxFailures \in Nat
  /\ IsFiniteSet(Worker)

Height == 0..MaxHeight

Idle == -1        \* a worker waits for a height
Gone == -2        \* its task has ended

VARIABLES
  loader,          \* where BlockLoader::run is
  top,             \* the height of the chain that is to be loaded
  chunk_lo,        \* first height of the chunk
  next,            \* next height that send_load_blocks sends
  load_queue,      \* LoadBlock events on the way to the workers
  worker,          \* the height that a worker fetches
  fetched,         \* Loaded events on the way to the loader
  failed,          \* FailedBlock events on the way to the loader
  loaded_blocks,   \* what the loader has collected
  received_blocks, \* LoadingProgress
  to_indexer,      \* the event in the channel to the indexer, if any
  indexer,         \* handle_initial_blocks: "listens", or how it ended
  indexing,        \* the blocks that it has received and not indexed
  indexer_last_block_height,
  cancelled,
  failures         \* failed requests so far

loaderVars == <<loader, top, chunk_lo, next, loaded_blocks, received_blocks>>
workerVars == <<load_queue, worker, fetched, failed>>
indexerVars == <<to_indexer, indexer, indexing, indexer_last_block_height>>
vars == <<loaderVars, workerVars, indexerVars, cancelled, failures>>

Empty == [h \in Height |-> 0]

Init ==
  /\ loader = "count"
  /\ top \in Height
  /\ indexer_last_block_height \in Height
  /\ chunk_lo = indexer_last_block_height
  /\ next = chunk_lo
  /\ load_queue = Empty
  /\ worker = [w \in Worker |-> Idle]
  /\ fetched = Empty
  /\ failed = Empty
  /\ loaded_blocks = Empty
  /\ received_blocks = 0
  /\ to_indexer = {}
  /\ indexer = "listens"
  /\ indexing = {}
  /\ cancelled = FALSE
  /\ failures = 0

-----------------------------------------------------------------------------
Put(events, h) == [events EXCEPT ![h] = @ + 1]

Take(events, h) == [events EXCEPT ![h] = @ - 1]

Size(events) == MapThenSumSet(LAMBDA h : events[h], Height)

(* Some worker still has the receiving end of load_queue.                  *)
WorkersListen == \E w \in Worker : worker[w] # Gone

(* Last height of the chunk.                                               *)
chunk_hi == IF chunk_lo + chunk_size - 1 < top THEN chunk_lo + chunk_size - 1 ELSE top

Chunk == chunk_lo..chunk_hi

(* The loader's main loop has ended: load_block_sender is dropped.         *)
LoaderLeft == loader \in {"join", "done", "error"}

-----------------------------------------------------------------------------
(* BlockLoader::run.                                                       *)

(* An error of handle_new_blocks is dropped by the select!.                *)
MainLoopFails == loader' = "join"

(* Faulty: the range does not include the last height.                     *)
StartLoading_exclusive ==
  /\ loader = "count"
  /\ loader' = IF chunk_lo < top THEN "send" ELSE "finish"
  /\ UNCHANGED <<top, chunk_lo, next, loaded_blocks, received_blocks, workerVars,
                 indexerVars, cancelled, failures>>

(* get_block_count.                                                        *)
StartLoading ==
  /\ loader = "count"
  /\ \/ /\ loader' = IF chunk_lo <= top THEN "send" ELSE "finish"
        /\ UNCHANGED failures
     \/ /\ failures < MaxFailures
        /\ failures' = failures + 1
        /\ MainLoopFails
  /\ UNCHANGED <<top, chunk_lo, next, loaded_blocks, received_blocks, workerVars,
                 indexerVars, cancelled>>

send_load_blocks ==
  /\ loader = "send"
  /\ \/ /\ WorkersListen
        /\ Size(load_queue) < chunk_size
        /\ load_queue' = Put(load_queue, next)
        /\ next' = next + 1
        /\ loader' = IF next = chunk_hi THEN "collect" ELSE "send"
     \/ /\ ~WorkersListen
        /\ MainLoopFails
        /\ UNCHANGED <<load_queue, next>>
  /\ UNCHANGED <<top, chunk_lo, loaded_blocks, received_blocks, worker, fetched,
                 failed, indexerVars, cancelled, failures>>

(* handle_fetch_event, for a block that has arrived.                       *)
ReceiveLoaded(h) ==
  LET full == received_blocks + 1 = Cardinality(Chunk)
  IN  /\ loader \in {"collect", "drain"}
      /\ fetched[h] > 0
      /\ fetched' = Take(fetched, h)
      /\ loaded_blocks' = Put(loaded_blocks, h)
      /\ IF loader = "collect" /\ full
         THEN loader' = "deliver" /\ received_blocks' = 0
         ELSE received_blocks' = received_blocks + 1 /\ UNCHANGED loader
      /\ UNCHANGED <<top, chunk_lo, next, load_queue, worker, failed, indexerVars,
                     cancelled, failures>>

(* Faulty: a failed height counts as received.                             *)
ResendFailed_dropped(h) ==
  /\ loader \in {"collect", "drain"}
  /\ failed[h] > 0
  /\ failed' = Take(failed, h)
  /\ IF loader = "collect" /\ received_blocks + 1 = Cardinality(Chunk)
     THEN loader' = "deliver" /\ received_blocks' = 0
     ELSE received_blocks' = received_blocks + 1 /\ UNCHANGED loader
  /\ UNCHANGED <<top, chunk_lo, next, load_queue, worker, fetched, loaded_blocks,
                 indexerVars, cancelled, failures>>

(* handle_fetch_event, for a block that could not be fetched.  With no     *)
(* worker left the error ends the main loop, or run itself while draining. *)
ResendFailed(h) ==
  /\ loader \in {"collect", "drain"}
  /\ failed[h] > 0
  /\ failed' = Take(failed, h)
  /\ \/ /\ WorkersListen
        /\ Size(load_queue) < chunk_size
        /\ load_queue' = Put(load_queue, h)
        /\ UNCHANGED loader
     \/ /\ ~WorkersListen
        /\ loader' = IF loader = "collect" THEN "join" ELSE "error"
        /\ UNCHANGED load_queue
  /\ UNCHANGED <<top, chunk_lo, next, loaded_blocks, received_blocks, worker,
                 fetched, indexerVars, cancelled, failures>>

(* recv returns None: every worker is gone and its events are handled.     *)
NothingLeftToReceive ==
  /\ loader \in {"collect", "drain"}
  /\ ~WorkersListen
  /\ fetched = Empty /\ failed = Empty
  /\ loader' = IF loader = "collect" THEN "deliver" ELSE "deliver_rest"
  /\ UNCHANGED <<top, chunk_lo, next, loaded_blocks, received_blocks, workerVars,
                 indexerVars, cancelled, failures>>

Collected == {h \in Height : loaded_blocks[h] > 0}

(* The sorted blocks up to the first gap or repetition.                    *)
Sequential ==
  LET lo == Min(Collected)
  IN  {h \in Height : /\ lo <= h
                      /\ \A k \in lo..h : loaded_blocks[k] > 0
                      /\ \A k \in lo..(h - 1) : loaded_blocks[k] = 1}

LoadedBlocks ==
  [type |-> "LoadedBlocks", blocks |-> IF loaded_blocks = Empty THEN {} ELSE Sequential]

(* A send to the indexer: the channel has one place, and is closed when    *)
(* the indexer no longer listens.                                          *)
SendToIndexer(event) ==
  /\ indexer = "listens"
  /\ to_indexer = {}
  /\ to_indexer' = {event}

(* send_loaded_blocks, and on to the next chunk.                           *)
send_loaded_blocks ==
  /\ loader \in {"deliver", "deliver_rest"}
  /\ \/ /\ SendToIndexer(LoadedBlocks)
        /\ \/ /\ loader = "deliver"
              /\ chunk_lo' = chunk_hi + 1
              /\ next' = chunk_hi + 1
              /\ loader' = IF chunk_hi < top THEN "send" ELSE "finish"
           \/ /\ loader = "deliver_rest"
              /\ loader' = "send_cancelled"
              /\ UNCHANGED <<chunk_lo, next>>
     \/ /\ indexer # "listens"
        /\ loader' = IF loader = "deliver" THEN "join" ELSE "error"
        /\ UNCHANGED <<chunk_lo, next, to_indexer>>
  /\ loaded_blocks' = Empty
  /\ UNCHANGED <<top, received_blocks, workerVars, indexer,
                 indexing, indexer_last_block_height, cancelled, failures>>

(* The last event to the indexer: all blocks are loaded, or cancelled.     *)
SendLastEvent ==
  /\ \/ /\ loader = "finish"
        /\ \/ SendToIndexer([type |-> "FinishLoading"])
           \/ indexer # "listens" /\ UNCHANGED to_indexer
        /\ loader' = "join"
     \/ /\ loader = "send_cancelled"
        /\ \/ SendToIndexer([type |-> "Cancelled"]) /\ loader' = "join"
           \/ indexer # "listens" /\ loader' = "error" /\ UNCHANGED to_indexer
  /\ UNCHANGED <<top, chunk_lo, next, loaded_blocks, received_blocks, workerVars,
                 indexer, indexing, indexer_last_block_height, cancelled, failures>>

(* The cancelled branch of the select!.  A loader that waits for room in   *)
(* the channel to the indexer has drained loaded_blocks: that chunk is     *)
(* lost with the future that held it.                                      *)
LoaderCancelled ==
  /\ cancelled
  /\ loader \in {"count", "send", "collect", "deliver", "finish"}
  /\ loader' = "drain"
  /\ loaded_blocks' = IF loader = "deliver" THEN Empty ELSE loaded_blocks
  /\ UNCHANGED <<top, chunk_lo, next, received_blocks, workerVars, indexerVars,
                 cancelled, failures>>

(* task_tracker.wait.                                                      *)
LoaderEnds ==
  /\ loader = "join"
  /\ ~WorkersListen
  /\ loader' = "done"
  /\ UNCHANGED <<top, chunk_lo, next, loaded_blocks, received_blocks, workerVars,
                 indexerVars, cancelled, failures>>

LoaderStep ==
  \/ StartLoading
  \/ send_load_blocks
  \/ \E h \in Height : ReceiveLoaded(h) \/ ResendFailed(h)
  \/ NothingLeftToReceive
  \/ send_loaded_blocks
  \/ SendLastEvent
  \/ LoaderCancelled
  \/ LoaderEnds

-----------------------------------------------------------------------------
(* Worker::run.                                                            *)

WorkerTakes(w, h) ==
  /\ worker[w] = Idle
  /\ load_queue[h] > 0
  /\ load_queue' = Take(load_queue, h)
  /\ worker' = [worker EXCEPT ![w] = h]
  /\ UNCHANGED <<loaderVars, fetched, failed, indexerVars, cancelled, failures>>

(* handle_load_event: the answer goes to the loader, which may be gone.    *)
handle_load_event(w) ==
  LET h == worker[w]
  IN  /\ h \in Height
      /\ \/ /\ loader \notin {"done", "error"}
            /\ Size(fetched) + Size(failed) < chunk_size
            /\ \/ fetched' = Put(fetched, h) /\ UNCHANGED <<failed, failures>>
               \/ /\ failures < MaxFailures
                  /\ failures' = failures + 1
                  /\ failed' = Put(failed, h)
                  /\ UNCHANGED fetched
            /\ worker' = [worker EXCEPT ![w] = Idle]
         \/ /\ loader \in {"done", "error"}
            /\ worker' = [worker EXCEPT ![w] = Gone]
            /\ UNCHANGED <<fetched, failed, failures>>
      /\ UNCHANGED <<loaderVars, load_queue, indexerVars, cancelled>>

(* Faulty: load_block_sender is still there while the loader waits.        *)
WorkerEnds_onlyCancelled(w) ==
  /\ worker[w] = Idle
  /\ cancelled
  /\ worker' = [worker EXCEPT ![w] = Gone]
  /\ UNCHANGED <<loaderVars, load_queue, fetched, failed, indexerVars, cancelled,
                 failures>>

(* The worker sees the cancellation, or that no height will come.          *)
WorkerEnds(w) ==
  /\ worker[w] = Idle
  /\ cancelled \/ (LoaderLeft /\ load_queue = Empty)
  /\ worker' = [worker EXCEPT ![w] = Gone]
  /\ UNCHANGED <<loaderVars, load_queue, fetched, failed, indexerVars, cancelled,
                 failures>>

WorkerStep(w) ==
  (\E h \in Height : WorkerTakes(w, h)) \/ handle_load_event(w) \/ WorkerEnds(w)

-----------------------------------------------------------------------------
(* BitcoinBlockIndexer::handle_initial_blocks.                             *)

(* recv: an event, or None when the loader has dropped its sender.         *)
handle_initial_blocks ==
  /\ indexer = "listens"
  /\ indexing = {}
  /\ \/ \E e \in to_indexer :
          \/ e.type = "LoadedBlocks" /\ indexing' = e.blocks /\ UNCHANGED indexer
          \/ e.type = "FinishLoading" /\ indexer' = "ok" /\ UNCHANGED indexing
          \/ e.type = "Cancelled" /\ indexer' = "error" /\ UNCHANGED indexing
     \/ /\ to_indexer = {}
        /\ loader \in {"done", "error"}
        /\ indexer' = "closed"
        /\ UNCHANGED indexing
  /\ to_indexer' = {}
  /\ UNCHANGED <<indexer_last_block_height, loaderVars, workerVars, cancelled, failures>>

(* init_blocks_handle, for one block: it continues what is indexed, or     *)
(* does not, or index_block fails.                                         *)
init_blocks_handle ==
  /\ indexer = "listens"
  /\ indexing # {}
  /\ \/ /\ Min(indexing) = indexer_last_block_height
        /\ indexer_last_block_height' = indexer_last_block_height + 1
        /\ indexing' = indexing \ {Min(indexing)}
        /\ UNCHANGED <<indexer, failures>>
     \/ /\ Min(indexing) # indexer_last_block_height
        /\ indexer' = "gap"
        /\ indexing' = {}
        /\ UNCHANGED <<indexer_last_block_height, failures>>
     \/ /\ failures < MaxFailures
        /\ failures' = failures + 1
        /\ indexer' = "error"
        /\ indexing' = {}
        /\ UNCHANGED indexer_last_block_height
  /\ UNCHANGED <<to_indexer, loaderVars, workerVars, cancelled>>

IndexerStep == handle_initial_blocks \/ init_blocks_handle

Cancel ==
  /\ ~cancelled
  /\ cancelled' = TRUE
  /\ UNCHANGED <<loaderVars, workerVars, indexerVars, failures>>

(* init is over: both tasks have ended.                                    *)
InitOver == loader \in {"done", "error"} /\ indexer # "listens"

(* The restart or the first poll comes after.                              *)
Finished == InitOver /\ ~WorkersListen /\ UNCHANGED vars

Next ==
  \/ LoaderStep
  \/ \E w \in Worker : WorkerStep(w)
  \/ IndexerStep
  \/ Cancel
  \/ Finished

Spec == Init /\ [][Next]_vars

(* The loader, the workers and the indexer are tasks of the runtime, and a *)
(* request is answered; nothing is assumed of cancellation and failures.   *)
Fairness ==
  /\ WF_vars(LoaderStep)
  /\ \A w \in Worker : WF_vars(WorkerStep(w))
  /\ WF_vars(IndexerStep)

FairSpec == Spec /\ Fairness

-----------------------------------------------------------------------------
(* Properties.                                                             *)

Bag == [Height -> Nat]

IndexBlocksEvent ==
  [type : {"LoadedBlocks"}, blocks : SUBSET Height] \cup [type : {"FinishLoading", "Cancelled"}]

(* Every variable has the type of what it models.                          *)
TypeOK ==
  /\ loader \in {"count", "send", "collect", "deliver", "finish", "drain",
                 "deliver_rest", "send_cancelled", "join", "done", "error"}
  /\ top \in Height /\ chunk_lo \in Nat /\ next \in Nat
  /\ load_queue \in Bag /\ fetched \in Bag /\ failed \in Bag /\ loaded_blocks \in Bag
  /\ worker \in [Worker -> Height \cup {Idle, Gone}]
  /\ received_blocks \in Nat
  /\ to_indexer \subseteq IndexBlocksEvent
  /\ indexer \in {"listens", "ok", "closed", "error", "gap"}
  /\ indexing \subseteq Height
  /\ indexer_last_block_height \in Nat
  /\ cancelled \in BOOLEAN /\ failures \in 0..MaxFailures

(* The places where a height can be.                                       *)
Outside(h) == load_queue[h] + fetched[h] + failed[h] + loaded_blocks[h]

(* A height is in at most one place, and not in another while a worker has *)
(* it: "The Workers receive unique block height".  Counting the blocks of  *)
(* a chunk tells that it is complete only because of this.                 *)
EachHeightOnce ==
  \A h \in Height :
    /\ Outside(h) <= 1
    /\ \A w \in Worker : worker[w] = h => Outside(h) = 0
    /\ \A v, w \in Worker : worker[v] = h /\ worker[w] = h => v = w

(* The indexer finds the blocks out of sequence only after a cancellation. *)
NoGap == indexer = "gap" => cancelled

(* Unless cancelled, the indexer is told that the loading is finished only *)
(* after it has indexed every block, whatever was fetched in what order    *)
(* and how often.                                                          *)
FinishedMeansIndexed ==
  indexer = "ok" /\ ~cancelled => indexer_last_block_height > top

(* Init ends, whatever fails and whenever it is cancelled: loader, workers *)
(* and indexer never wait for each other in a circle.                      *)
InitEnds == <>InitOver

=============================================================================
