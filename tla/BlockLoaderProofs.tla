-------------------------- MODULE BlockLoaderProofs --------------------------
(***************************************************************************)
(* The block loader for every number of workers, chunk size and height.    *)
(*                                                                         *)
(* UniqueInv: a height is in one place.  It holds because heights are      *)
(* handed out in increasing order and every other step moves one.          *)
(*                                                                         *)
(* DeliveryInv: until somebody cancels, nothing that was handed out is     *)
(* lost, so that the count of received blocks is the size of the set of    *)
(* heights that have arrived, and the heights on the way to the indexer    *)
(* continue what it has indexed.                                           *)
(***************************************************************************)
EXTENDS BlockLoader, FiniteSetTheorems, TLAPS

(* A height that has not been handed out is nowhere.                       *)
NotHandedOut ==
  \A h \in Height : h >= next => Outside(h) = 0 /\ \A w \in Worker : worker[w] # h

(* Where the loader is in the chunk.                                       *)
Position ==
  /\ loader \in {"count", "finish"} => next = chunk_lo
  /\ loader = "send" => chunk_lo <= next /\ next <= chunk_hi
  /\ loader \in {"collect", "deliver"} => next = chunk_hi + 1 /\ chunk_lo <= chunk_hi
  /\ loader = "finish" => chunk_lo > top

UniqueInv == TypeOK /\ NotHandedOut /\ Position /\ EachHeightOnce

USE LoaderAssumption

(* An event added to a channel.                                            *)
LEMMA PutOne ==
  ASSUME NEW events \in Bag, NEW h \in Height
  PROVE  /\ Put(events, h) \in Bag
         /\ \A k \in Height : Put(events, h)[k] = IF k = h THEN events[k] + 1 ELSE events[k]
BY DEF Put, Bag

(* An event taken from a channel.                                          *)
LEMMA TakeOne ==
  ASSUME NEW events \in Bag, NEW h \in Height, events[h] > 0
  PROVE  /\ Take(events, h) \in Bag
         /\ \A k \in Height : Take(events, h)[k] = IF k = h THEN events[k] - 1 ELSE events[k]
BY DEF Take, Bag

(* A chunk lies between its first height and the height of the chain.      *)
LEMMA ChunkEnd ==
  ASSUME TypeOK
  PROVE  /\ chunk_hi \in Int
         /\ chunk_hi <= top
         /\ chunk_lo <= top => chunk_lo <= chunk_hi
BY DEF TypeOK, chunk_hi, Height

LEMMA EmptyBag ==
  Empty \in Bag /\ \A h \in Height : Empty[h] = 0
BY Zenon DEF Empty, Bag

(* The blocks sent to the indexer are heights.                             *)
LEMMA LoadedBlocksType ==
  ASSUME TypeOK
  PROVE  LoadedBlocks \in IndexBlocksEvent
BY Zenon DEF LoadedBlocks, Sequential, IndexBlocksEvent

-----------------------------------------------------------------------------
(* What UniqueInv says of one height.                                      *)
PlaceOf(h) ==
  /\ Outside(h) \in {0, 1}
  /\ \A w \in Worker : worker[w] = h => Outside(h) = 0
  /\ \A v, w \in Worker : worker[v] = h /\ worker[w] = h => v = w
  /\ h >= next => Outside(h) = 0 /\ \A w \in Worker : worker[w] # h

LEMMA Counts ==
  ASSUME TypeOK, NEW h \in Height
  PROVE  /\ load_queue[h] \in Nat /\ fetched[h] \in Nat /\ failed[h] \in Nat
         /\ loaded_blocks[h] \in Nat /\ Outside(h) \in Nat
BY DEF TypeOK, Bag, Outside

LEMMA ByHeight ==
  ASSUME TypeOK
  PROVE  NotHandedOut /\ EachHeightOnce <=> \A h \in Height : PlaceOf(h)
<1>1. ASSUME NEW h \in Height
      PROVE  Outside(h) \in {0, 1} <=> Outside(h) <= 1
  <2>1. Outside(h) \in Nat
    BY Zenon, Counts
  <2> QED
    BY <2>1
<1> QED
  BY Zenon, <1>1 DEF NotHandedOut, EachHeightOnce, PlaceOf

LEMMA ByHeightNext ==
  ASSUME TypeOK'
  PROVE  NotHandedOut' /\ EachHeightOnce' <=> \A h \in Height : PlaceOf(h)'
<1>1. ASSUME NEW h \in Height
      PROVE  Outside(h)' \in {0, 1} <=> Outside(h)' <= 1
  BY DEF TypeOK, Bag, Outside
<1> QED
  BY Zenon, <1>1 DEF NotHandedOut, EachHeightOnce, PlaceOf

(* No height comes to a worker, and none appears outside of them.          *)
LEMMA Keeps ==
  ASSUME UniqueInv, TypeOK', Position',
         next' >= next,
         \A h \in Height : Outside(h)' <= Outside(h),
         \A w \in Worker : worker'[w] \in {worker[w], Idle, Gone}
  PROVE  UniqueInv'
<1>1. ASSUME NEW h \in Height
      PROVE  PlaceOf(h)'
  <2>1. PlaceOf(h) /\ h \in Nat /\ next \in Nat /\ next' \in Nat
    BY ByHeight DEF UniqueInv, TypeOK, Height
  <2>2. Outside(h)' \in Nat
    BY DEF TypeOK, Bag, Outside
  <2>3. Outside(h)' \in {0, 1} /\ (Outside(h) = 0 => Outside(h)' = 0)
    BY <2>1, <2>2 DEF PlaceOf
  <2>4. \A w \in Worker : worker'[w] = h => worker[w] = h
    BY <2>1 DEF Idle, Gone
  <2> QED
    BY <2>1, <2>3, <2>4 DEF PlaceOf
<1> QED
  BY Zenon, <1>1, ByHeightNext DEF UniqueInv

-----------------------------------------------------------------------------
(* Handing out the next height.                                            *)
LEMMA HandsOut ==
  ASSUME UniqueInv, send_load_blocks
  PROVE  UniqueInv'
<1>1. next \in Height
  BY ChunkEnd DEF UniqueInv, TypeOK, Position, send_load_blocks, Height
<1>2. CASE WorkersListen /\ load_queue' = Put(load_queue, next) /\ next' = next + 1
           /\ loader' = IF next = chunk_hi THEN "collect" ELSE "send"
  <2>1. TypeOK'
    BY <1>1, <1>2, PutOne DEF UniqueInv, TypeOK, send_load_blocks, indexerVars
  <2>2. Position'
    BY <1>1, <1>2, ChunkEnd
    DEF UniqueInv, TypeOK, Position, send_load_blocks, chunk_hi, Height
  <2>3. ASSUME NEW h \in Height
        PROVE  PlaceOf(h)'
    <3>1. PlaceOf(h) /\ UNCHANGED worker /\ h \in Nat /\ next \in Nat
      BY ByHeight DEF UniqueInv, TypeOK, send_load_blocks, Height
    <3>2. Outside(h)' = IF h = next THEN Outside(h) + 1 ELSE Outside(h)
      <4>1. load_queue'[h] = IF h = next THEN load_queue[h] + 1 ELSE load_queue[h]
        BY Zenon, <1>1, <1>2, PutOne DEF UniqueInv, TypeOK
      <4>2. UNCHANGED <<fetched, failed, loaded_blocks>>
        BY Zenon DEF send_load_blocks
      <4> QED
        BY <4>1, <4>2, Counts DEF UniqueInv, Outside
    <3> QED
      BY <1>2, <3>1, <3>2 DEF PlaceOf
  <2> QED
    BY Zenon, <2>1, <2>2, <2>3, ByHeightNext DEF UniqueInv
<1>3. CASE loader' = "join" /\ UNCHANGED <<load_queue, next>>
  BY Zenon, <1>3 DEF UniqueInv, TypeOK, NotHandedOut, Position, EachHeightOnce, Outside,
              send_load_blocks, indexerVars, chunk_hi
<1> QED
  BY Zenon, <1>2, <1>3 DEF send_load_blocks, MainLoopFails

(* The loader takes a block, or sends a failed height back.                *)
LEMMA Handles ==
  ASSUME UniqueInv, NEW h \in Height, ReceiveLoaded(h) \/ ResendFailed(h)
  PROVE  UniqueInv'
<1>1. CASE ReceiveLoaded(h)
  <2>1. TypeOK'
    BY <1>1, PutOne, TakeOne DEF UniqueInv, TypeOK, ReceiveLoaded, indexerVars
  <2>2. Position'
    BY Zenon, <1>1 DEF UniqueInv, TypeOK, Position, ReceiveLoaded, chunk_hi
  <2>3. ASSUME NEW k \in Height
        PROVE  Outside(k)' <= Outside(k)
    <3>1. fetched'[k] = IF k = h THEN fetched[k] - 1 ELSE fetched[k]
      BY Zenon, <1>1, TakeOne DEF UniqueInv, TypeOK, ReceiveLoaded
    <3>2. loaded_blocks'[k] = IF k = h THEN loaded_blocks[k] + 1 ELSE loaded_blocks[k]
      BY Zenon, <1>1, PutOne DEF UniqueInv, TypeOK, ReceiveLoaded
    <3>3. UNCHANGED <<load_queue, failed>>
      BY Zenon, <1>1 DEF ReceiveLoaded
    <3> QED
      BY <3>1, <3>2, <3>3, Counts DEF UniqueInv, Outside
  <2> QED
    BY <1>1, <2>1, <2>2, <2>3, Keeps DEF UniqueInv, TypeOK, ReceiveLoaded
<1>2. CASE ResendFailed(h)
  <2>1. TypeOK'
    BY <1>2, PutOne, TakeOne DEF UniqueInv, TypeOK, ResendFailed, indexerVars
  <2>2. Position'
    BY Zenon, <1>2 DEF UniqueInv, TypeOK, Position, ResendFailed, chunk_hi
  <2>3. ASSUME NEW k \in Height
        PROVE  Outside(k)' <= Outside(k)
    <3>1. failed'[k] = IF k = h THEN failed[k] - 1 ELSE failed[k]
      BY Zenon, <1>2, TakeOne DEF UniqueInv, TypeOK, ResendFailed
    <3>2. UNCHANGED <<fetched, loaded_blocks>> /\ load_queue' \in {Put(load_queue, h), load_queue}
      BY Zenon, <1>2 DEF ResendFailed
    <3>3. Put(load_queue, h)[k] = IF k = h THEN load_queue[k] + 1 ELSE load_queue[k]
      BY Zenon, PutOne DEF UniqueInv, TypeOK
    <3> QED
      BY <3>1, <3>2, <3>3, Counts DEF UniqueInv, Outside
  <2> QED
    BY <1>2, <2>1, <2>2, <2>3, Keeps DEF UniqueInv, TypeOK, ResendFailed
<1> QED
  BY Zenon, <1>1, <1>2

(* A worker takes a height.                                                *)
LEMMA Takes ==
  ASSUME UniqueInv, NEW w \in Worker, NEW h \in Height, WorkerTakes(w, h)
  PROVE  UniqueInv'
<1>1. TypeOK'
  BY Zenon, TakeOne DEF UniqueInv, TypeOK, WorkerTakes, loaderVars, indexerVars
<1>2. Position'
  BY Zenon DEF UniqueInv, TypeOK, Position, WorkerTakes, loaderVars, chunk_hi
<1>3. ASSUME NEW k \in Height
      PROVE  PlaceOf(k)'
  <2>1. /\ PlaceOf(k) /\ PlaceOf(h) /\ next' = next
        /\ worker' = [worker EXCEPT ![w] = h] /\ worker \in [Worker -> Height \cup {Idle, Gone}]
    BY Zenon, ByHeight DEF UniqueInv, TypeOK, WorkerTakes, loaderVars
  <2>2. Outside(k)' = IF k = h THEN Outside(k) - 1 ELSE Outside(k)
    <3>1. load_queue'[k] = IF k = h THEN load_queue[k] - 1 ELSE load_queue[k]
      BY Zenon, TakeOne DEF UniqueInv, TypeOK, WorkerTakes
    <3>2. UNCHANGED <<fetched, failed, loaded_blocks>>
      BY Zenon DEF WorkerTakes, loaderVars
    <3> QED
      BY <3>1, <3>2, Counts DEF UniqueInv, Outside
  <2>3. Outside(h) = 1
    BY <2>1, Counts DEF UniqueInv, PlaceOf, Outside, WorkerTakes
  <2>4. \A v \in Worker : worker[v] # h
    BY <2>1, <2>3 DEF PlaceOf
  <2>5. CASE k = h
    BY <2>1, <2>2, <2>3, <2>4, <2>5 DEF PlaceOf
  <2>6. CASE k # h
    BY Zenon, <2>1, <2>2, <2>6 DEF PlaceOf
  <2> QED
    BY Zenon, <2>5, <2>6
<1> QED
  BY Zenon, <1>1, <1>2, <1>3, ByHeightNext DEF UniqueInv

(* A worker returns its height, as a block or as failed, or ends.          *)
LEMMA Returns ==
  ASSUME UniqueInv, NEW w \in Worker, handle_load_event(w)
  PROVE  UniqueInv'
<1> DEFINE k == worker[w]
<1>1. /\ k \in Height
      /\ UNCHANGED <<loader, top, chunk_lo, next, loaded_blocks, received_blocks,
                     load_queue, to_indexer, indexer, indexing,
                     indexer_last_block_height, cancelled>>
  BY Zenon DEF handle_load_event, loaderVars, indexerVars
<1>2. Position'
  BY Zenon, <1>1 DEF UniqueInv, Position, chunk_hi
<1>3. CASE /\ worker' = [worker EXCEPT ![w] = Idle]
           /\ \/ fetched' = Put(fetched, k) /\ UNCHANGED <<failed, failures>>
              \/ /\ failed' = Put(failed, k) /\ UNCHANGED fetched
                 /\ failures < MaxFailures /\ failures' = failures + 1
  <2>1. TypeOK'
    BY <1>1, <1>3, PutOne DEF UniqueInv, TypeOK
  <2>2. ASSUME NEW h \in Height
        PROVE  PlaceOf(h)'
    <3>1. PlaceOf(h) /\ PlaceOf(k) /\ worker \in [Worker -> Height \cup {Idle, Gone}]
      BY Zenon, <1>1, ByHeight DEF UniqueInv, TypeOK
    <3>2. Outside(h)' = IF h = k THEN Outside(h) + 1 ELSE Outside(h)
      <4>1. fetched \in Bag /\ failed \in Bag
        BY Zenon DEF UniqueInv, TypeOK
      <4>2. CASE fetched' = Put(fetched, k) /\ UNCHANGED failed
        <5>1. fetched'[h] = IF h = k THEN fetched[h] + 1 ELSE fetched[h]
          BY Zenon, <1>1, <4>1, <4>2, PutOne
        <5>2. UNCHANGED <<load_queue, loaded_blocks>>
          BY Zenon, <1>1
        <5> HIDE DEF k
        <5> QED
          BY <4>2, <5>1, <5>2, Counts DEF UniqueInv, Outside
      <4>3. CASE failed' = Put(failed, k) /\ UNCHANGED fetched
        <5>1. failed'[h] = IF h = k THEN failed[h] + 1 ELSE failed[h]
          BY Zenon, <1>1, <4>1, <4>3, PutOne
        <5>2. UNCHANGED <<load_queue, loaded_blocks>>
          BY Zenon, <1>1
        <5> HIDE DEF k
        <5> QED
          BY <4>3, <5>1, <5>2, Counts DEF UniqueInv, Outside
      <4> QED
        BY Zenon, <1>3, <4>2, <4>3
    <3>3. h # Idle
      BY DEF Height, Idle
    <3>4. Outside(k) = 0 /\ ~(k >= next)
      BY Zenon, <3>1 DEF PlaceOf
    <3>5. CASE h = k
      <4>1. \A v \in Worker : worker'[v] # h
        BY Zenon, <1>3, <3>1, <3>3, <3>5 DEF PlaceOf
      <4> QED
        BY <1>1, <3>2, <3>4, <3>5, <4>1 DEF PlaceOf
    <3>6. CASE h # k
      BY Zenon, <1>1, <1>3, <3>1, <3>2, <3>3, <3>6 DEF PlaceOf
    <3> QED
      BY Zenon, <3>5, <3>6
  <2> QED
    BY Zenon, <1>2, <2>1, <2>2, ByHeightNext DEF UniqueInv
<1>4. CASE worker' = [worker EXCEPT ![w] = Gone] /\ UNCHANGED <<fetched, failed, failures>>
  <2>1. TypeOK'
    BY Zenon, <1>1, <1>4 DEF UniqueInv, TypeOK
  <2>2. \A h \in Height : Outside(h)' <= Outside(h)
    BY <1>1, <1>4, Counts DEF UniqueInv, Outside
  <2> QED
    BY <1>1, <1>2, <1>4, <2>1, <2>2, Keeps DEF UniqueInv, TypeOK
<1> QED
  BY Zenon, <1>3, <1>4 DEF handle_load_event

(* The steps that touch no channel between loader and workers.             *)
LEMMA KeepsPlaces ==
  ASSUME UniqueInv, TypeOK', Position',
         next' >= next,
         UNCHANGED <<load_queue, fetched, failed>>,
         loaded_blocks' \in {loaded_blocks, Empty},
         \A w \in Worker : worker'[w] \in {worker[w], Gone}
  PROVE  UniqueInv'
<1>1. ASSUME NEW h \in Height
      PROVE  Outside(h)' <= Outside(h)
  BY EmptyBag, Counts DEF UniqueInv, Outside
<1> QED
  BY Zenon, <1>1, Keeps

(* UniqueInv is inductive.                                                 *)
LEMMA UniqueStep ==
  ASSUME UniqueInv, [Next]_vars
  PROVE  UniqueInv'
<1>1. CASE StartLoading
  <2>1. TypeOK'
    BY <1>1 DEF UniqueInv, TypeOK, StartLoading, MainLoopFails, workerVars, indexerVars
  <2>2. chunk_lo <= top => chunk_lo <= chunk_hi
    BY Zenon, ChunkEnd DEF UniqueInv
  <2>3. chunk_lo \in Nat /\ top \in Nat /\ chunk_hi' = chunk_hi
    BY <1>1 DEF UniqueInv, TypeOK, Height, StartLoading, chunk_hi
  <2>4. Position'
    BY <1>1, <2>2, <2>3 DEF UniqueInv, Position, StartLoading, MainLoopFails
  <2> QED
    BY <1>1, <2>1, <2>4, KeepsPlaces DEF UniqueInv, TypeOK, StartLoading, workerVars
<1>2. CASE NothingLeftToReceive
  <2>1. TypeOK' /\ Position'
    BY Zenon, <1>2 DEF UniqueInv, TypeOK, Position, NothingLeftToReceive, workerVars, indexerVars,
                chunk_hi
  <2> QED
    BY <1>2, <2>1, KeepsPlaces DEF UniqueInv, TypeOK, NothingLeftToReceive, workerVars
<1>3. CASE send_loaded_blocks
  <2>1. TypeOK'
    BY Zenon, <1>3, LoadedBlocksType, EmptyBag, ChunkEnd
    DEF UniqueInv, TypeOK, Position, send_loaded_blocks, SendToIndexer, workerVars, Height
  <2>2. Position' /\ next' >= next
    BY <1>3, ChunkEnd
    DEF UniqueInv, TypeOK, Position, send_loaded_blocks, chunk_hi, Height
  <2> QED
    BY Zenon, <1>3, <2>1, <2>2, KeepsPlaces DEF UniqueInv, TypeOK, send_loaded_blocks, workerVars
<1>4. CASE SendLastEvent
  <2>1. TypeOK' /\ Position'
    BY <1>4 DEF UniqueInv, TypeOK, Position, SendLastEvent, SendToIndexer, workerVars,
                IndexBlocksEvent, chunk_hi
  <2> QED
    BY <1>4, <2>1, KeepsPlaces DEF UniqueInv, TypeOK, SendLastEvent, workerVars
<1>5. CASE LoaderCancelled \/ LoaderEnds
  <2>1. TypeOK' /\ Position'
    BY Zenon, <1>5, EmptyBag DEF UniqueInv, TypeOK, Position, LoaderCancelled, LoaderEnds,
                workerVars, indexerVars, chunk_hi
  <2> QED
    BY <1>5, <2>1, KeepsPlaces DEF UniqueInv, TypeOK, LoaderCancelled, LoaderEnds, workerVars
<1>6. ASSUME NEW w \in Worker, WorkerEnds(w)
      PROVE  UniqueInv'
  <2>1. TypeOK' /\ Position'
    BY Zenon, <1>6 DEF UniqueInv, TypeOK, Position, WorkerEnds, loaderVars, indexerVars, chunk_hi
  <2> QED
    BY <1>6, <2>1, KeepsPlaces DEF UniqueInv, TypeOK, WorkerEnds, loaderVars
<1>7. CASE IndexerStep
  <2>1. TypeOK' /\ Position'
    BY <1>7 DEF UniqueInv, TypeOK, Position, IndexerStep, handle_initial_blocks,
                init_blocks_handle, loaderVars, workerVars, IndexBlocksEvent, chunk_hi
  <2> QED
    BY <1>7, <2>1, KeepsPlaces DEF UniqueInv, TypeOK, IndexerStep, handle_initial_blocks,
                init_blocks_handle, loaderVars, workerVars
<1>8. CASE Cancel \/ Finished \/ UNCHANGED vars
  <2>1. TypeOK' /\ Position'
    BY Zenon, <1>8 DEF UniqueInv, TypeOK, Position, Cancel, Finished, vars, loaderVars,
                workerVars, indexerVars, chunk_hi
  <2> QED
    BY <1>8, <2>1, KeepsPlaces DEF UniqueInv, TypeOK, Cancel, Finished, vars, loaderVars, workerVars
<1>9. ASSUME NEW h \in Height, ReceiveLoaded(h) \/ ResendFailed(h)
      PROVE  UniqueInv'
  BY Zenon, <1>9, Handles
<1>10. ASSUME NEW w \in Worker, WorkerStep(w)
       PROVE  UniqueInv'
  BY Zenon, <1>6, <1>10, Takes, Returns DEF WorkerStep
<1> QED
  BY Zenon, <1>1, <1>2, <1>3, <1>4, <1>5, <1>7, <1>8, <1>9, <1>10, HandsOut DEF Next, LoaderStep

LEMMA UniqueInit == Init => UniqueInv
<1> SUFFICES ASSUME Init PROVE UniqueInv
  BY Zenon
<1>1. TypeOK
  <2>1. top \in Height /\ chunk_lo \in Nat /\ next \in Nat
        /\ indexer_last_block_height \in Nat /\ failures \in 0..MaxFailures
    BY DEF Init, Height
  <2>2. worker \in [Worker -> Height \cup {Idle, Gone}]
    BY Zenon DEF Init
  <2> QED
    BY Zenon, <2>1, <2>2, EmptyBag DEF Init, TypeOK
<1>2. Position
  BY Zenon DEF Init, Position
<1>3. ASSUME NEW h \in Height
      PROVE  PlaceOf(h)
  <2>1. Outside(h) = 0
    BY EmptyBag DEF Init, Outside
  <2>2. \A w \in Worker : worker[w] # h
    BY DEF Init, Height, Idle
  <2> QED
    BY Zenon, <2>1, <2>2 DEF PlaceOf
<1> QED
  BY Zenon, <1>1, <1>2, <1>3, ByHeight DEF UniqueInv

(* "The Workers receive unique block height": no height is ever fetched,   *)
(* queued or collected twice, through failures, retries and cancellation.  *)
THEOREM UniqueHeights == Spec => []EachHeightOnce
<1>1. UniqueInv /\ [Next]_vars => UniqueInv'
  BY Zenon, UniqueStep
<1>2. UniqueInv => EachHeightOnce
  BY Zenon DEF UniqueInv
<1> QED
  BY UniqueInit, <1>1, <1>2, PTL DEF Spec

-----------------------------------------------------------------------------
(* handle_new_blocks is running.                                           *)
InLoop == loader \in {"count", "send", "collect", "deliver", "finish"}

(* A height is somewhere exactly when it is of this chunk and handed out.  *)
Present(h) ==
  IF h \in chunk_lo..(next - 1)
  THEN Outside(h) = 1 \/ \E w \in Worker : worker[w] = h
  ELSE Outside(h) = 0 /\ \A w \in Worker : worker[w] # h

(* Nothing is lost, the count is right, and the workers stay.              *)
Complete ==
  /\ InLoop \/ loader \in {"join", "done"}
  /\ InLoop => /\ \A w \in Worker : worker[w] # Gone
               /\ \A h \in Height : Present(h)
  /\ loader = "collect" => Worker # {}
  /\ InLoop /\ loader # "deliver" => received_blocks = Cardinality(Collected)
  /\ loader = "deliver" => received_blocks = 0 /\ Collected = Chunk

(* The indexer has the blocks below indexer_last_block_height, those below *)
(* m in hand, and the rest up to the chunk of the loader in its channel.   *)
OnTheWay(m) ==
  /\ indexing = indexer_last_block_height..(m - 1)
  /\ indexer_last_block_height <= m
  /\ m <= chunk_lo
  /\ \/ to_indexer = {} /\ m = chunk_lo
     \/ to_indexer = {[type |-> "LoadedBlocks", blocks |-> m..(chunk_lo - 1)]}
     \/ to_indexer = {[type |-> "FinishLoading"]} /\ m = chunk_lo /\ m > top
                                                /\ ~InLoop

InSequence ==
  /\ indexer = "listens" => \E m \in Nat : OnTheWay(m)
  /\ indexer = "ok" => indexer_last_block_height > top
  /\ indexer # "gap"

DeliveryInv == UniqueInv /\ (~cancelled => Complete /\ InSequence)

LEMMA FiniteHeights ==
  /\ IsFiniteSet(Height)
  /\ \A S \in SUBSET Height : IsFiniteSet(S) /\ Cardinality(S) \in Nat
<1>1. IsFiniteSet(Height)
  BY FS_Interval DEF Height
<1> QED
  BY Zenon, <1>1, FS_Subset, FS_CardinalityType

(* A chunk of which as many blocks have arrived as it has is complete.     *)
LEMMA FullChunk ==
  ASSUME TypeOK, NEW S \in SUBSET Chunk, Cardinality(S) = Cardinality(Chunk)
  PROVE  S = Chunk
<1>1. Chunk \subseteq Height
  BY ChunkEnd DEF TypeOK, Chunk, Height
<1> QED
  BY Zenon, <1>1, FiniteHeights, FS_Subset

(* The first of an interval.                                               *)
LEMMA MinInterval ==
  ASSUME NEW a \in Int, NEW b \in Int, a <= b
  PROVE  Min(a..b) = a
<1>1. a \in a..b /\ \A y \in a..b : a <= y
  OBVIOUS
<1>2. \A x \in a..b : (\A y \in a..b : x <= y) => x = a
  BY <1>1
<1> QED
  BY Zenon, <1>1, <1>2 DEF Min

LEMMA IntervalTail ==
  ASSUME NEW a \in Int, NEW b \in Int
  PROVE  (a..b) \ {a} = (a + 1)..b
OBVIOUS

(* A chunk that is complete is sent as it is.                              *)
LEMMA WholeChunkSent ==
  ASSUME UniqueInv, Collected = Chunk, chunk_lo <= chunk_hi
  PROVE  LoadedBlocks = [type |-> "LoadedBlocks", blocks |-> Chunk]
<1>1. chunk_lo \in Nat /\ chunk_hi \in Int /\ Chunk \subseteq Height
  BY ChunkEnd DEF UniqueInv, TypeOK, Chunk, Height
<1>2. Min(Collected) = chunk_lo
  BY <1>1, MinInterval DEF Chunk
<1>3. \A h \in Height : loaded_blocks[h] > 0 <=> h \in Chunk
  BY Zenon DEF Collected
<1>4. ASSUME NEW h \in Height
      PROVE  loaded_blocks[h] \in {0, 1}
  <2>1. Outside(h) <= 1
    BY Zenon DEF UniqueInv, EachHeightOnce
  <2>2. /\ load_queue[h] \in Nat /\ fetched[h] \in Nat /\ failed[h] \in Nat
        /\ loaded_blocks[h] \in Nat
    BY Zenon, Counts DEF UniqueInv
  <2> QED
    BY <2>1, <2>2 DEF Outside
<1>5. loaded_blocks # Empty
  BY <1>1, <1>3, EmptyBag DEF Chunk
<1>6. Sequential = Chunk
  <2>1. \A h : h \in Sequential <=>
                /\ h \in Height /\ chunk_lo <= h
                /\ \A k \in chunk_lo..h : loaded_blocks[k] > 0
                /\ \A k \in chunk_lo..(h - 1) : loaded_blocks[k] = 1
    BY Zenon, <1>2 DEF Sequential
  <2>2. ASSUME NEW h \in Sequential
        PROVE  h \in Chunk
    BY <1>3, <2>1 DEF Height
  <2>3. ASSUME NEW h \in Chunk
        PROVE  h \in Sequential
    <3>1. \A k \in chunk_lo..h : k \in Chunk /\ k \in Height
      BY <1>1 DEF Chunk
    <3>2. \A k \in chunk_lo..h : loaded_blocks[k] > 0 /\ loaded_blocks[k] = 1
      BY <1>3, <1>4, <3>1
    <3>3. h \in Height /\ chunk_lo <= h /\ h \in Int
      BY <1>1 DEF Chunk, Height
    <3>4. \A k \in chunk_lo..(h - 1) : k \in chunk_lo..h
      BY <1>1, <3>3
    <3> QED
      BY Zenon, <2>1, <3>2, <3>3, <3>4
  <2> QED
    BY Zenon, <2>2, <2>3
<1> QED
  BY Zenon, <1>5, <1>6 DEF LoadedBlocks

-----------------------------------------------------------------------------
(* Complete is kept when the loader stays outside of its loop.             *)
LEMMA OutOfLoop ==
  ASSUME loader' \in {"join", "done"}
  PROVE  Complete'
BY Zenon DEF Complete, InLoop

(* Complete is kept when nothing of it changes but the loader's place.     *)
LEMMA SamePlaces ==
  ASSUME Complete,
         UNCHANGED <<chunk_lo, next, workerVars, loaded_blocks, received_blocks>>,
         InLoop, InLoop', loader' \notin {"collect", "deliver"}, loader # "deliver"
  PROVE  Complete'
BY Zenon DEF Complete, Present, Outside, Collected, InLoop, workerVars

LEMMA CompleteHandsOut ==
  ASSUME UniqueInv, Complete, send_load_blocks
  PROVE  Complete'
<1>1. CASE ~WorkersListen
  BY Zenon, <1>1, OutOfLoop DEF send_load_blocks, MainLoopFails
<1>2. CASE WorkersListen
  <2>1. /\ loader = "send" /\ loader' \in {"send", "collect"}
        /\ load_queue' = Put(load_queue, next) /\ next' = next + 1
        /\ UNCHANGED <<chunk_lo, loaded_blocks, received_blocks, worker, fetched, failed>>
    BY Zenon, <1>2 DEF send_load_blocks
  <2>2. next \in Height /\ chunk_lo \in Nat /\ chunk_lo <= next
    BY <2>1, ChunkEnd DEF UniqueInv, TypeOK, Position, Height
  <2>3. ASSUME NEW h \in Height
        PROVE  Present(h)'
    <3>1. Present(h) /\ PlaceOf(next) /\ h \in Nat /\ next \in Nat
      BY <2>1, <2>2, ByHeight DEF Complete, InLoop, UniqueInv, Height
    <3>2. load_queue'[h] = IF h = next THEN load_queue[h] + 1 ELSE load_queue[h]
      BY Zenon, <2>1, <2>2, PutOne DEF UniqueInv, TypeOK
    <3>3. Outside(h)' = IF h = next THEN Outside(h) + 1 ELSE Outside(h)
      BY <2>1, <3>2, Counts DEF UniqueInv, Outside
    <3>4. CASE h = next
      <4>1. Outside(h)' = 1
        BY <3>1, <3>3, <3>4 DEF PlaceOf
      <4> QED
        BY <2>1, <2>2, <3>1, <3>4, <4>1 DEF Present
    <3>5. CASE h # next
      <4>1. h \in chunk_lo..(next' - 1) <=> h \in chunk_lo..(next - 1)
        BY <2>1, <2>2, <3>1, <3>5
      <4> QED
        BY Zenon, <2>1, <3>1, <3>3, <3>5, <4>1 DEF Present
    <3> QED
      BY Zenon, <3>4, <3>5
  <2> QED
    BY Zenon, <1>2, <2>1, <2>3 DEF Complete, InLoop, Collected, WorkersListen
<1> QED
  BY Zenon, <1>1, <1>2

LEMMA CompleteReceives ==
  ASSUME UniqueInv, UniqueInv', ~cancelled, Complete, NEW h \in Height, ReceiveLoaded(h)
  PROVE  Complete'
<1>1. /\ loader = "collect" /\ fetched[h] > 0
      /\ fetched' = Take(fetched, h) /\ loaded_blocks' = Put(loaded_blocks, h)
      /\ UNCHANGED <<top, chunk_lo, next, load_queue, worker, failed>>
  BY Zenon DEF ReceiveLoaded, Complete, InLoop
<1>2. ASSUME NEW k \in Height
      PROVE  /\ loaded_blocks'[k] = IF k = h THEN loaded_blocks[k] + 1 ELSE loaded_blocks[k]
             /\ Outside(k)' = Outside(k)
  <2>1. fetched'[k] = IF k = h THEN fetched[k] - 1 ELSE fetched[k]
    BY <1>1, TakeOne DEF UniqueInv, TypeOK
  <2>2. loaded_blocks'[k] = IF k = h THEN loaded_blocks[k] + 1 ELSE loaded_blocks[k]
    BY ZenonT(40), <1>1, PutOne DEF UniqueInv, TypeOK
  <2>3. Outside(k)' = Outside(k)
    <3>1. /\ load_queue[k] \in Nat /\ fetched[k] \in Nat /\ failed[k] \in Nat
          /\ loaded_blocks[k] \in Nat
      BY Zenon, Counts DEF UniqueInv
    <3> QED
      BY <1>1, <2>1, <2>2, <3>1 DEF Outside
  <2> QED
    BY Zenon, <2>2, <2>3
<1>3. \A k \in Height : Present(k)'
  BY Zenon, <1>1, <1>2 DEF Complete, InLoop, Present
<1>4. loaded_blocks[h] = 0
  <2>1. Outside(h) <= 1
    BY Zenon DEF UniqueInv, EachHeightOnce
  <2>2. /\ load_queue[h] \in Nat /\ fetched[h] \in Nat /\ failed[h] \in Nat
        /\ loaded_blocks[h] \in Nat
    BY Zenon, Counts DEF UniqueInv
  <2>3. fetched[h] > 0
    BY Zenon, <1>1
  <2> QED
    BY <2>1, <2>2, <2>3 DEF Outside
<1>5. Collected' = Collected \cup {h} /\ h \notin Collected
  <2>1. ASSUME NEW k \in Height
        PROVE  loaded_blocks'[k] > 0 <=> loaded_blocks[k] > 0 \/ k = h
    <3>1. loaded_blocks[k] \in Nat
      BY Zenon, Counts DEF UniqueInv
    <3>2. CASE k = h
      <4>1. loaded_blocks'[k] = loaded_blocks[k] + 1
        BY Zenon, <1>2, <3>2
      <4> QED
        BY <3>1, <3>2, <4>1
    <3>3. CASE k # h
      <4>1. loaded_blocks'[k] = loaded_blocks[k]
        BY Zenon, <1>2, <3>3
      <4> QED
        BY Zenon, <3>3, <4>1
    <3> QED
      BY Zenon, <3>2, <3>3
  <2> QED
    BY <1>4, <2>1 DEF Collected
<1>6. /\ Cardinality(Collected') = received_blocks + 1
      /\ Collected \subseteq Height
  <2>1. Collected \subseteq Height /\ received_blocks = Cardinality(Collected)
    BY Zenon, <1>1 DEF Collected, Complete, InLoop
  <2> QED
    BY Zenon, <1>5, <2>1, FiniteHeights, FS_AddElement
<1>7. CASE received_blocks + 1 = Cardinality(Chunk)
  <2>1. loader' = "deliver" /\ received_blocks' = 0 /\ Chunk' = Chunk
    BY Zenon, <1>1, <1>7 DEF ReceiveLoaded, Chunk, chunk_hi
  <2>2. Collected' \subseteq Chunk
    <3>1. ASSUME NEW k \in Collected'
          PROVE  k \in Chunk
      <4>1. k \in Height /\ loaded_blocks'[k] > 0 /\ Present(k)'
        BY Zenon, <1>3 DEF Collected
      <4>2. Outside(k)' > 0
        <5>1. /\ load_queue'[k] \in Nat /\ fetched'[k] \in Nat /\ failed'[k] \in Nat
              /\ loaded_blocks'[k] \in Nat
          BY Zenon, <4>1 DEF UniqueInv, TypeOK, Bag
        <5> QED
          BY <4>1, <5>1 DEF Outside
      <4>3. k \in chunk_lo..(next - 1)
        BY <1>1, <4>1, <4>2 DEF Present
      <4> QED
        BY <1>1, <4>3, ChunkEnd DEF Chunk, UniqueInv, Position
    <3> QED
      BY Zenon, <3>1
  <2>3. Collected' = Chunk
    BY Zenon, <1>6, <1>7, <2>2, FullChunk DEF UniqueInv
  <2> QED
    BY Zenon, <1>1, <1>3, <2>1, <2>3 DEF Complete, InLoop
<1>8. CASE received_blocks + 1 # Cardinality(Chunk)
  <2>1. loader' = "collect" /\ received_blocks' = received_blocks + 1
    BY Zenon, <1>1, <1>8 DEF ReceiveLoaded
  <2> QED
    BY Zenon, <1>1, <1>3, <1>6, <2>1 DEF Complete, InLoop
<1> QED
  BY Zenon, <1>7, <1>8

LEMMA CompleteResends ==
  ASSUME UniqueInv, Complete, NEW h \in Height, ResendFailed(h)
  PROVE  Complete'
<1>1. loader = "collect" /\ WorkersListen
  BY Zenon DEF ResendFailed, Complete, InLoop, WorkersListen
<1>2. /\ failed[h] > 0
      /\ failed' = Take(failed, h) /\ load_queue' = Put(load_queue, h)
      /\ UNCHANGED <<loader, chunk_lo, next, worker, fetched, loaded_blocks, received_blocks>>
  BY Zenon, <1>1 DEF ResendFailed
<1>3. ASSUME NEW k \in Height
      PROVE  Outside(k)' = Outside(k)
  <2>1. failed'[k] = IF k = h THEN failed[k] - 1 ELSE failed[k]
    BY ZenonT(30), <1>2, TakeOne DEF UniqueInv, TypeOK
  <2>2. load_queue'[k] = IF k = h THEN load_queue[k] + 1 ELSE load_queue[k]
    BY Zenon, <1>2, PutOne DEF UniqueInv, TypeOK
  <2>3. /\ load_queue[k] \in Nat /\ fetched[k] \in Nat /\ failed[k] \in Nat
        /\ loaded_blocks[k] \in Nat
    BY Zenon, Counts DEF UniqueInv
  <2> QED
    BY <1>2, <2>1, <2>2, <2>3 DEF Outside
<1>4. \A k \in Height : Present(k)'
  BY Zenon, <1>1, <1>2, <1>3 DEF Complete, InLoop, Present
<1> QED
  BY Zenon, <1>1, <1>2, <1>4 DEF Complete, InLoop, Collected

LEMMA CompleteTakes ==
  ASSUME UniqueInv, Complete, NEW w \in Worker, NEW h \in Height, WorkerTakes(w, h)
  PROVE  Complete'
<1>1. /\ worker[w] = Idle /\ worker' = [worker EXCEPT ![w] = h]
      /\ load_queue[h] > 0 /\ load_queue' = Take(load_queue, h)
      /\ UNCHANGED <<loader, top, chunk_lo, next, loaded_blocks, received_blocks, fetched,
                     failed>>
      /\ worker \in [Worker -> Height \cup {Idle, Gone}]
  BY Zenon DEF WorkerTakes, loaderVars, UniqueInv, TypeOK
<1>2. ASSUME InLoop, NEW k \in Height
      PROVE  Present(k)'
  <2>1. Present(k) /\ PlaceOf(k)
    BY Zenon, <1>2, ByHeight DEF Complete, UniqueInv
  <2>2. load_queue'[k] = IF k = h THEN load_queue[k] - 1 ELSE load_queue[k]
    BY ZenonT(30), <1>1, TakeOne DEF UniqueInv, TypeOK
  <2>3. Outside(k)' = IF k = h THEN Outside(k) - 1 ELSE Outside(k)
    BY <1>1, <2>2, Counts DEF UniqueInv, Outside
  <2>4. CASE k = h
    <3>1. Outside(k) = 1
      BY <1>1, <2>1, <2>4, Counts DEF UniqueInv, PlaceOf, Outside
    <3>2. worker'[w] = k
      BY Zenon, <1>1, <2>4
    <3> QED
      BY <1>1, <2>1, <3>1, <3>2 DEF Present
  <2>5. CASE k # h
    <3>1. k # Idle
      BY DEF Height, Idle
    <3>2. \A v \in Worker : worker'[v] = k <=> worker[v] = k
      BY Zenon, <1>1, <2>5, <3>1
    <3> QED
      BY Zenon, <1>1, <2>1, <2>3, <2>5, <3>2 DEF Present
  <2> QED
    BY Zenon, <2>4, <2>5
<1>3. InLoop => \A v \in Worker : worker'[v] # Gone
  BY <1>1 DEF Complete, Height, Gone
<1> QED
  BY Zenon, <1>1, <1>2, <1>3 DEF Complete, InLoop, Collected, Chunk, chunk_hi

LEMMA CompleteReturns ==
  ASSUME UniqueInv, Complete, NEW w \in Worker, handle_load_event(w)
  PROVE  Complete'
<1> DEFINE k == worker[w]
<1>1. /\ k \in Height
      /\ UNCHANGED <<loader, top, chunk_lo, next, loaded_blocks, received_blocks, load_queue>>
      /\ worker \in [Worker -> Height \cup {Idle, Gone}]
  BY Zenon DEF handle_load_event, loaderVars, UniqueInv, TypeOK
<1>2. CASE ~InLoop
  BY Zenon, <1>1, <1>2 DEF Complete, InLoop
<1>3. CASE InLoop
  <2>1. /\ worker' = [worker EXCEPT ![w] = Idle]
        /\ \/ fetched' = Put(fetched, k) /\ UNCHANGED failed
           \/ failed' = Put(failed, k) /\ UNCHANGED fetched
    BY Zenon, <1>3 DEF handle_load_event, InLoop
  <2>2. ASSUME NEW h \in Height
        PROVE  Present(h)'
    <3>1. Present(h) /\ PlaceOf(h) /\ PlaceOf(k)
      BY Zenon, <1>1, <1>3, ByHeight DEF Complete, UniqueInv
    <3>2. Outside(h)' = IF h = k THEN Outside(h) + 1 ELSE Outside(h)
      <4>1. fetched \in Bag /\ failed \in Bag
        BY Zenon DEF UniqueInv, TypeOK
      <4>2. CASE fetched' = Put(fetched, k) /\ UNCHANGED failed
        <5>1. fetched'[h] = IF h = k THEN fetched[h] + 1 ELSE fetched[h]
          BY Zenon, <1>1, <4>1, <4>2, PutOne
        <5>2. UNCHANGED <<load_queue, loaded_blocks>>
          BY Zenon, <1>1
        <5> HIDE DEF k
        <5> QED
          BY <4>2, <5>1, <5>2, Counts DEF UniqueInv, Outside
      <4>3. CASE failed' = Put(failed, k) /\ UNCHANGED fetched
        <5>1. failed'[h] = IF h = k THEN failed[h] + 1 ELSE failed[h]
          BY Zenon, <1>1, <4>1, <4>3, PutOne
        <5>2. UNCHANGED <<load_queue, loaded_blocks>>
          BY Zenon, <1>1
        <5> HIDE DEF k
        <5> QED
          BY <4>3, <5>1, <5>2, Counts DEF UniqueInv, Outside
      <4> QED
        BY Zenon, <2>1, <4>2, <4>3
    <3>3. CASE h = k
      <4>1. Outside(h)' = 1 /\ h \in chunk_lo..(next - 1)
        BY <3>1, <3>2, <3>3 DEF PlaceOf, Present
      <4> QED
        BY Zenon, <1>1, <4>1 DEF Present
    <3>4. CASE h # k
      <4>1. \A v \in Worker : worker'[v] = h <=> worker[v] = h
        BY <1>1, <2>1, <3>4 DEF Height, Idle
      <4> QED
        BY Zenon, <1>1, <3>1, <3>2, <3>4, <4>1 DEF Present
    <3> QED
      BY Zenon, <3>3, <3>4
  <2>3. \A v \in Worker : worker'[v] # Gone
    BY <1>1, <1>3, <2>1 DEF Complete, Idle, Gone
  <2> QED
    BY Zenon, <1>1, <1>3, <2>2, <2>3 DEF Complete, InLoop, Collected, Chunk, chunk_hi
<1> QED
  BY Zenon, <1>2, <1>3

(* The next chunk starts with everything empty.                            *)
LEMMA CompleteDelivers ==
  ASSUME UniqueInv, Complete, send_loaded_blocks
  PROVE  Complete'
<1>1. loader = "deliver" /\ loaded_blocks' = Empty
      /\ UNCHANGED <<load_queue, worker, fetched, failed, received_blocks>>
  BY Zenon DEF send_loaded_blocks, Complete, InLoop, workerVars
<1>2. CASE indexer # "listens"
  BY Zenon, <1>1, <1>2, OutOfLoop DEF send_loaded_blocks, SendToIndexer
<1>3. CASE indexer = "listens"
  <2>1. loader' \in {"send", "finish"} /\ chunk_lo' = chunk_hi + 1 /\ next' = chunk_hi + 1
    BY Zenon, <1>1, <1>3 DEF send_loaded_blocks
  <2>2. ASSUME NEW h \in Height
        PROVE  Present(h)'
    <3>1. Present(h) /\ PlaceOf(h) /\ (loaded_blocks[h] > 0 <=> h \in Chunk)
      BY Zenon, <1>1, ByHeight DEF Complete, InLoop, UniqueInv, Collected
    <3>2. next = chunk_hi + 1 /\ chunk_hi \in Int /\ chunk_lo \in Nat
      BY Zenon, <1>1, ChunkEnd DEF UniqueInv, Position, TypeOK
    <3>3. Outside(h)' = Outside(h) - loaded_blocks[h]
      BY <1>1, Counts, EmptyBag DEF UniqueInv, Outside
    <3>4. /\ load_queue[h] \in Nat /\ fetched[h] \in Nat /\ failed[h] \in Nat
          /\ loaded_blocks[h] \in Nat
      BY Zenon, Counts DEF UniqueInv
    <3>5. CASE h \in Chunk
      <4>1. Outside(h) = 1 /\ loaded_blocks[h] = 1
        <5>1. Outside(h) <= 1 /\ loaded_blocks[h] > 0
          BY <3>1, <3>5 DEF PlaceOf
        <5> QED
          BY <3>4, <5>1 DEF Outside
      <4>2. \A w \in Worker : worker[w] # h
        BY <3>1, <4>1 DEF PlaceOf
      <4> QED
        BY <1>1, <2>1, <3>2, <3>3, <4>1, <4>2 DEF Present
    <3>6. CASE h \notin Chunk
      <4>1. Outside(h) = 0 /\ loaded_blocks[h] = 0 /\ \A w \in Worker : worker[w] # h
        BY <3>1, <3>2, <3>4, <3>6 DEF Present, Chunk
      <4> QED
        BY <1>1, <2>1, <3>2, <3>3, <4>1 DEF Present
    <3> QED
      BY Zenon, <3>5, <3>6
  <2>3. Collected' = {}
    BY <1>1, EmptyBag DEF Collected
  <2>4. received_blocks' = Cardinality(Collected')
    BY Zenon, <1>1, <2>3, FS_EmptySet DEF Complete
  <2> QED
    BY Zenon, <1>1, <2>1, <2>2, <2>4 DEF Complete, InLoop
<1> QED
  BY Zenon, <1>2, <1>3

(* Until a cancellation nothing is lost.                                   *)
LEMMA CompleteStep ==
  ASSUME UniqueInv, UniqueInv', ~cancelled, ~cancelled', Complete, [Next]_vars
  PROVE  Complete'
<1>1. CASE StartLoading
  <2>1. loader' = "join" \/ loader' \in {"send", "finish"}
    BY Zenon, <1>1 DEF StartLoading, MainLoopFails
  <2> QED
    BY Zenon, <1>1, <2>1, OutOfLoop, SamePlaces DEF StartLoading, InLoop
<1>2. CASE NothingLeftToReceive
  BY Zenon, <1>2 DEF NothingLeftToReceive, Complete, InLoop, WorkersListen
<1>3. CASE SendLastEvent
  BY Zenon, <1>3, OutOfLoop DEF SendLastEvent, Complete, InLoop
<1>4. CASE LoaderCancelled
  BY Zenon, <1>4 DEF LoaderCancelled
<1>5. CASE LoaderEnds
  BY Zenon, <1>5, OutOfLoop DEF LoaderEnds
<1>6. ASSUME NEW w \in Worker, WorkerEnds(w)
      PROVE  Complete'
  BY Zenon, <1>6, OutOfLoop DEF WorkerEnds, LoaderLeft, Complete, InLoop, loaderVars
<1>7. CASE IndexerStep \/ Cancel \/ Finished \/ UNCHANGED vars
  <2>1. UNCHANGED <<loaderVars, workerVars>>
    BY Zenon, <1>7 DEF IndexerStep, handle_initial_blocks, init_blocks_handle, Cancel, Finished, vars
  <2> QED
    BY Zenon, <2>1 DEF Complete, InLoop, Present, Outside, Collected, Chunk, chunk_hi, loaderVars,
                workerVars
<1>8. ASSUME NEW w \in Worker, WorkerStep(w)
      PROVE  Complete'
  BY Zenon, <1>6, <1>8, CompleteTakes, CompleteReturns DEF WorkerStep
<1> QED
  BY Zenon, <1>1, <1>2, <1>3, <1>4, <1>5, <1>7, <1>8, CompleteHandsOut, CompleteReceives,
     CompleteResends, CompleteDelivers
  DEF Next, LoaderStep

(* Until a cancellation the blocks reach the indexer in sequence.          *)
LEMMA SequenceStep ==
  ASSUME UniqueInv, ~cancelled, Complete, InSequence, [Next]_vars
  PROVE  InSequence'
<1> USE DEF InSequence
<1>1. ASSUME UNCHANGED <<indexerVars, top, chunk_lo>>, InLoop' => InLoop
      PROVE  InSequence'
  BY Zenon, <1>1 DEF OnTheWay, indexerVars
<1>2. /\ top \in Nat /\ chunk_lo \in Nat /\ indexer_last_block_height \in Nat
      /\ chunk_hi \in Int
  BY ChunkEnd DEF UniqueInv, TypeOK, Height
<1>3. CASE send_loaded_blocks
  <2>1. loader = "deliver" /\ UNCHANGED <<top, indexer, indexing, indexer_last_block_height>>
    BY Zenon, <1>3 DEF send_loaded_blocks, Complete, InLoop
  <2>2. CASE indexer # "listens"
    BY Zenon, <2>1, <2>2
  <2>3. CASE indexer = "listens"
    <3>1. PICK m \in Nat : OnTheWay(m)
      BY Zenon, <2>3
    <3>2. to_indexer = {} /\ m = chunk_lo
      BY Zenon, <1>3, <2>3, <3>1 DEF send_loaded_blocks, SendToIndexer, OnTheWay
    <3>3. to_indexer' = {LoadedBlocks} /\ chunk_lo' = chunk_hi + 1
      BY Zenon, <1>3, <2>1, <2>3 DEF send_loaded_blocks, SendToIndexer
    <3>4. chunk_lo <= chunk_hi /\ Collected = Chunk
      BY Zenon, <2>1 DEF UniqueInv, Position, Complete
    <3>5. LoadedBlocks = [type |-> "LoadedBlocks", blocks |-> m..(chunk_lo' - 1)]
      BY <1>2, <3>2, <3>3, <3>4, WholeChunkSent DEF Chunk
    <3>6. m <= chunk_lo'
      BY <1>2, <3>2, <3>3, <3>4
    <3>7. OnTheWay(m)'
      BY Zenon, <2>1, <3>1, <3>3, <3>5, <3>6 DEF OnTheWay
    <3> QED
      BY Zenon, <2>1, <2>3, <3>7
  <2> QED
    BY Zenon, <2>2, <2>3
<1>4. CASE SendLastEvent
  <2>1. /\ loader = "finish" /\ loader' = "join"
        /\ UNCHANGED <<top, chunk_lo, indexer, indexing, indexer_last_block_height>>
    BY Zenon, <1>4 DEF SendLastEvent, Complete, InLoop
  <2>2. CASE indexer # "listens"
    BY Zenon, <2>1, <2>2
  <2>3. CASE indexer = "listens"
    <3>1. PICK m \in Nat : OnTheWay(m)
      BY Zenon, <2>3
    <3>2. to_indexer = {} /\ m = chunk_lo /\ to_indexer' = {[type |-> "FinishLoading"]}
      BY Zenon, <1>4, <2>1, <2>3, <3>1 DEF SendLastEvent, SendToIndexer, OnTheWay
    <3>3. OnTheWay(m)'
      BY Zenon, <2>1, <3>1, <3>2 DEF OnTheWay, UniqueInv, Position, InLoop
    <3> QED
      BY Zenon, <2>1, <2>3, <3>3
  <2> QED
    BY Zenon, <2>2, <2>3
<1>5. CASE handle_initial_blocks
  <2>1. PICK m \in Nat : OnTheWay(m)
    BY Zenon, <1>5 DEF handle_initial_blocks
  <2>2. indexer_last_block_height = m
    <3>1. /\ indexer_last_block_height..(m - 1) = {}
          /\ indexer_last_block_height <= m
      BY Zenon, <1>5, <2>1 DEF OnTheWay, handle_initial_blocks
    <3> QED
      BY <1>2, <3>1
  <2>3. UNCHANGED <<top, chunk_lo, indexer_last_block_height>> /\ to_indexer' = {}
    BY Zenon, <1>5 DEF handle_initial_blocks, loaderVars
  <2>4. CASE to_indexer = {}
    BY Zenon, <1>5, <2>4 DEF handle_initial_blocks
  <2>5. CASE to_indexer = {[type |-> "LoadedBlocks", blocks |-> m..(chunk_lo - 1)]}
    <3> DEFINE e == [type |-> "LoadedBlocks", blocks |-> m..(chunk_lo - 1)]
    <3>0. /\ e.type = "LoadedBlocks" /\ e.blocks = m..(chunk_lo - 1)
          /\ to_indexer = {e}
      BY Zenon, <2>5
    <3> HIDE DEF e
    <3>1. indexing' = m..(chunk_lo - 1) /\ indexer' = "listens"
      BY Zenon, <1>5, <3>0 DEF handle_initial_blocks
    <3>2. OnTheWay(chunk_lo)'
      BY <1>2, <2>1, <2>2, <2>3, <3>1 DEF OnTheWay
    <3> QED
      BY Zenon, <1>2, <2>3, <3>1, <3>2
  <2>6. CASE to_indexer = {[type |-> "FinishLoading"]} /\ m > top
    BY <1>5, <2>2, <2>3, <2>6 DEF handle_initial_blocks
  <2> QED
    BY Zenon, <2>1, <2>4, <2>5, <2>6 DEF OnTheWay
<1>6. CASE init_blocks_handle
  <2>1. PICK m \in Nat : OnTheWay(m)
    BY Zenon, <1>6 DEF init_blocks_handle
  <2>2. indexer_last_block_height <= m - 1
    BY <1>2, <1>6, <2>1 DEF OnTheWay, init_blocks_handle
  <2>3. Min(indexing) = indexer_last_block_height
    BY <1>2, <2>1, <2>2, MinInterval DEF OnTheWay
  <2>4. UNCHANGED <<loader, top, chunk_lo, to_indexer>> /\ indexer = "listens"
    BY Zenon, <1>6 DEF init_blocks_handle, loaderVars
  <2>5. CASE indexer' = "error"
    BY Zenon, <2>5
  <2>6. CASE /\ indexer' = indexer
             /\ indexer_last_block_height' = indexer_last_block_height + 1
             /\ indexing' = indexing \ {Min(indexing)}
    <3>1. indexing' = indexer_last_block_height'..(m - 1)
      <4>1. indexing = indexer_last_block_height..(m - 1)
        BY Zenon, <2>1 DEF OnTheWay
      <4> QED
        BY <1>2, <2>3, <2>6, <4>1, IntervalTail
    <3>2. indexer_last_block_height' <= m
      BY <1>2, <2>2, <2>6
    <3>3. OnTheWay(m)'
      BY Zenon, <2>1, <2>4, <3>1, <3>2 DEF OnTheWay, InLoop
    <3> QED
      BY Zenon, <2>4, <2>6, <3>3
  <2> QED
    BY Zenon, <1>6, <2>3, <2>5, <2>6 DEF init_blocks_handle
<1>7. CASE StartLoading \/ send_load_blocks \/ NothingLeftToReceive \/ LoaderEnds
           \/ (\E h \in Height : ReceiveLoaded(h) \/ ResendFailed(h))
  BY Zenon, <1>1, <1>7 DEF StartLoading, send_load_blocks, NothingLeftToReceive, LoaderEnds,
       ReceiveLoaded, ResendFailed, InLoop
<1>8. CASE (\E w \in Worker : WorkerStep(w)) \/ Cancel \/ Finished \/ UNCHANGED vars
  BY Zenon, <1>1, <1>8 DEF WorkerStep, WorkerTakes, handle_load_event, WorkerEnds, Cancel, Finished,
       vars, loaderVars, InLoop
<1>9. CASE LoaderCancelled
  BY Zenon, <1>9 DEF LoaderCancelled
<1> QED
  BY Zenon, <1>3, <1>4, <1>5, <1>6, <1>7, <1>8, <1>9 DEF Next, LoaderStep, IndexerStep

(* Nothing that handle_new_blocks hands out is lost or counted twice until *)
(* somebody cancels, whatever fails, and what it sends continues what is   *)
(* indexed.                                                                *)
THEOREM DeliveryInvariant == Spec => []DeliveryInv
<1>1. Init => DeliveryInv
  <2> SUFFICES ASSUME Init PROVE Complete /\ InSequence
    BY Zenon, UniqueInit DEF DeliveryInv
  <2>1. UniqueInv /\ chunk_lo \in Nat
    BY Zenon, UniqueInit DEF UniqueInv, TypeOK
  <2>2. ASSUME NEW h \in Height
        PROVE  Present(h)
    <3>1. Outside(h) = 0
      BY EmptyBag DEF Init, Outside
    <3>2. \A w \in Worker : worker[w] # h
      BY DEF Init, Height, Idle
    <3>3. h \notin chunk_lo..(next - 1)
      BY <2>1 DEF Init
    <3> QED
      BY Zenon, <3>1, <3>2, <3>3 DEF Present
  <2>3. received_blocks = Cardinality(Collected)
    <3>1. Collected = {}
      BY EmptyBag DEF Init, Collected
    <3> QED
      BY Zenon, <3>1, FS_EmptySet DEF Init
  <2>4. \A w \in Worker : worker[w] # Gone
    BY DEF Init, Idle, Gone
  <2>5. OnTheWay(chunk_lo)
    <3>1. chunk_lo..(chunk_lo - 1) = {} /\ chunk_lo <= chunk_lo
      BY <2>1
    <3> QED
      BY Zenon, <3>1 DEF Init, OnTheWay
  <2> QED
    BY Zenon, <2>1, <2>2, <2>3, <2>4, <2>5 DEF Init, Complete, InLoop, InSequence
<1>2. DeliveryInv /\ [Next]_vars => DeliveryInv'
  <2> SUFFICES ASSUME DeliveryInv, [Next]_vars PROVE DeliveryInv'
    BY Zenon
  <2>1. UniqueInv'
    BY Zenon, UniqueStep DEF DeliveryInv
  <2>2. ~cancelled' => ~cancelled
    BY Zenon DEF Next, LoaderStep, StartLoading, send_load_blocks, ReceiveLoaded, ResendFailed,
       NothingLeftToReceive, send_loaded_blocks, SendLastEvent, LoaderCancelled, LoaderEnds,
       WorkerStep, WorkerTakes, handle_load_event, WorkerEnds, IndexerStep,
       handle_initial_blocks, init_blocks_handle, Cancel, Finished, vars
  <2> QED
    BY Zenon, <2>1, <2>2, CompleteStep, SequenceStep DEF DeliveryInv
<1> QED
  BY <1>1, <1>2, PTL DEF Spec

(* init_blocks_handle finds no block out of sequence, unless cancelled.    *)
THEOREM BlocksInSequence == Spec => []NoGap
<1>1. DeliveryInv => NoGap
  BY Zenon DEF DeliveryInv, InSequence, NoGap
<1> QED
  BY <1>1, DeliveryInvariant, PTL

(* FinishLoading reaches the indexer after all blocks up to the height of  *)
(* the chain are indexed, unless cancelled.                                *)
THEOREM FinishedIsComplete == Spec => []FinishedMeansIndexed
<1>1. DeliveryInv => FinishedMeansIndexed
  BY Zenon DEF DeliveryInv, InSequence, FinishedMeansIndexed
<1> QED
  BY <1>1, DeliveryInvariant, PTL

=============================================================================
