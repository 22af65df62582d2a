---------------------------- MODULE BlockIndexer ----------------------------
(***************************************************************************)
(* crates/indexers: feeds the blocks of the best chain to the confirmator, *)
(* first the missed ones (init), then one per poll (run), and goes back    *)
(* when the controller reports a reorg.  The hash of the last indexed      *)
(* block is kept in the storage.                                           *)
(*                                                                         *)
(* The announcements that the first subindexer finds in a block are        *)
(* transactions that reach the controller like any other: they are not     *)
(* told apart here.                                                        *)
(***************************************************************************)
EXTENDS BitcoinChain, Channels

CONSTANTS
  lrc20_genesis_height,     \* height of the network's lrc20_genesis_block
  starting_block_height,    \* of IndexingParams::starting_block_hash, -1: none
  force_reindex

ASSUME IndexerAssumption ==
  /\ lrc20_genesis_height \in Nat
  /\ starting_block_height \in Nat \cup {-1}
  /\ force_reindex \in BOOLEAN

VARIABLES
  phase,                    \* "init"; "load": missed blocks are fetched;
                            \* "run"; "poll": an event has just been handled
  confirmed_block_height,
  confirmed_block_hash,
  indexer_last_block_height,  \* next height to index during init
  load_to,                  \* last height the block loader fetches
  indexer_state             \* storage: the last indexed block

indexerVars ==
  <<phase, confirmed_block_height, confirmed_block_hash,
    indexer_last_block_height, load_to, indexer_state>>

-----------------------------------------------------------------------------
saturating_sub(a, b) == IF a >= b THEN a - b ELSE 0

get_starting_block_height ==
  LET missed == IF indexer_state = NoBlock THEN lrc20_genesis_height
                ELSE Height[indexer_state] + 1
      given  == starting_block_height
  IN  IF given # -1 /\ (given > missed \/ force_reindex) THEN given ELSE missed

(* Where a (re)started init begins: so far back that the window of the     *)
(* confirmator covers every block that is not confirmed yet.               *)
InitFrom == saturating_sub(get_starting_block_height, confirmations_number - 1)

IndexerInit ==
  /\ phase = "init"
  /\ confirmed_block_height = 0
  /\ confirmed_block_hash = NoBlock
  /\ indexer_last_block_height = 0
  /\ load_to = 0
  /\ indexer_state = NoBlock

(* The process starts again: all but the storage is lost.                  *)
IndexerRestarts ==
  /\ phase' = "init"
  /\ confirmed_block_height' = 0
  /\ confirmed_block_hash' = NoBlock
  /\ indexer_last_block_height' = 0
  /\ load_to' = 0
  /\ UNCHANGED indexer_state

(* init starts the block loader, which reads the best height once.         *)
InitStarts ==
  /\ phase = "init"
  /\ phase' = "load"
  /\ indexer_last_block_height' = InitFrom
  /\ load_to' = Height[tip]
  /\ UNCHANGED <<confirmed_block_height, confirmed_block_hash, indexer_state,
                 toConfirm>>

(* index_block: the block goes to the subindexers, then to the storage.    *)
index_block(b) ==
  /\ toConfirm' = Send(toConfirm, BlockMsg(b))
  /\ indexer_state' = b

init_blocks_handle ==
  /\ phase = "load"
  /\ indexer_last_block_height <= load_to
  /\ index_block(BlockAt(tip, indexer_last_block_height))
  /\ indexer_last_block_height' = indexer_last_block_height + 1
  /\ UNCHANGED <<phase, confirmed_block_height, confirmed_block_hash, load_to>>

(* The end of init: indexing goes on from the block in the storage.        *)
StartPolling ==
  /\ LET last == IF indexer_state = NoBlock THEN Genesis ELSE indexer_state
     IN  /\ confirmed_block_hash' = last
         /\ confirmed_block_height' = Height[last]
  /\ phase' = "run"
  /\ UNCHANGED <<indexer_last_block_height, load_to, indexer_state, toConfirm>>

InitFinishes ==
  /\ phase = "load"
  /\ indexer_last_block_height > load_to
  /\ StartPolling

(* BlockLoader::run drops the error of its handle_new_blocks: the channel  *)
(* to the indexer is closed and init goes on as if all blocks had come.    *)
LoaderFails ==
  /\ phase = "init"
  /\ StartPolling

(* init ended with an error: it is started again, in the same process.     *)
InitRetries ==
  /\ phase = "load"
  /\ phase' = "init"
  /\ UNCHANGED <<confirmed_block_height, confirmed_block_hash,
                 indexer_last_block_height, load_to, indexer_state, toConfirm>>

-----------------------------------------------------------------------------
(* Faulty: the indexer does not go back.                                   *)
handle_reorganization_ignored(h) ==
  /\ phase' = "poll"
  /\ UNCHANGED <<confirmed_block_height, confirmed_block_hash,
                 indexer_last_block_height, load_to, indexer_state, toConfirm>>

handle_reorganization(h) ==
  /\ confirmed_block_height' = h
  /\ confirmed_block_hash' = BlockAt(tip, h)
  /\ phase' = "poll"
  /\ UNCHANGED <<indexer_last_block_height, load_to, indexer_state, toConfirm>>

IndexerEvent ==
  /\ phase = "run"
  /\ toIndexer # <<>>
  /\ handle_reorganization(Head(toIndexer))
  /\ toIndexer' = Tail(toIndexer)

(* Runs after every event and on every tick of the polling timer; indexes  *)
(* at most one block.                                                      *)
handle_new_blocks ==
  /\ phase \in {"run", "poll"}
  /\ phase' = "run"
  /\ LET b == BlockAt(tip, confirmed_block_height + 1)
     IN  IF Height[tip] = confirmed_block_height \/ b = confirmed_block_hash
         THEN UNCHANGED <<confirmed_block_height, confirmed_block_hash,
                          indexer_state, toConfirm>>
         ELSE /\ index_block(b)
              /\ confirmed_block_height' = Height[b]
              /\ confirmed_block_hash' = b
  /\ UNCHANGED <<indexer_last_block_height, load_to>>

(* The storage fails after the subindexers have got the block: the block   *)
(* is indexed again on the next poll.                                      *)
UpdateStateFails ==
  /\ phase \in {"run", "poll"}
  /\ phase' = "run"
  /\ Height[tip] > confirmed_block_height
  /\ toConfirm' = Send(toConfirm, BlockMsg(BlockAt(tip, confirmed_block_height + 1)))
  /\ UNCHANGED <<confirmed_block_height, confirmed_block_hash,
                 indexer_last_block_height, load_to, indexer_state>>

=============================================================================
