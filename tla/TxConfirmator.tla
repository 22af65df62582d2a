---------------------------- MODULE TxConfirmator ----------------------------
(***************************************************************************)
(* crates/tx-confirm: waits until the transactions it is given are buried  *)
(* under enough blocks of the best chain, and finds out about reorgs by    *)
(* comparing every block the indexer sends with a window of recent blocks. *)
(*                                                                         *)
(* A message Txs is handled one transaction per step, because the handler  *)
(* asks the Bitcoin node about each of them in turn: what is left of the   *)
(* message stays at the head of the channel.                               *)
(***************************************************************************)
EXTENDS BitcoinChain, Channels, FiniteSets

VARIABLES
  queue,           \* transactions that wait for confirmation
  latest_blocks    \* the window of recent blocks, oldest first

confirmatorVars == <<queue, latest_blocks>>

ConfirmatorInit ==
  /\ queue = {}
  /\ latest_blocks = <<>>

-----------------------------------------------------------------------------
extract_waiting_txs_from_block(b) == BlockTxs[b] \cap queue

(* The prefix of the window that has k blocks.                             *)
WindowPrefix(k) == SubSeq(latest_blocks, 1, k)

Depth == Len(latest_blocks)

(* The j-th ancestor of b is in the window where a fork would leave it.    *)
MeetsWindowAt(b, j) ==
  /\ j < Depth
  /\ j < Height[b]
  /\ latest_blocks[Depth - j] = BlockAt(b, Height[b] - 1 - j)

(* Blocks of the window that the branch of b does not have.                *)
OrphansOf(b) == CHOOSE j \in 0..Depth :
                  /\ MeetsWindowAt(b, j)
                  /\ \A i \in 0..(j - 1) : ~MeetsWindowAt(b, i)

ForkIsKnown(b) == \E j \in 0..Depth : MeetsWindowAt(b, j)

OrphanTxs(b) ==
  UNION {extract_waiting_txs_from_block(latest_blocks[i]) :
           i \in (Depth - OrphansOf(b) + 1)..Depth}

(* Faulty: the transactions of the orphan blocks are not reported.         *)
handle_reorg_drops_txs(b) ==
  /\ ForkIsKnown(b)
  /\ latest_blocks' = WindowPrefix(Depth - OrphansOf(b))
  /\ queue' = queue \ OrphanTxs(b)
  /\ toController' = Send(toController, Reorganization({}, Height[b] - 1 - OrphansOf(b)))
  /\ UNCHANGED cancelled

(* The handler pops blocks until one is the ancestor of the new block at   *)
(* its height; every comparison goes one block down both branches.  With   *)
(* no such block the window is used up and the node is stopped.            *)
handle_reorg(b) ==
  \/ /\ ForkIsKnown(b)
     /\ latest_blocks' = WindowPrefix(Depth - OrphansOf(b))
     /\ queue' = queue \ OrphanTxs(b)
     /\ toController' =
          Send(toController,
               Reorganization(OrphanTxs(b), Height[b] - 1 - OrphansOf(b)))
     /\ UNCHANGED cancelled
  \/ /\ ~ForkIsKnown(b)
     /\ latest_blocks' = IF Depth <= Height[b]
                         THEN <<>>
                         ELSE WindowPrefix(Depth - Height[b] - 1)
     /\ cancelled' = TRUE
     /\ UNCHANGED <<queue, toController>>

(* Faulty: only the heights are compared.                                  *)
IsReorg_by_height(b) ==
  latest_blocks # <<>> /\ Height[latest_blocks[Depth]] + 1 # Height[b]

IsReorg(b) ==
  /\ Parent[b] # NoBlock
  /\ latest_blocks # <<>>
  /\ latest_blocks[Depth] # Parent[b]

(* Faulty: the window is one block too short.                              *)
ExtendWindow_short(b) ==
  LET window == Append(latest_blocks, b)
      full   == Len(window) = confirmations_number - 1
      conf   == IF full THEN extract_waiting_txs_from_block(Head(window)) ELSE {}
  IN  /\ latest_blocks' = IF full THEN Tail(window) ELSE window
      /\ queue' = queue \ conf
      /\ toController' = SendUnlessEmpty(toController, ConfirmedTxs(conf))
      /\ UNCHANGED cancelled

(* A block that extends the window: its transactions are mined, and those  *)
(* of the block that leaves the window are confirmed.                      *)
ExtendWindow(b) ==
  LET window == Append(latest_blocks, b)
      full   == Len(window) = confirmations_number
      mined  == extract_waiting_txs_from_block(b)
      conf   == IF full THEN extract_waiting_txs_from_block(Head(window)) ELSE {}
  IN  /\ latest_blocks' = IF full THEN Tail(window) ELSE window
      /\ queue' = queue \ conf
      /\ toController' =
           SendUnlessEmpty(SendUnlessEmpty(toController, MinedTxs(mined)),
                           ConfirmedTxs(conf))
      /\ UNCHANGED cancelled

handle_new_block ==
  /\ Next1(toConfirm, "Block")
  /\ LET b == Head(toConfirm).block
     IN  IF IsReorg(b) THEN handle_reorg(b) ELSE ExtendWindow(b)
  /\ toConfirm' = Tail(toConfirm)

(* What is left of a message Txs when t has been handled.                  *)
WithoutTx(t) ==
  LET rest == Head(toConfirm).txs \ {t}
  IN  IF rest = {} THEN Tail(toConfirm) ELSE <<Txs(rest)>> \o Tail(toConfirm)

(* Faulty: one confirmation too few is enough; MinedTxs is left out.       *)
handle_tx_to_confirm_early(t) ==
  /\ Next1(toConfirm, "Txs")
  /\ t \in Head(toConfirm).txs
  /\ toConfirm' = WithoutTx(t)
  /\ LET conf == Confirmations(t) + 1 >= confirmations_number
     IN  /\ queue' = IF conf THEN queue \ {t} ELSE queue \cup {t}
         /\ toController' = IF conf THEN Send(toController, ConfirmedTxs({t}))
                            ELSE toController
  /\ UNCHANGED <<latest_blocks, cancelled>>

handle_tx_to_confirm(t) ==
  /\ Next1(toConfirm, "Txs")
  /\ t \in Head(toConfirm).txs
  /\ toConfirm' = WithoutTx(t)
  /\ LET n    == Confirmations(t)
         conf == n >= confirmations_number
     IN  /\ queue' = IF conf THEN queue \ {t} ELSE queue \cup {t}
         /\ toController' =
              IF n = 0 THEN toController
              ELSE IF conf
                   THEN Send(Send(toController, MinedTxs({t})), ConfirmedTxs({t}))
                   ELSE Send(toController, MinedTxs({t}))
  /\ UNCHANGED <<latest_blocks, cancelled>>

(* Transactions that have waited longer than max_confirmation_time.        *)
clean_up_waiting_txs(old) ==
  /\ old # {}
  /\ old \subseteq queue
  /\ queue' = queue \ old
  /\ UNCHANGED <<latest_blocks, toConfirm, toController, cancelled>>

(* An RPC error while a transaction is looked up: the rest of the message  *)
(* is lost and the node is stopped.                                        *)
TxLookupFails(t) ==
  /\ Next1(toConfirm, "Txs")
  /\ t \in Head(toConfirm).txs
  /\ toConfirm' = Tail(toConfirm)
  /\ queue' = queue \cup {t}
  /\ cancelled' = TRUE
  /\ UNCHANGED <<latest_blocks, toController>>

(* An RPC error while the branch of a new block is followed down: the      *)
(* blocks popped so far are gone and the node is stopped.                  *)
BranchLookupFails ==
  /\ Next1(toConfirm, "Block")
  /\ LET b == Head(toConfirm).block
     IN  /\ IsReorg(b)
         /\ \E k \in 0..(Depth - 1) :
              /\ \A j \in 0..(Depth - 1 - k) : ~MeetsWindowAt(b, j)
              /\ Depth - 1 - k < Height[b]
              /\ latest_blocks' = WindowPrefix(k)
  /\ toConfirm' = Tail(toConfirm)
  /\ cancelled' = TRUE
  /\ UNCHANGED <<queue, toController>>

=============================================================================
