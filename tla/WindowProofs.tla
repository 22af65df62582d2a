---------------------------- MODULE WindowProofs ----------------------------
(***************************************************************************)
(* Proofs about the window of blocks that the confirmator keeps, and about *)
(* the indexer that feeds it, on top of the types of ConfirmationProofs.   *)
(*                                                                         *)
(* WindowInv: the window is a piece of one branch, below the blocks that   *)
(* were sent, and a genesis block is the first one sent.  It needs that    *)
(* init is not retried within one process: a retried init may send the     *)
(* genesis block, which the confirmator appends to any window.             *)
(*                                                                         *)
(* ConfirmedInv: whatever carries a transaction that is taken for          *)
(* confirmed carries one that was confirmations_number deep in a best      *)
(* chain.                                                                  *)
(*                                                                         *)
(* InStep: indexer and window fit together.  The pipeline is Steady, when  *)
(* the blocks in the channel continue the window one by one; or a          *)
(* reorganisation is being sent (GoingBack) or has been, and the indexer   *)
(* starts anew (GoneBack); or the confirmator will stop at a block that    *)
(* does not fit (Doomed).                                                  *)
(***************************************************************************)
EXTENDS ConfirmationProofs

(* As in ConfirmationProofs.                                               *)
USE Zenon

-----------------------------------------------------------------------------
(* The window is a piece of one branch.                                    *)

(* Dropping the newest blocks leaves a piece of the branch.                *)
LEMMA PrefixIsBranch ==
  ASSUME TypeInv, WindowIsBranch, NEW k \in 0..Depth, latest_blocks' = WindowPrefix(k)
  PROVE  WindowIsBranch'
<1>1. /\ Depth = Len(latest_blocks) /\ Depth \in Nat
      /\ Len(latest_blocks') = k
      /\ \A i \in 1..k : latest_blocks'[i] = latest_blocks[i]
  BY SMT, PrefixTyped DEF TypeInv, TypeOK, Depth, WindowPrefix
<1> QED
  BY SMT, <1>1, ConfirmationsAssumption DEF WindowIsBranch

LEMMA EmptyIsBranch == latest_blocks' = <<>> => WindowIsBranch'
BY SMT, ConfirmationsAssumption DEF WindowIsBranch

LEMMA AppendFacts ==
  ASSUME NEW S, NEW s \in Seq(S), NEW e \in S
  PROVE  /\ Append(s, e) \in Seq(S) /\ Len(Append(s, e)) = Len(s) + 1
         /\ Append(s, e)[Len(s) + 1] = e
         /\ \A i \in 1..Len(s) : Append(s, e)[i] = s[i]
BY SMT

LEMMA TailFacts ==
  ASSUME NEW S, NEW s \in Seq(S), NEW n \in Nat, Len(s) = n + 1
  PROVE  Len(Tail(s)) = n /\ \A i \in 1..n : Tail(s)[i] = s[i + 1]
BY SMT

(* The window after a block that extends it.                               *)
LEMMA ExtendedWindow ==
  ASSUME TypeInv, Len(latest_blocks) < confirmations_number, NEW b \in known, ExtendWindow(b)
  PROVE  LET window == Append(latest_blocks, b)
         IN  /\ window \in Seq(known)
             /\ Len(window) = Depth + 1
             /\ window[Depth + 1] = b
             /\ \A i \in 1..Depth : window[i] = latest_blocks[i]
             /\ \/ Len(window) < confirmations_number /\ latest_blocks' = window
                \/ /\ Len(window) = confirmations_number
                   /\ Len(latest_blocks') = Depth
                   /\ \A i \in 1..Depth : latest_blocks'[i] = window[i + 1]
<1> DEFINE window == Append(latest_blocks, b)
<1>1. latest_blocks \in Seq(known) /\ Depth = Len(latest_blocks) /\ Depth \in Nat
  BY WindowTyped
<1>2. /\ window \in Seq(known) /\ Len(window) = Depth + 1 /\ window[Depth + 1] = b
      /\ \A i \in 1..Depth : window[i] = latest_blocks[i]
  BY SMT, <1>1, AppendFacts
<1>3. latest_blocks' = IF Len(window) = confirmations_number THEN Tail(window) ELSE window
  BY DEF ExtendWindow
<1> HIDE DEF window
<1>4. Len(Tail(window)) = Depth /\ \A i \in 1..Depth : Tail(window)[i] = window[i + 1]
  BY <1>1, <1>2, TailFacts
<1>5. Len(window) = confirmations_number \/ Len(window) < confirmations_number
  BY SMT, <1>1, <1>2, ConfirmationsAssumption
<1>6. \/ Len(window) < confirmations_number /\ latest_blocks' = window
      \/ /\ Len(window) = confirmations_number
         /\ Len(latest_blocks') = Depth
         /\ \A i \in 1..Depth : latest_blocks'[i] = window[i + 1]
  BY <1>2, <1>3, <1>4, <1>5, ConfirmationsAssumption
<1> QED
  BY <1>2, <1>6 DEF window

LEMMA WindowNext == TypeInv /\ WindowIsBranch /\ [Next]_vars => WindowIsBranch'

<1>ReorgKeepsBranch.
  ASSUME TypeInv, WindowIsBranch, NEW b \in known, handle_reorg(b)
  PROVE  WindowIsBranch'
  <2> USE <1>ReorgKeepsBranch
  <2>1. b \in Block /\ Height[b] \in Nat /\ Depth \in Nat
    BY SMT, TreeAssumption DEF TypeInv, TypeOK, ChainInv, Depth
  <2>2. CASE ForkIsKnown(b)
    <3>1. OrphansOf(b) \in 0..(Depth - 1)
      BY <2>1, <2>2, OrphansAreFewest
    <3>2. Depth - OrphansOf(b) \in 0..Depth
      BY SMT, <2>1, <3>1
    <3> QED
      BY <2>2, <3>2, PrefixIsBranch DEF handle_reorg
  <2>3. CASE ~ForkIsKnown(b)
    <3>1. CASE Depth <= Height[b]
      BY <2>3, <3>1, EmptyIsBranch DEF handle_reorg
    <3>2. CASE ~(Depth <= Height[b])
      <4>1. Depth - Height[b] - 1 \in 0..Depth
        BY SMT, <2>1, <3>2
      <4> QED
        BY <2>3, <3>2, <4>1, PrefixIsBranch DEF handle_reorg
    <3> QED
      BY <3>1, <3>2
  <2> QED
    BY <2>2, <2>3

<1>ExtendKeepsBranch.
  ASSUME TypeInv, WindowIsBranch, NEW b \in known, ~IsReorg(b), ExtendWindow(b)
  PROVE  WindowIsBranch'
  <2> USE <1>ExtendKeepsBranch
  <2> DEFINE window == Append(latest_blocks, b)
  <2>1. Depth \in Nat /\ Depth = Len(latest_blocks) /\ Depth < confirmations_number
    BY WindowTyped DEF WindowIsBranch
  <2>2. /\ window \in Seq(known) /\ Len(window) = Depth + 1 /\ window[Depth + 1] = b
        /\ \A i \in 1..Depth : window[i] = latest_blocks[i]
        /\ \/ Len(window) < confirmations_number /\ latest_blocks' = window
           \/ /\ Len(window) = confirmations_number
              /\ Len(latest_blocks') = Depth
              /\ \A i \in 1..Depth : latest_blocks'[i] = window[i + 1]
    BY <2>1, ExtendedWindow
  <2>3. b = Genesis \/ Depth = 0 \/ latest_blocks[Depth] = Parent[b]
    <3>1. b \in Block
      BY DEF TypeInv, ChainInv
    <3> QED
      BY SMT, <2>1, <3>1, TreeAssumption, WindowTyped DEF IsReorg
  <2>4. \A i \in 2..(Depth + 1) : window[i] = Genesis \/ Parent[window[i]] = window[i - 1]
    <3> HIDE DEF window
    <3> SUFFICES ASSUME NEW i \in 2..(Depth + 1)
                 PROVE  window[i] = Genesis \/ Parent[window[i]] = window[i - 1]
      OBVIOUS
    <3>1. CASE i = Depth + 1
      BY SMT, <2>1, <2>2, <2>3, <3>1
    <3>2. CASE i \in 2..Depth
      <4>1. /\ i \in 1..Depth /\ i - 1 \in 1..Depth
            /\ latest_blocks[i] = Genesis \/ Parent[latest_blocks[i]] = latest_blocks[i - 1]
        BY SMT, <2>1, <3>2 DEF WindowIsBranch
      <4> QED
        BY <2>2, <4>1
    <3> QED
      BY SMT, <2>1, <3>1, <3>2
  <2> HIDE DEF window
  <2>5. CASE Len(window) < confirmations_number /\ latest_blocks' = window
    BY <2>1, <2>2, <2>4, <2>5 DEF WindowIsBranch
  <2>6. CASE /\ Len(latest_blocks') = Depth
             /\ \A i \in 1..Depth : latest_blocks'[i] = window[i + 1]
    <3>1. \A i \in 2..Depth : latest_blocks'[i] = window[i + 1] /\ latest_blocks'[i - 1] = window[i]
      BY SMT, <2>1, <2>6
    <3>2. \A i \in 2..Depth : window[i + 1] = Genesis \/ Parent[window[i + 1]] = window[i]
      BY SMT, <2>1, <2>4
    <3> QED
      BY <2>1, <2>6, <3>1, <3>2 DEF WindowIsBranch
  <2> QED
    BY <2>2, <2>5, <2>6

<1> SUFFICES ASSUME TypeInv, WindowIsBranch, [Next]_vars PROVE WindowIsBranch'
  OBVIOUS
<1> DEFINE b == Head(toConfirm).block
<1>1. CASE latest_blocks' = latest_blocks
  BY <1>1 DEF WindowIsBranch
<1>2. CASE handle_new_block
  <2>1. b \in known
    BY <1>2, HeadTailTyped DEF handle_new_block, Next1, TypeInv, ChainInv, KnownConfirmMsg
  <2> QED
    BY <1>2, <2>1, <1>ReorgKeepsBranch, <1>ExtendKeepsBranch DEF handle_new_block
<1>3. CASE BranchLookupFails
  <2>1. PICK k \in 0..(Depth - 1) : latest_blocks' = WindowPrefix(k)
    BY <1>3 DEF BranchLookupFails
  <2>2. k \in 0..Depth
    BY SMT DEF TypeInv, TypeOK, Depth
  <2> QED
    BY <2>1, <2>2, PrefixIsBranch
<1>4. CASE Restart
  BY <1>4, EmptyIsBranch DEF Restart, RestartNode
<1>5. \/ latest_blocks' = latest_blocks \/ handle_new_block \/ BranchLookupFails \/ Restart
  BY DEF Next, vars, ChainStep, Submit, CheckerAccepts, GraphBuilderAttaches, ControllerStep,
         ConfirmatorStep, CleanUp, IndexerStep, ConfirmatorFault, IndexerFault,
         handle_tx_to_confirm, clean_up_waiting_txs, TxLookupFails, confirmatorVars
<1> QED
  BY <1>1, <1>2, <1>3, <1>4, <1>5

(* Whatever blocks the indexer sends, in whatever order and however often  *)
(* (polls, a retried init, a failed update of the storage), the window of  *)
(* the confirmator stays a piece of one branch, shorter than               *)
(* confirmations_number.                                                   *)
THEOREM WindowStaysOnBranch == Spec => []WindowIsBranch
<1>1. Init => WindowIsBranch
  BY SMT, ConfirmationsAssumption DEF Init, ConfirmatorInit, WindowIsBranch
<1> QED
  BY <1>1, WindowNext, TypeSafe, PTL DEF Spec

-----------------------------------------------------------------------------
(* Burial.                                                                 *)

(* Any two blocks of the window are on one branch, as far apart as in the  *)
(* window.                                                                 *)
WindowOnBranch ==
  \A i, j \in 1..Len(latest_blocks) :
    i <= j => /\ latest_blocks[i] \in Branch[latest_blocks[j]]
              /\ Height[latest_blocks[j]] - Height[latest_blocks[i]] = j - i

NoBlockSent == \A i \in 1..Len(toConfirm) : toConfirm[i].type # "Block"

IsGenesisMsg(m) == m.type = "Block" /\ m.block = Genesis

(* The genesis block is only ever the first block that the confirmator     *)
(* gets in the life of a process.                                          *)
GenesisFirst ==
  /\ phase = "init" \/ (phase = "load" /\ indexer_last_block_height = 0)
       => latest_blocks = <<>> /\ NoBlockSent
  /\ \A i \in 1..Len(toConfirm) :
       IsGenesisMsg(toConfirm[i])
         => latest_blocks = <<>> /\ \A j \in 1..(i - 1) : toConfirm[j].type # "Block"

WindowInv == WindowIsBranch /\ WindowOnBranch /\ GenesisFirst

-----------------------------------------------------------------------------
(* GenesisFirst, by the ways in which toConfirm changes.                   *)


-----------------------------------------------------------------------------
(* WindowOnBranch.                                                         *)

LEMMA PrefixOnBranch ==
  ASSUME TypeInv, WindowOnBranch, NEW k \in 0..Depth, latest_blocks' = WindowPrefix(k)
  PROVE  WindowOnBranch'
<1>1. /\ Depth = Len(latest_blocks) /\ Depth \in Nat
      /\ Len(latest_blocks') = k
      /\ \A i \in 1..k : latest_blocks'[i] = latest_blocks[i]
  BY SMT, PrefixTyped DEF TypeInv, TypeOK, Depth, WindowPrefix
<1> SUFFICES ASSUME NEW i \in 1..k, NEW j \in 1..k, i <= j
             PROVE  /\ latest_blocks'[i] \in Branch[latest_blocks'[j]]
                    /\ Height[latest_blocks'[j]] - Height[latest_blocks'[i]] = j - i
  BY <1>1 DEF WindowOnBranch
<1>2. i \in 1..Len(latest_blocks) /\ j \in 1..Len(latest_blocks)
  BY SMT, <1>1
<1> QED
  BY <1>1, <1>2 DEF WindowOnBranch

LEMMA EmptyOnBranch == latest_blocks' = <<>> => WindowOnBranch'
BY SMT DEF WindowOnBranch

(* The window together with a block that extends it.                       *)
LEMMA ExtendedOnBranch ==
  ASSUME TypeInv, WindowOnBranch, NEW b \in known, ~IsReorg(b),
         b = Genesis => latest_blocks = <<>>
  PROVE  LET window == Append(latest_blocks, b)
         IN  \A i, j \in 1..(Depth + 1) :
               i <= j => /\ window[i] \in Branch[window[j]]
                         /\ Height[window[j]] - Height[window[i]] = j - i
<1> DEFINE window == Append(latest_blocks, b)
<1>1. /\ Depth \in Nat /\ Depth = Len(latest_blocks)
      /\ latest_blocks \in Seq(Block)
      /\ b \in Block
  BY SMT DEF TypeInv, TypeOK, ChainInv, Depth
<1>2. /\ window[Depth + 1] = b
      /\ \A i \in 1..Depth : window[i] = latest_blocks[i] /\ window[i] \in Block
  BY SMT, <1>1
<1> HIDE DEF window
<1> SUFFICES ASSUME NEW i \in 1..(Depth + 1), NEW j \in 1..(Depth + 1), i <= j
             PROVE  /\ window[i] \in Branch[window[j]]
                    /\ Height[window[j]] - Height[window[i]] = j - i
  BY DEF window
<1>3. CASE j \in 1..Depth
  <2>1. i \in 1..Depth
    BY SMT, <1>1, <1>3
  <2> QED
    BY <1>1, <1>2, <1>3, <2>1 DEF WindowOnBranch
<1>4. CASE i = Depth + 1
  BY SMT, <1>1, <1>2, <1>4, OnOwnBranch, TreeAssumption
<1>5. CASE j = Depth + 1 /\ i \in 1..Depth
  <2>1. b # Genesis /\ latest_blocks[Depth] = Parent[b] /\ Depth \in 1..Depth
    BY SMT, <1>1, <1>5, TreeAssumption DEF IsReorg
  <2>2. /\ window[i] \in Branch[Parent[b]]
        /\ Height[Parent[b]] - Height[window[i]] = Depth - i
    BY SMT, <1>1, <1>2, <1>5, <2>1 DEF WindowOnBranch
  <2>3. Parent[b] \in Block /\ Height[b] = Height[Parent[b]] + 1
        /\ Branch[b] = Branch[Parent[b]] \cup {b}
        /\ Height[Parent[b]] \in Nat /\ Height[window[i]] \in Nat
    BY <1>1, <1>2, <1>5, <2>1, TreeAssumption
  <2>4. window[i] \in Branch[b]
    BY <2>2, <2>3
  <2>5. Height[b] - Height[window[i]] = (Depth + 1) - i
    <3>1. \A p, w, d, k \in Int : p - w = d - k => (p + 1) - w = (d + 1) - k
      BY SMT
    <3> QED
      BY SMT, <1>1, <1>5, <2>2, <2>3, <3>1
  <2> QED
    BY <1>2, <1>5, <2>4, <2>5
<1>6. j \in 1..Depth \/ i = Depth + 1 \/ (j = Depth + 1 /\ i \in 1..Depth)
  BY SMT, <1>1
<1> QED
  BY <1>3, <1>4, <1>5, <1>6

-----------------------------------------------------------------------------
(* The window in a step of the node, when init is not retried.             *)

(* What the controller may do to the confirmator's channel.                *)
LEMMA ControllerSendsTxs ==
  ASSUME TypeInv, ControllerEvent
  PROVE  toConfirm' = toConfirm \/ \E S : toConfirm' = Append(toConfirm, Txs(S))
<1>1. Head(toController) \in ControllerMsg
  BY HeadTailTyped DEF TypeInv, TypeOK, ControllerEvent
<1> QED
  BY <1>1 DEF ControllerEvent, ControllerMsg, handle_new_lrc20_txs,
       handle_partially_checked_txs, handle_fully_checked_txs, handle_mined_txs,
       handle_confirmed_txs, handle_reorganization_txs, handle_attached_txs,
       SendUnlessEmpty, Send

LEMMA RestartGenesisFirst ==
  ASSUME TypeInv, Restart
  PROVE  GenesisFirst' /\ latest_blocks' = <<>>
<1> DEFINE waiting == {t \in Txid : mempool[t] = "WaitingMined"}
                        \cup {t \in Txid : mempool[t] = "Mined"}
<1>1. /\ latest_blocks' = <<>>
      /\ toConfirm' = SendUnlessEmpty(<<>>, Txs(waiting))
  BY DEF Restart, RestartNode, handle_mempool_txs
<1> HIDE DEF waiting
<1>2. toConfirm' = <<>> \/ toConfirm' = <<Txs(waiting)>>
  BY SMT, <1>1 DEF SendUnlessEmpty, Send
<1>3. \A i \in 1..Len(toConfirm') : toConfirm'[i].type = "Txs"
  <2> DEFINE m == Txs(waiting)
  <2>1. m.type = "Txs"
    BY DEF Txs
  <2>2. toConfirm' = <<>> \/ toConfirm' = <<m>>
    BY <1>2
  <2> HIDE DEF m
  <2>3. CASE toConfirm' = <<>>
    BY SMT, <2>3
  <2>4. CASE toConfirm' = <<m>>
    BY SMT, <2>1, <2>4
  <2> QED
    BY <2>2, <2>3, <2>4
<1> QED
  BY <1>1, <1>3 DEF GenesisFirst, NoBlockSent, IsGenesisMsg

LEMMA WindowInvNext ==
  /\ TypeInv
  /\ WindowInv
  /\ [Next]_vars
  /\ ~Fault("retry")
  => WindowInv'

<1>GenesisAppendTxs.
  ASSUME TypeInv, GenesisFirst, NEW S, toConfirm' = Append(toConfirm, Txs(S)),
         UNCHANGED <<latest_blocks, phase, indexer_last_block_height>>
  PROVE  GenesisFirst'
  <2> USE <1>GenesisAppendTxs
  <2>1. /\ toConfirm \in Seq(ConfirmMsg)
        /\ Txs(S).type = "Txs"
    BY DEF TypeInv, TypeOK, Txs
  <2>2. /\ Len(toConfirm') = Len(toConfirm) + 1
        /\ \A i \in 1..Len(toConfirm) : toConfirm'[i] = toConfirm[i]
        /\ toConfirm'[Len(toConfirm) + 1].type = "Txs"
        /\ Len(toConfirm) \in Nat
    BY SMT, <2>1
  <2> QED
    BY SMT, <2>2 DEF GenesisFirst, NoBlockSent, IsGenesisMsg

(* A block above height 0 is appended.                                     *)
<1>GenesisAppendBlock.
  ASSUME TypeInv, GenesisFirst, NEW b \in Block,
         b # Genesis \/ (latest_blocks = <<>> /\ NoBlockSent),
         toConfirm' = Append(toConfirm, BlockMsg(b)),
         UNCHANGED latest_blocks,
         phase' # "init", phase' = "load" => indexer_last_block_height' # 0
  PROVE  GenesisFirst'
  <2> USE <1>GenesisAppendBlock
  <2>1. /\ toConfirm \in Seq(ConfirmMsg)
        /\ BlockMsg(b).type = "Block" /\ BlockMsg(b).block = b
    BY DEF TypeInv, TypeOK, BlockMsg
  <2>2. /\ Len(toConfirm') = Len(toConfirm) + 1
        /\ \A i \in 1..Len(toConfirm) : toConfirm'[i] = toConfirm[i]
        /\ toConfirm'[Len(toConfirm) + 1] = BlockMsg(b)
        /\ Len(toConfirm) \in Nat
    BY SMT, <2>1
  <2> QED
    BY SMT, <2>1, <2>2 DEF GenesisFirst, NoBlockSent, IsGenesisMsg

(* A message Txs is handled, in part or in full.                           *)
<1>GenesisTxsHandled.
  ASSUME TypeInv, GenesisFirst, Next1(toConfirm, "Txs"),
         \/ toConfirm' = Tail(toConfirm)
         \/ \E S : toConfirm' = <<Txs(S)>> \o Tail(toConfirm),
         UNCHANGED <<latest_blocks, phase, indexer_last_block_height>>
  PROVE  GenesisFirst'
  <2> USE <1>GenesisTxsHandled
  <2>1. /\ toConfirm \in Seq(ConfirmMsg) /\ toConfirm # <<>> /\ Len(toConfirm) \in Nat
        /\ toConfirm[1].type = "Txs"
    BY SMT DEF TypeInv, TypeOK, Next1
  <2>2. CASE toConfirm' = Tail(toConfirm)
    <3>1. /\ Len(toConfirm') = Len(toConfirm) - 1
          /\ \A i \in 1..Len(toConfirm') : toConfirm'[i] = toConfirm[i + 1]
      BY SMT, <2>1, <2>2
    <3>2. NoBlockSent => NoBlockSent'
      BY SMT, <2>1, <3>1 DEF NoBlockSent
    <3>3. ASSUME NEW i \in 1..Len(toConfirm'), IsGenesisMsg(toConfirm'[i])
          PROVE  /\ latest_blocks' = <<>>
                 /\ \A j \in 1..(i - 1) : toConfirm'[j].type # "Block"
      <4>1. i + 1 \in 1..Len(toConfirm) /\ IsGenesisMsg(toConfirm[i + 1])
        BY SMT, <2>1, <3>1, <3>3
      <4>2. /\ latest_blocks = <<>>
            /\ \A j \in 1..i : toConfirm[j].type # "Block"
        BY SMT, <4>1 DEF GenesisFirst
      <4>3. ASSUME NEW j \in 1..(i - 1) PROVE toConfirm'[j].type # "Block"
        <5>1. j \in 1..Len(toConfirm') /\ j + 1 \in 1..i
          BY SMT, <2>1, <3>1
        <5> QED
          BY <3>1, <4>2, <5>1
      <4> QED
        BY <4>2, <4>3
    <3> QED
      BY <3>2, <3>3 DEF GenesisFirst
  <2>3. CASE \E S : toConfirm' = <<Txs(S)>> \o Tail(toConfirm)
    <3>1. PICK S : toConfirm' = <<Txs(S)>> \o Tail(toConfirm)
      BY <2>3
    <3>2. Txs(S).type = "Txs"
      BY DEF Txs
    <3>3. /\ Len(toConfirm') = Len(toConfirm)
          /\ toConfirm'[1] = Txs(S)
          /\ \A i \in 2..Len(toConfirm) : toConfirm'[i] = toConfirm[i]
      BY SMT, <2>1, <3>1
    <3> QED
      BY SMT, <2>1, <3>2, <3>3 DEF GenesisFirst, NoBlockSent, IsGenesisMsg
  <2> QED
    BY <2>2, <2>3

(* A block is handled: there is no genesis block behind it, and the        *)
(* indexer has been started.                                               *)
<1>GenesisBlockHandled.
  ASSUME TypeInv, GenesisFirst, Next1(toConfirm, "Block"),
         toConfirm' = Tail(toConfirm),
         UNCHANGED <<phase, indexer_last_block_height>>
  PROVE  GenesisFirst'
  <2> USE <1>GenesisBlockHandled
  <2>1. /\ toConfirm \in Seq(ConfirmMsg) /\ toConfirm # <<>> /\ Len(toConfirm) \in Nat
        /\ toConfirm[1].type = "Block"
    BY SMT DEF TypeInv, TypeOK, Next1
  <2>2. /\ Len(toConfirm') = Len(toConfirm) - 1
        /\ \A i \in 1..Len(toConfirm') : toConfirm'[i] = toConfirm[i + 1]
    BY SMT, <2>1
  <2>3. ~(phase = "init" \/ (phase = "load" /\ indexer_last_block_height = 0))
    BY SMT, <2>1 DEF GenesisFirst, NoBlockSent
  <2>4. \A i \in 2..Len(toConfirm) : ~IsGenesisMsg(toConfirm[i])
    BY SMT, <2>1 DEF GenesisFirst
  <2> QED
    BY SMT, <2>1, <2>2, <2>3, <2>4 DEF GenesisFirst

<1>ReorgOnBranch.
  ASSUME TypeInv, WindowOnBranch, NEW b \in known, handle_reorg(b)
  PROVE  WindowOnBranch'
  <2> USE <1>ReorgOnBranch
  <2>1. b \in Block /\ Height[b] \in Nat /\ Depth \in Nat
    BY SMT, TreeAssumption DEF TypeInv, TypeOK, ChainInv, Depth
  <2>2. CASE ForkIsKnown(b)
    <3>1. OrphansOf(b) \in 0..(Depth - 1)
      BY <2>1, <2>2, OrphansAreFewest
    <3>2. Depth - OrphansOf(b) \in 0..Depth
      BY SMT, <2>1, <3>1
    <3> QED
      BY <2>2, <3>2, PrefixOnBranch DEF handle_reorg
  <2>3. CASE ~ForkIsKnown(b)
    <3>1. CASE Depth <= Height[b]
      BY <2>3, <3>1, EmptyOnBranch DEF handle_reorg
    <3>2. CASE ~(Depth <= Height[b])
      <4>1. Depth - Height[b] - 1 \in 0..Depth
        BY SMT, <2>1, <3>2
      <4> QED
        BY <2>3, <3>2, <4>1, PrefixOnBranch DEF handle_reorg
    <3> QED
      BY <3>1, <3>2
  <2> QED
    BY <2>2, <2>3

<1>ExtendOnBranch.
  ASSUME TypeInv, WindowIsBranch, WindowOnBranch, NEW b \in known, ~IsReorg(b),
         b = Genesis => latest_blocks = <<>>, ExtendWindow(b)
  PROVE  WindowOnBranch'
  <2> USE <1>ExtendOnBranch
  <2> DEFINE window == Append(latest_blocks, b)
  <2>1. Depth \in Nat /\ Depth = Len(latest_blocks) /\ Depth < confirmations_number
    BY SMT DEF TypeInv, TypeOK, Depth, WindowIsBranch
  <2>2. /\ Len(window) = Depth + 1
        /\ \/ latest_blocks' = window
           \/ /\ Len(latest_blocks') = Depth
              /\ \A i \in 1..Depth : latest_blocks'[i] = window[i + 1]
    BY <2>1, ExtendedWindow
  <2>3. \A i, j \in 1..(Depth + 1) :
          i <= j => /\ window[i] \in Branch[window[j]]
                    /\ Height[window[j]] - Height[window[i]] = j - i
    BY ExtendedOnBranch
  <2> HIDE DEF window
  <2>4. CASE latest_blocks' = window
    BY <2>2, <2>3, <2>4 DEF WindowOnBranch
  <2>5. CASE /\ Len(latest_blocks') = Depth
             /\ \A i \in 1..Depth : latest_blocks'[i] = window[i + 1]
    <3> SUFFICES ASSUME NEW i \in 1..Depth, NEW j \in 1..Depth, i <= j
                 PROVE  /\ latest_blocks'[i] \in Branch[latest_blocks'[j]]
                        /\ Height[latest_blocks'[j]] - Height[latest_blocks'[i]] = j - i
      BY <2>5 DEF WindowOnBranch
    <3>1. /\ i + 1 \in 1..(Depth + 1) /\ j + 1 \in 1..(Depth + 1) /\ i + 1 <= j + 1
          /\ (j + 1) - (i + 1) = j - i
      BY SMT, <2>1
    <3>2. /\ window[i + 1] \in Branch[window[j + 1]]
          /\ Height[window[j + 1]] - Height[window[i + 1]] = (j + 1) - (i + 1)
      BY <2>3, <3>1
    <3> QED
      BY <2>5, <3>1, <3>2
  <2> QED
    BY <2>2, <2>4, <2>5

(* A step of the indexer keeps the genesis block first.                    *)
<1>IndexerGenesisFirst.
  ASSUME TypeInv, GenesisFirst, IndexerStep \/ IndexerFault, ~InitRetries
  PROVE  GenesisFirst'
  <2> USE <1>IndexerGenesisFirst
  <2>1. UNCHANGED latest_blocks
    BY DEF IndexerStep, IndexerFault, confirmatorVars
  <2>2. /\ tip \in Block /\ Height[tip] \in Nat
        /\ indexer_last_block_height \in Nat /\ confirmed_block_height \in Nat
        /\ phase = "load" => load_to \in Nat /\ load_to <= Height[tip]
        /\ phase \in {"run", "poll"} =>
             confirmed_block_height <= Height[tip]
    BY SMT, TreeAssumption DEF TypeInv, TypeOK, ChainInv
  <2>3. CASE InitStarts
    BY <2>1, <2>3 DEF InitStarts, GenesisFirst, NoBlockSent
  <2>4. CASE init_blocks_handle
    <3> DEFINE h == indexer_last_block_height
               b == BlockAt(tip, h)
    <3>1. h \in 0..Height[tip]
      BY SMT, <2>2, <2>4 DEF init_blocks_handle
    <3>2. b \in Block /\ Height[b] = h
      BY <3>1, TipBlock DEF TypeInv, TypeOK
    <3>3. b # Genesis \/ (latest_blocks = <<>> /\ NoBlockSent)
      BY <2>4, <3>2, TreeAssumption DEF init_blocks_handle, GenesisFirst
    <3>4. /\ toConfirm' = Append(toConfirm, BlockMsg(b))
          /\ phase' = "load" /\ indexer_last_block_height' = h + 1
      BY <2>4 DEF init_blocks_handle, index_block, Send
    <3>5. indexer_last_block_height' # 0
      BY SMT, <2>2, <3>4
    <3> QED
      BY <2>1, <3>2, <3>3, <3>4, <3>5, <1>GenesisAppendBlock
  <2>5. CASE InitFinishes \/ LoaderFails \/ IndexerEvent
    BY <2>1, <2>5 DEF InitFinishes, LoaderFails, StartPolling, IndexerEvent,
                      handle_reorganization, GenesisFirst
  <2>6. CASE handle_new_blocks \/ UpdateStateFails
    <3> DEFINE b == BlockAt(tip, confirmed_block_height + 1)
    <3>1. phase' = "run"
      BY <2>6 DEF handle_new_blocks, UpdateStateFails
    <3>2. \/ toConfirm' = toConfirm
          \/ /\ confirmed_block_height + 1 \in 0..Height[tip]
             /\ toConfirm' = Append(toConfirm, BlockMsg(b))
      BY SMT, <2>2, <2>6 DEF handle_new_blocks, UpdateStateFails, index_block, Send
    <3>3. CASE toConfirm' = toConfirm
      BY <2>1, <3>1, <3>3 DEF GenesisFirst
    <3>4. CASE /\ confirmed_block_height + 1 \in 0..Height[tip]
               /\ toConfirm' = Append(toConfirm, BlockMsg(b))
      <4>1. b \in Block /\ Height[b] = confirmed_block_height + 1
        BY <3>4, TipBlock DEF TypeInv, TypeOK
      <4>2. b # Genesis
        BY SMT, <2>2, <4>1, TreeAssumption
      <4> HIDE DEF b
      <4> QED
        BY <2>1, <3>1, <3>4, <4>1, <4>2, <1>GenesisAppendBlock
    <3> QED
      BY <3>2, <3>3, <3>4
  <2> QED
    BY <2>3, <2>4, <2>5, <2>6 DEF IndexerStep, IndexerFault

<1>GenesisFirstNext.
  ASSUME TypeInv, GenesisFirst, [Next]_vars, ~Fault("retry")
  PROVE  GenesisFirst'
  <2> USE <1>GenesisFirstNext
  <2>1. CASE UNCHANGED <<toConfirm, latest_blocks, phase, indexer_last_block_height>>
    BY <2>1 DEF GenesisFirst, NoBlockSent
  <2>2. CASE ControllerStep
    BY <2>2, ControllerSendsTxs, <1>GenesisAppendTxs, <2>1
       DEF ControllerStep, confirmatorVars, indexerVars
  <2>3. CASE IndexerStep \/ IndexerFault
    <3>1. ~InitRetries
      BY <2>3 DEF IndexerStep, IndexerFault, InitRetries, InitStarts, init_blocks_handle,
                  InitFinishes, LoaderFails, StartPolling, IndexerEvent, handle_reorganization,
                  handle_new_blocks, UpdateStateFails
    <3> QED
      BY <2>3, <3>1, <1>IndexerGenesisFirst
  <2>4. CASE ConfirmatorStep \/ ConfirmatorFault
    <3>1. UNCHANGED <<phase, indexer_last_block_height>>
      BY <2>4 DEF ConfirmatorStep, ConfirmatorFault, indexerVars
    <3>2. CASE handle_new_block \/ BranchLookupFails
      BY <3>1, <3>2, <1>GenesisBlockHandled DEF handle_new_block, BranchLookupFails
    <3>3. ASSUME NEW t \in Txid, handle_tx_to_confirm(t) \/ TxLookupFails(t)
          PROVE  GenesisFirst'
      <4>1. /\ Next1(toConfirm, "Txs")
            /\ \/ toConfirm' = Tail(toConfirm)
               \/ \E S : toConfirm' = <<Txs(S)>> \o Tail(toConfirm)
            /\ UNCHANGED latest_blocks
        BY <3>3 DEF handle_tx_to_confirm, TxLookupFails, WithoutTx
      <4> QED
        BY <3>1, <4>1, <1>GenesisTxsHandled
    <3> QED
      BY <2>4, <3>2, <3>3 DEF ConfirmatorStep, ConfirmatorFault
  <2>5. CASE Restart
    BY <2>5, RestartGenesisFirst
  <2>6. CASE ChainStep \/ (\E x \in Tx : Submit(x)) \/ CheckerAccepts \/ GraphBuilderAttaches
             \/ CleanUp
    BY <2>1, <2>6 DEF ChainStep, Submit, CheckerAccepts, GraphBuilderAttaches, CleanUp,
         clean_up_waiting_txs, channels, confirmatorVars, indexerVars
  <2> QED
    BY <2>1, <2>2, <2>3, <2>4, <2>5, <2>6
       DEF Next, vars, channels, confirmatorVars, indexerVars

<1>WindowOnBranchNext.
  ASSUME TypeInv, WindowInv, [Next]_vars
  PROVE  WindowOnBranch'
  <2> USE <1>WindowOnBranchNext
  <2> DEFINE b == Head(toConfirm).block
  <2>1. CASE latest_blocks' = latest_blocks
    BY <2>1 DEF WindowInv, WindowOnBranch
  <2>2. CASE handle_new_block
    <3>1. b \in known
      BY <2>2, HeadTailTyped DEF handle_new_block, Next1, TypeInv, ChainInv, KnownConfirmMsg
    <3>2. b = Genesis => latest_blocks = <<>>
      <4>1. 1 \in 1..Len(toConfirm) /\ toConfirm[1] = Head(toConfirm)
            /\ Head(toConfirm).type = "Block"
        BY SMT, <2>2 DEF handle_new_block, Next1, TypeInv, TypeOK
      <4> QED
        BY <4>1 DEF WindowInv, GenesisFirst, IsGenesisMsg
    <3>3. IF IsReorg(b) THEN handle_reorg(b) ELSE ExtendWindow(b)
      BY <2>2 DEF handle_new_block
    <3> HIDE DEF b
    <3> QED
      BY <3>1, <3>2, <3>3, <1>ReorgOnBranch, <1>ExtendOnBranch DEF WindowInv
  <2>3. CASE BranchLookupFails
    <3>1. PICK k \in 0..(Depth - 1) : latest_blocks' = WindowPrefix(k)
      BY <2>3 DEF BranchLookupFails
    <3>2. k \in 0..Depth
      BY SMT DEF TypeInv, TypeOK, Depth
    <3> QED
      BY <3>1, <3>2, PrefixOnBranch DEF WindowInv
  <2>4. CASE Restart
    BY <2>4, EmptyOnBranch DEF Restart, RestartNode
  <2>5. \/ latest_blocks' = latest_blocks \/ handle_new_block \/ BranchLookupFails \/ Restart
    BY DEF Next, vars, ChainStep, Submit, CheckerAccepts, GraphBuilderAttaches, ControllerStep,
           ConfirmatorStep, CleanUp, IndexerStep, ConfirmatorFault, IndexerFault,
           handle_tx_to_confirm, clean_up_waiting_txs, TxLookupFails, confirmatorVars
  <2> QED
    BY <2>1, <2>2, <2>3, <2>4, <2>5

<1> SUFFICES ASSUME TypeInv, WindowInv, [Next]_vars, ~Fault("retry")
             PROVE  WindowInv'
  OBVIOUS
<1> QED
  BY WindowNext, <1>WindowOnBranchNext, <1>GenesisFirstNext DEF WindowInv

-----------------------------------------------------------------------------
(* Whatever carries a transaction that is taken for confirmed carries a    *)
(* buried one.                                                             *)

Buried == {t \in Txid : WasBuried(t)}

BuriedControllerMsg ==
  {m \in ControllerMsg :
     /\ m.type \in {"ConfirmedTxs", "AttachedTxs"} => m.txs \subseteq Buried
     /\ m.type = "FullyCheckedTxs" => Ids(m.txs) \subseteq Buried}

BuriedCheckerMsg ==
  {m \in CheckerMsg : m.type = "FullCheck" => Ids(m.txs) \subseteq Buried}

BuriedGraphMsg == {m \in GraphMsg : Ids(m.txs) \subseteq Buried}

ConfirmedInv ==
  /\ toController \in Seq(BuriedControllerMsg)
  /\ toChecker \in Seq(BuriedCheckerMsg)
  /\ toGraph \in Seq(BuriedGraphMsg)
  /\ \A t \in Txid :
       mempool[t] = "Attaching" \/ (l1[t] # NoRow /\ l1[t].status = "Attached")
         => t \in Buried

-----------------------------------------------------------------------------
(* The steps of the environment.                                           *)

-----------------------------------------------------------------------------
(* The controller.                                                         *)

(* What a handler may do.                                                  *)
HandlerBuried ==
  /\ toChecker' \in Seq(BuriedCheckerMsg)
  /\ toGraph' \in Seq(BuriedGraphMsg)
  /\ \A t \in Txid :
       mempool'[t] = "Attaching" \/ (l1'[t] # NoRow /\ l1'[t].status = "Attached")
         => t \in Buried

-----------------------------------------------------------------------------
(* The confirmator: the two places where a transaction becomes confirmed.  *)

LEMMA ConfirmedNext ==
  /\ TypeInv
  /\ WindowInv
  /\ ConfirmedInv
  /\ [Next]_vars
  => ConfirmedInv'

(* What is buried once stays so: blocks never leave `known`.               *)
<1>BuriedStays. ASSUME TypeInv, [Next]_vars PROVE Buried \subseteq Buried'
  <2> USE <1>BuriedStays
  <2>1. known \subseteq known'
    BY DEF Next, vars, chainVars, ChainStep, NewTip, Submit, CheckerAccepts, GraphBuilderAttaches,
           ControllerStep, ConfirmatorStep, CleanUp, IndexerStep, ConfirmatorFault, IndexerFault,
           Restart, RestartNode
  <2> QED
    BY <2>1 DEF Buried, WasBuried

<1>SameBuried. known' = known => Buried' = Buried
  BY DEF Buried, WasBuried

(* ConfirmedInv, from what a step leaves in channels and storage.          *)
<1>ConfirmedFrom.
  ASSUME known' = known,
         toController' \in Seq(BuriedControllerMsg),
         toChecker' \in Seq(BuriedCheckerMsg),
         toGraph' \in Seq(BuriedGraphMsg),
         \A t \in Txid :
           mempool'[t] = "Attaching" \/ (l1'[t] # NoRow /\ l1'[t].status = "Attached")
             => t \in Buried
  PROVE  ConfirmedInv'
  <2> USE <1>ConfirmedFrom
  <2>1. Buried' = Buried
    BY <1>SameBuried
  <2>2. BuriedControllerMsg' = BuriedControllerMsg
    BY <2>1 DEF BuriedControllerMsg
  <2>3. BuriedCheckerMsg' = BuriedCheckerMsg
    BY <2>1 DEF BuriedCheckerMsg
  <2>4. BuriedGraphMsg' = BuriedGraphMsg
    BY <2>1 DEF BuriedGraphMsg
  <2> QED
    BY <2>1, <2>2, <2>3, <2>4 DEF ConfirmedInv

<1>ConfirmedUnchanged.
  ASSUME ConfirmedInv, known' = known, UNCHANGED <<toController, toChecker, toGraph, storage>>
  PROVE  ConfirmedInv'
  BY <1>ConfirmedUnchanged, <1>ConfirmedFrom DEF ConfirmedInv, storage

<1>ConfirmedChainStep.
  ASSUME TypeInv, ConfirmedInv, ChainStep
  PROVE  ConfirmedInv'
  <2> USE <1>ConfirmedChainStep
  <2>1. Buried \subseteq Buried' /\ UNCHANGED <<toController, toChecker, toGraph, l1, mempool>>
    BY <1>BuriedStays DEF ChainStep, Next, channels, storage
  <2>2. BuriedControllerMsg \subseteq BuriedControllerMsg'
    BY <2>1 DEF BuriedControllerMsg
  <2>3. BuriedCheckerMsg \subseteq BuriedCheckerMsg' /\ BuriedGraphMsg \subseteq BuriedGraphMsg'
    BY <2>1 DEF BuriedCheckerMsg, BuriedGraphMsg
  <2>4. /\ toController' \in Seq(BuriedControllerMsg')
        /\ toChecker' \in Seq(BuriedCheckerMsg')
        /\ toGraph' \in Seq(BuriedGraphMsg')
    BY <2>1, <2>2, <2>3, SeqMono DEF ConfirmedInv
  <2> QED
    BY <2>1, <2>4 DEF ConfirmedInv

<1>ConfirmedSubmit.
  ASSUME TypeInv, ConfirmedInv, NEW x \in Tx, Submit(x)
  PROVE  ConfirmedInv'
  <2> USE <1>ConfirmedSubmit
  <2>1. InitializeTxs({x}) \in BuriedControllerMsg
    BY DEF InitializeTxs, BuriedControllerMsg, ControllerMsg
  <2>2. toController' \in Seq(BuriedControllerMsg)
    BY <2>1, AppendTyped DEF Submit, Send, ConfirmedInv
  <2> QED
    BY <2>2, <1>ConfirmedFrom DEF Submit, ConfirmedInv, chainVars, storage

<1>ConfirmedCheckerAccepts.
  ASSUME TypeInv, ConfirmedInv, CheckerAccepts
  PROVE  ConfirmedInv'
  <2> USE <1>ConfirmedCheckerAccepts
  <2> DEFINE m == Head(toChecker)
             r == IF m.type = "FullCheck" THEN FullyCheckedTxs(m.txs)
                  ELSE PartiallyCheckedTxs(Ids(m.txs))
  <2>1. m \in BuriedCheckerMsg /\ toChecker' \in Seq(BuriedCheckerMsg)
    BY HeadTailTyped DEF CheckerAccepts, ConfirmedInv
  <2>2. Ids(m.txs) \in SUBSET Txid /\ m.txs \in SUBSET Tx
    BY SMT, <2>1, TxAssumption DEF BuriedCheckerMsg, CheckerMsg, Ids
  <2>3. r \in BuriedControllerMsg
    <3>1. CASE m.type = "FullCheck"
      BY <2>1, <2>2, <3>1 DEF BuriedCheckerMsg, BuriedControllerMsg, ControllerMsg, FullyCheckedTxs
    <3>2. CASE m.type # "FullCheck"
      BY <2>2, <3>2 DEF BuriedControllerMsg, ControllerMsg, PartiallyCheckedTxs
    <3> QED
      BY <3>1, <3>2
  <2>4. toController' = SendUnlessEmpty(toController, r)
    BY DEF CheckerAccepts
  <2> HIDE DEF r
  <2>5. toController' \in Seq(BuriedControllerMsg)
    BY <2>3, <2>4, SendTyped DEF ConfirmedInv
  <2> QED
    BY <2>1, <2>5, <1>ConfirmedFrom DEF CheckerAccepts, ConfirmedInv, chainVars, storage

<1>ConfirmedGraphBuilderAttaches.
  ASSUME TypeInv, ConfirmedInv, GraphBuilderAttaches
  PROVE  ConfirmedInv'
  <2> USE <1>ConfirmedGraphBuilderAttaches
  <2>1. Head(toGraph) \in BuriedGraphMsg /\ toGraph' \in Seq(BuriedGraphMsg)
    BY HeadTailTyped DEF GraphBuilderAttaches, ConfirmedInv
  <2>2. Ids(Head(toGraph).txs) \in SUBSET Txid /\ Ids(Head(toGraph).txs) \subseteq Buried
    BY SMT, <2>1, TxAssumption DEF BuriedGraphMsg, GraphMsg, Ids
  <2>3. AttachedTxs(Ids(Head(toGraph).txs)) \in BuriedControllerMsg
    BY <2>2 DEF AttachedTxs, BuriedControllerMsg, ControllerMsg
  <2>4. toController' \in Seq(BuriedControllerMsg)
    BY <2>3, AppendTyped DEF GraphBuilderAttaches, Send, ConfirmedInv
  <2> QED
    BY <2>1, <2>4, <1>ConfirmedFrom DEF GraphBuilderAttaches, ConfirmedInv, chainVars, storage

<1>ConfirmedNewTxs.
  ASSUME TypeInv, ConfirmedInv, NEW X, X \subseteq Tx, handle_new_lrc20_txs(X)
  PROVE  HandlerBuried
  <2> USE <1>ConfirmedNewTxs
  <2> DEFINE new == {x \in X : IsNew(x)}
  <2>1. IsolatedCheck(new) \in BuriedCheckerMsg
    BY DEF IsolatedCheck, BuriedCheckerMsg, CheckerMsg
  <2>2. /\ l1' = Inserted(new) /\ mempool' = MempoolPut(Ids(new)) /\ UNCHANGED toGraph
        /\ toChecker' = SendUnlessEmpty(toChecker, IsolatedCheck(new))
    BY DEF handle_new_lrc20_txs
  <2> HIDE DEF new
  <2>3. toChecker' \in Seq(BuriedCheckerMsg)
    BY <2>1, <2>2, SendTyped DEF ConfirmedInv
  <2>4. \A t \in Txid : mempool'[t] = "Attaching" => mempool[t] = "Attaching"
    BY <2>2 DEF MempoolPut
  <2>5. \A t \in Txid : l1'[t] # NoRow /\ l1'[t].status = "Attached" => l1'[t] = l1[t]
    BY <2>2 DEF Inserted
  <2> QED
    BY <2>2, <2>3, <2>4, <2>5 DEF HandlerBuried, ConfirmedInv

(* Moving entries to a status other than Attaching, all of them or only    *)
(* those before a missing one.                                             *)
<1>ConfirmedSet.
  ASSUME TypeInv, ConfirmedInv, NEW S, NEW s, s # "Attaching", UNCHANGED l1,
         mempool' = MempoolSet(S, s) \/ MissingEntry(S, s),
         UNCHANGED <<toChecker, toGraph>>
  PROVE  HandlerBuried
  <2> USE <1>ConfirmedSet
  <2>1. \A t \in Txid : mempool'[t] = "Attaching" => mempool[t] = "Attaching"
    BY DEF MempoolSet, MissingEntry
  <2> QED
    BY <2>1 DEF HandlerBuried, ConfirmedInv

<1>ConfirmedFullyChecked.
  ASSUME TypeInv, ConfirmedInv, NEW X, X \subseteq Tx, Ids(X) \subseteq Buried,
         handle_fully_checked_txs(X)
  PROVE  HandlerBuried
  <2> USE <1>ConfirmedFullyChecked
  <2> DEFINE announcements == {x \in X : IsAnnouncement(x)}
             others        == X \ announcements
  <2>1. Ids(announcements) \subseteq Buried /\ Ids(others) \subseteq Buried
    BY DEF Ids
  <2>2. CheckedTxs(others) \in BuriedGraphMsg
    BY <2>1 DEF CheckedTxs, BuriedGraphMsg, GraphMsg
  <2>3. \/ /\ mempool' =
                [t \in Txid |-> IF t \in Ids(announcements) THEN "None"
                                ELSE IF t \in Ids(others) THEN "Attaching"
                                ELSE mempool[t]]
           /\ l1' = WithStatus(Ids(announcements), "Attached")
           /\ toGraph' = SendUnlessEmpty(toGraph, CheckedTxs(others))
        \/ MissingEntry(Ids(others), "Attaching") /\ UNCHANGED toGraph
    BY DEF handle_fully_checked_txs
  <2>4. UNCHANGED toChecker
    BY DEF handle_fully_checked_txs
  <2> HIDE DEF announcements, others
  <2>5. toGraph' \in Seq(BuriedGraphMsg)
    BY <2>2, <2>3, SendTyped DEF ConfirmedInv
  <2>6. \A t \in Txid : mempool'[t] = "Attaching" => mempool[t] = "Attaching" \/ t \in Ids(others)
    <3>1. CASE MissingEntry(Ids(others), "Attaching")
      BY <3>1 DEF MissingEntry, MempoolSet, Entries
    <3> QED
      BY <2>3, <3>1
  <2>7. \A t \in Txid : l1'[t] = l1[t] \/ t \in Ids(announcements)
    BY <2>3 DEF WithStatus, MissingEntry
  <2> QED
    BY <2>1, <2>4, <2>5, <2>6, <2>7 DEF HandlerBuried, ConfirmedInv

<1>ConfirmedConfirmed.
  ASSUME TypeInv, ConfirmedInv, NEW S, S \subseteq Txid, S \subseteq Buried,
         handle_confirmed_txs(S)
  PROVE  HandlerBuried
  <2> USE <1>ConfirmedConfirmed
  <2> DEFINE X == StoredTxs(Entries(S))
  <2>1. X \subseteq Tx
    BY StoredAreTxs
  <2>2. Ids(X) \subseteq Buried
    BY DEF Ids, StoredTxs, Entries, TypeInv, RowInv
  <2>3. FullCheck(X) \in BuriedCheckerMsg
    BY <2>1, <2>2 DEF FullCheck, BuriedCheckerMsg, CheckerMsg
  <2>4. toChecker' = Append(toChecker, FullCheck(X)) /\ UNCHANGED <<l1, mempool, toGraph>>
    BY DEF handle_confirmed_txs, Send
  <2> HIDE DEF X
  <2>5. toChecker' \in Seq(BuriedCheckerMsg)
    BY <2>3, <2>4, AppendTyped DEF ConfirmedInv
  <2> QED
    BY <2>4, <2>5 DEF HandlerBuried, ConfirmedInv

<1>ConfirmedAttached.
  ASSUME TypeInv, ConfirmedInv, NEW S, S \subseteq Buried, handle_attached_txs(S)
  PROVE  HandlerBuried
  <2> USE <1>ConfirmedAttached
  <2>1. \A t \in Txid : mempool'[t] = "Attaching" => mempool[t] = "Attaching"
    BY DEF handle_attached_txs, MempoolDelete, MempoolSet
  <2>2. \A t \in Txid : l1'[t] = l1[t] \/ t \in S
    BY DEF handle_attached_txs, WithStatus
  <2> QED
    BY <2>1, <2>2 DEF HandlerBuried, ConfirmedInv, handle_attached_txs

<1>ConfirmedControllerStep.
  ASSUME TypeInv, ConfirmedInv, ControllerStep
  PROVE  ConfirmedInv'
  <2> USE <1>ConfirmedControllerStep
  <2> DEFINE m == Head(toController)
  <2>1. m \in BuriedControllerMsg /\ toController' \in Seq(BuriedControllerMsg)
    BY HeadTailTyped DEF ControllerStep, ControllerEvent, ConfirmedInv
  <2>2. m \in ControllerMsg
    BY <2>1 DEF BuriedControllerMsg
  <2>3. HandlerBuried
    <3>1. CASE m.type = "InitializeTxs"
      <4>1. handle_new_lrc20_txs(m.txs) /\ m.txs \subseteq Tx
        BY <2>2, <3>1 DEF ControllerStep, ControllerEvent, ControllerMsg
      <4> QED
        BY <4>1, <1>ConfirmedNewTxs
    <3>2. CASE m.type = "PartiallyCheckedTxs"
      <4>1. handle_partially_checked_txs(m.txs)
        BY <3>2 DEF ControllerStep, ControllerEvent
      <4> QED
        BY <4>1, <1>ConfirmedSet DEF handle_partially_checked_txs, MissingEntry
    <3>3. CASE m.type = "FullyCheckedTxs"
      <4>1. handle_fully_checked_txs(m.txs) /\ m.txs \subseteq Tx /\ Ids(m.txs) \subseteq Buried
        BY <2>1, <2>2, <3>3 DEF ControllerStep, ControllerEvent, ControllerMsg, BuriedControllerMsg
      <4> QED
        BY <4>1, <1>ConfirmedFullyChecked
    <3>4. CASE m.type = "MinedTxs"
      <4>1. handle_mined_txs(m.txs)
        BY <3>4 DEF ControllerStep, ControllerEvent
      <4> QED
        BY <4>1, <1>ConfirmedSet DEF handle_mined_txs, MissingEntry
    <3>5. CASE m.type = "ConfirmedTxs"
      <4>1. handle_confirmed_txs(m.txs) /\ m.txs \subseteq Txid /\ m.txs \subseteq Buried
        BY <2>1, <2>2, <3>5 DEF ControllerStep, ControllerEvent, ControllerMsg, BuriedControllerMsg
      <4> QED
        BY <4>1, <1>ConfirmedConfirmed
    <3>6. CASE m.type = "Reorganization"
      <4>1. handle_reorganization_txs(m.txs, m.height)
        BY <3>6 DEF ControllerStep, ControllerEvent
      <4> QED
        BY <4>1, <1>ConfirmedSet DEF handle_reorganization_txs, MissingEntry
    <3>7. CASE m.type = "AttachedTxs"
      <4>1. handle_attached_txs(m.txs) /\ m.txs \subseteq Buried
        BY <2>1, <3>7 DEF ControllerStep, ControllerEvent, BuriedControllerMsg
      <4> QED
        BY <4>1, <1>ConfirmedAttached
    <3> QED
      BY <2>2, <3>1, <3>2, <3>3, <3>4, <3>5, <3>6, <3>7 DEF ControllerMsg
  <2> QED
    BY <2>1, <2>3, <1>ConfirmedFrom DEF HandlerBuried, ControllerStep, chainVars

(* The block that leaves the window is confirmations_number deep.          *)
<1>WindowConfirms.
  ASSUME TypeInv, WindowInv, NEW b \in known, ~IsReorg(b),
         b = Genesis => latest_blocks = <<>>,
         Len(Append(latest_blocks, b)) = confirmations_number
  PROVE  extract_waiting_txs_from_block(Head(Append(latest_blocks, b))) \subseteq Buried
  <2> USE <1>WindowConfirms
  <2> DEFINE window == Append(latest_blocks, b)
  <2>1. /\ Depth \in Nat /\ Depth = Len(latest_blocks)
        /\ latest_blocks \in Seq(known) /\ queue \in SUBSET Txid
    BY WindowTyped DEF TypeInv, TypeOK
  <2>2. /\ Head(window) = window[1] /\ window[Depth + 1] = b
        /\ Len(window) = Depth + 1 /\ confirmations_number = Depth + 1
    BY SMT, <2>1, AppendFacts
  <2>3. /\ window[1] \in Branch[window[Depth + 1]]
        /\ Height[window[Depth + 1]] - Height[window[1]] = Depth + 1 - 1
    BY SMT, <2>1, ExtendedOnBranch DEF WindowInv
  <2> HIDE DEF window
  <2>4. /\ window[1] \in Branch[b]
        /\ Height[b] - Height[window[1]] + 1 >= confirmations_number
    BY SMT, <2>1, <2>2, <2>3
  <2> QED
    BY <2>1, <2>2, <2>4 DEF extract_waiting_txs_from_block, Buried, WasBuried, window

(* What the Bitcoin node reports as deep enough is buried.                 *)
<1>LookupConfirms.
  ASSUME TypeInv, NEW t \in Txid, Confirmations(t) >= confirmations_number
  PROVE  t \in Buried
  <2> USE <1>LookupConfirms
  <2>1. tip \in known /\ Confirmations(t) # 0
    BY SMT, ConfirmationsAssumption DEF TypeInv, ChainInv
  <2> DEFINE c == CHOOSE d \in Branch[tip] : t \in BlockTxs[d]
  <2>2. /\ c \in Branch[tip] /\ t \in BlockTxs[c]
        /\ Confirmations(t) = Height[tip] - Height[c] + 1
    BY <2>1 DEF Confirmations
  <2> HIDE DEF c
  <2> QED
    BY <2>1, <2>2 DEF Buried, WasBuried

<1>ConfirmedNewBlock.
  ASSUME TypeInv, WindowInv, ConfirmedInv, handle_new_block
  PROVE  toController' \in Seq(BuriedControllerMsg)
  <2> USE <1>ConfirmedNewBlock
  <2> DEFINE b == Head(toConfirm).block
  <2>1. b \in known /\ b \in Block
    <3>1. Head(toConfirm) \in KnownConfirmMsg /\ Head(toConfirm).type = "Block"
      BY HeadTailTyped DEF handle_new_block, Next1, TypeInv, ChainInv
    <3> QED
      BY <3>1 DEF KnownConfirmMsg, TypeInv, TypeOK
  <2>2. b = Genesis => latest_blocks = <<>>
    <3>1. 1 \in 1..Len(toConfirm) /\ toConfirm[1] = Head(toConfirm)
          /\ Head(toConfirm).type = "Block"
      BY SMT DEF handle_new_block, Next1, TypeInv, TypeOK
    <3> QED
      BY <3>1 DEF WindowInv, GenesisFirst, IsGenesisMsg
  <2>3. IF IsReorg(b) THEN handle_reorg(b) ELSE ExtendWindow(b)
    BY DEF handle_new_block
  <2> HIDE DEF b
  <2>4. toController \in Seq(BuriedControllerMsg) /\ toController \in Seq(ControllerMsg)
    BY DEF ConfirmedInv, TypeInv, TypeOK
  <2>5. CASE IsReorg(b)
    <3>1. CASE ~ForkIsKnown(b)
      BY <2>3, <2>4, <2>5, <3>1 DEF handle_reorg
    <3>2. CASE ForkIsKnown(b)
      <4> DEFINE m == Reorganization(OrphanTxs(b), Height[b] - 1 - OrphansOf(b))
      <4>1. OrphansOf(b) \in 0..(Depth - 1) /\ OrphansOf(b) < Height[b] /\ Height[b] \in Nat
            /\ Depth \in Nat
        BY <2>1, <3>2, OrphansAreFewest, TreeAssumption, WindowTyped
      <4>2. Height[b] - 1 - OrphansOf(b) \in Nat
        BY SMT, <4>1
      <4>3. OrphanTxs(b) \in SUBSET Txid
        BY DEF OrphanTxs, extract_waiting_txs_from_block, TypeInv, TypeOK
      <4>4. m \in BuriedControllerMsg
        BY <4>2, <4>3 DEF Reorganization, BuriedControllerMsg, ControllerMsg
      <4>5. toController' = Append(toController, m)
        BY <2>3, <2>5, <3>2 DEF handle_reorg, Send
      <4> HIDE DEF m
      <4> QED
        BY <2>4, <4>4, <4>5, AppendTyped
    <3> QED
      BY <3>1, <3>2
  <2>6. CASE ~IsReorg(b)
    <3> DEFINE window == Append(latest_blocks, b)
               full   == Len(window) = confirmations_number
               mined  == extract_waiting_txs_from_block(b)
               conf   == IF full THEN extract_waiting_txs_from_block(Head(window)) ELSE {}
    <3>1. toController' =
            SendUnlessEmpty(SendUnlessEmpty(toController, MinedTxs(mined)), ConfirmedTxs(conf))
      BY <2>3, <2>6 DEF ExtendWindow
    <3>2. mined \in SUBSET Txid /\ conf \in SUBSET Txid
      BY DEF extract_waiting_txs_from_block, TypeInv, TypeOK
    <3>3. conf \subseteq Buried
      BY <2>1, <2>2, <2>6, <1>WindowConfirms
    <3> HIDE DEF conf, mined
    <3>4. MinedTxs(mined) \in BuriedControllerMsg /\ ConfirmedTxs(conf) \in BuriedControllerMsg
      BY <3>2, <3>3 DEF MinedTxs, ConfirmedTxs, BuriedControllerMsg, ControllerMsg
    <3>5. SendUnlessEmpty(toController, MinedTxs(mined)) \in Seq(BuriedControllerMsg)
      BY <2>4, <3>4, SendTyped
    <3> QED
      BY <3>1, <3>4, <3>5, SendTyped
  <2> QED
    BY <2>5, <2>6

<1>ConfirmedTxToConfirm.
  ASSUME TypeInv, ConfirmedInv, NEW t \in Txid, handle_tx_to_confirm(t)
  PROVE  toController' \in Seq(BuriedControllerMsg)
  <2> USE <1>ConfirmedTxToConfirm
  <2>1. toController \in Seq(BuriedControllerMsg)
    BY DEF ConfirmedInv
  <2>2. MinedTxs({t}) \in BuriedControllerMsg
    BY DEF MinedTxs, BuriedControllerMsg, ControllerMsg
  <2>3. Send(toController, MinedTxs({t})) \in Seq(BuriedControllerMsg)
    BY <2>1, <2>2, AppendTyped DEF Send
  <2>4. CASE Confirmations(t) >= confirmations_number
    <3>1. ConfirmedTxs({t}) \in BuriedControllerMsg
      BY <2>4, <1>LookupConfirms DEF ConfirmedTxs, BuriedControllerMsg, ControllerMsg
    <3>2. Send(Send(toController, MinedTxs({t})), ConfirmedTxs({t})) \in Seq(BuriedControllerMsg)
      BY <2>3, <3>1, AppendTyped DEF Send
    <3> QED
      BY <2>1, <2>4, <3>2 DEF handle_tx_to_confirm
  <2>5. CASE ~(Confirmations(t) >= confirmations_number)
    BY <2>1, <2>3, <2>5 DEF handle_tx_to_confirm
  <2> QED
    BY <2>4, <2>5

<1>ConfirmedConfirmator.
  ASSUME TypeInv, WindowInv, ConfirmedInv, ConfirmatorStep \/ CleanUp \/ ConfirmatorFault
  PROVE  ConfirmedInv'
  <2> USE <1>ConfirmedConfirmator
  <2>1. UNCHANGED <<chainVars, toChecker, toGraph, storage>>
    BY DEF ConfirmatorStep, CleanUp, ConfirmatorFault
  <2>2. toController' \in Seq(BuriedControllerMsg)
    <3>1. CASE ConfirmatorStep
      BY <3>1, <1>ConfirmedNewBlock, <1>ConfirmedTxToConfirm DEF ConfirmatorStep
    <3>2. CASE CleanUp
      BY <3>2 DEF CleanUp, clean_up_waiting_txs, ConfirmedInv
    <3>3. CASE ConfirmatorFault
      BY <3>3 DEF ConfirmatorFault, BranchLookupFails, TxLookupFails, ConfirmedInv
    <3> QED
      BY <3>1, <3>2, <3>3
  <2> QED
    BY <2>1, <2>2, <1>ConfirmedFrom DEF ConfirmedInv, chainVars, storage

(* After a restart only entries with the status Attaching go to the graph  *)
(* builder, and nothing goes to the full check.                            *)
<1>ConfirmedRestart.
  ASSUME TypeInv, ConfirmedInv, Restart
  PROVE  ConfirmedInv'
  <2> USE <1>ConfirmedRestart
  <2> DEFINE With(s) == {t \in Txid : mempool[t] = s}
             X == StoredTxs(With("Initialized"))
             Y == StoredTxs(With("Attaching"))
  <2>1. X \subseteq Tx /\ Y \subseteq Tx
    <3>1. /\ Entries(With("Initialized")) = With("Initialized")
          /\ Entries(With("Attaching")) = With("Attaching")
      BY DEF Entries
    <3> QED
      BY <3>1, StoredAreTxs
  <2>2. Ids(Y) \subseteq Buried
    BY SMT DEF Ids, StoredTxs, TypeInv, RowInv, ConfirmedInv
  <2>3. IsolatedCheck(X) \in BuriedCheckerMsg /\ CheckedTxs(Y) \in BuriedGraphMsg
    BY <2>1, <2>2 DEF IsolatedCheck, BuriedCheckerMsg, CheckerMsg, CheckedTxs, BuriedGraphMsg,
                      GraphMsg
  <2>4. /\ toChecker' = SendUnlessEmpty(<<>>, IsolatedCheck(X))
        /\ toGraph' = SendUnlessEmpty(<<>>, CheckedTxs(Y))
        /\ toController' = <<>>
        /\ UNCHANGED <<known, l1, mempool>>
    BY DEF Restart, RestartNode, handle_mempool_txs, chainVars, storage
  <2> HIDE DEF With, X, Y
  <2>5. /\ <<>> \in Seq(BuriedCheckerMsg) /\ <<>> \in Seq(BuriedGraphMsg)
        /\ <<>> \in Seq(BuriedControllerMsg)
    BY SMT
  <2>6. toChecker' \in Seq(BuriedCheckerMsg) /\ toGraph' \in Seq(BuriedGraphMsg)
    BY <2>3, <2>4, <2>5, SendTyped
  <2> QED
    BY <2>4, <2>5, <2>6, <1>ConfirmedFrom DEF ConfirmedInv

<1> SUFFICES ASSUME TypeInv, WindowInv, ConfirmedInv, [Next]_vars
             PROVE  ConfirmedInv'
  OBVIOUS
<1>1. CASE UNCHANGED vars
  BY <1>1, <1>ConfirmedUnchanged DEF vars, chainVars, channels
<1>2. CASE IndexerStep \/ IndexerFault
  BY <1>2, <1>ConfirmedUnchanged DEF IndexerStep, IndexerFault, chainVars
<1> QED
  BY <1>1, <1>2, <1>ConfirmedChainStep, <1>ConfirmedSubmit, <1>ConfirmedCheckerAccepts,
     <1>ConfirmedGraphBuilderAttaches, <1>ConfirmedControllerStep, <1>ConfirmedConfirmator,
     <1>ConfirmedRestart DEF Next

LEMMA ConfirmedIsBuried == ASSUME TypeInv, ConfirmedInv PROVE OnlyBuriedTxsConfirmed
<1> SUFFICES ASSUME NEW t \in Txid, TakenForConfirmed(t) PROVE t \in Buried
  BY DEF OnlyBuriedTxsConfirmed, Buried
<1>1. CASE t \in In(toController, "ConfirmedTxs") \/ t \in In(toController, "AttachedTxs")
  <2>1. PICK i \in 1..Len(toController) :
          toController[i].type \in {"ConfirmedTxs", "AttachedTxs"} /\ t \in toController[i].txs
    BY <1>1 DEF In
  <2>2. toController[i] \in BuriedControllerMsg
    BY SMT DEF ConfirmedInv
  <2> QED
    BY <2>1, <2>2 DEF BuriedControllerMsg
<1>2. CASE t \in Ids(In(toController, "FullyCheckedTxs"))
  <2>1. PICK i \in 1..Len(toController) :
          toController[i].type = "FullyCheckedTxs" /\ t \in Ids(toController[i].txs)
    BY <1>2 DEF In, Ids
  <2>2. toController[i] \in BuriedControllerMsg
    BY SMT DEF ConfirmedInv
  <2> QED
    BY <2>1, <2>2 DEF BuriedControllerMsg
<1>3. CASE t \in Ids(In(toChecker, "FullCheck"))
  <2>1. PICK i \in 1..Len(toChecker) :
          toChecker[i].type = "FullCheck" /\ t \in Ids(toChecker[i].txs)
    BY <1>3 DEF In, Ids
  <2>2. toChecker[i] \in BuriedCheckerMsg
    BY SMT DEF ConfirmedInv
  <2> QED
    BY <2>1, <2>2 DEF BuriedCheckerMsg
<1>4. CASE t \in Ids(In(toGraph, "CheckedTxs"))
  <2>1. PICK i \in 1..Len(toGraph) : t \in Ids(toGraph[i].txs)
    BY <1>4 DEF In, Ids
  <2>2. toGraph[i] \in BuriedGraphMsg
    BY SMT DEF ConfirmedInv
  <2> QED
    BY <2>1, <2>2 DEF BuriedGraphMsg
<1>5. CASE mempool[t] = "Attaching" \/ (l1[t] # NoRow /\ l1[t].status = "Attached")
  BY <1>5 DEF ConfirmedInv
<1> QED
  BY <1>1, <1>2, <1>3, <1>4, <1>5 DEF TakenForConfirmed

(* However blocks, lookups, reorgs, crashes and RPC or storage errors      *)
(* interleave, a transaction is sent to the full check, attached or        *)
(* reported as confirmed only if it was confirmations_number deep in some  *)
(* best chain, as long as init is not retried within a process.            *)
THEOREM OnlyBuriedConfirmed ==
  ASSUME "retry" \notin FaultKinds
  PROVE  Spec => []OnlyBuriedTxsConfirmed
<1> DEFINE I == TypeInv /\ WindowInv /\ ConfirmedInv
<1>1. Init => I
  <2> SUFFICES ASSUME Init PROVE I
    OBVIOUS
  <2>1. TypeInv
    BY TypeInit
  <2>2. WindowInv
    BY SMT, ConfirmationsAssumption
       DEF Init, ConfirmatorInit, ChannelsInit, IndexerInit, WindowInv, WindowIsBranch,
           WindowOnBranch, GenesisFirst, NoBlockSent
  <2>3. ConfirmedInv
    BY SMT DEF Init, ChannelsInit, StorageInit, ConfirmedInv
  <2> QED
    BY <2>1, <2>2, <2>3
<1>2. I /\ [Next]_vars => I'
  <2>1. ~Fault("retry")
    BY DEF Fault
  <2> QED
    BY <2>1, TypeNext, WindowInvNext, ConfirmedNext
<1>3. I => OnlyBuriedTxsConfirmed
  BY ConfirmedIsBuried
<1> QED
  BY <1>1, <1>2, <1>3, PTL DEF Spec

-----------------------------------------------------------------------------
(* The indexer and the window.                                             *)

IsBlock(m) == m.type = "Block"

NoBlocks(ch) == \A i \in 1..Len(ch) : ~IsBlock(ch[i])

FirstBlock(ch, b) ==
  \E i \in 1..Len(ch) :
    IsBlock(ch[i]) /\ ch[i].block = b /\ \A j \in 1..Len(ch) : j < i => ~IsBlock(ch[j])

LastBlock(ch, b) ==
  \E i \in 1..Len(ch) :
    IsBlock(ch[i]) /\ ch[i].block = b /\ \A j \in 1..Len(ch) : i < j => ~IsBlock(ch[j])

(* The blocks of ch have consecutive heights.                              *)
InLine(ch) ==
  \A i, j \in 1..Len(ch) :
    /\ i < j /\ IsBlock(ch[i]) /\ IsBlock(ch[j])
    /\ \A k \in 1..Len(ch) : i < k /\ k < j => ~IsBlock(ch[k])
    => Height[ch[j].block] = Height[ch[i].block] + 1

WindowEnd == latest_blocks[Depth]

Started == latest_blocks # <<>>

(* The next block does not fit the window, and no block of the window is   *)
(* where the confirmator looks for its ancestor: it will stop the node.    *)
Doomed ==
  Started /\ \E b \in Block : FirstBlock(toConfirm, b) /\ Height[b] > Height[WindowEnd] + 1

Fresh == ~Started /\ NoBlocks(toConfirm)

SentUpTo(b) ==
  \/ LastBlock(toConfirm, b)
  \/ NoBlocks(toConfirm) /\ Started /\ WindowEnd = b

IsReorgMsg(m) == m.type = "Reorganization"

NoReorgs(ch) == \A i \in 1..Len(ch) : ~IsReorgMsg(ch[i])

OneReorg(ch, h) ==
  \E i \in 1..Len(ch) :
    IsReorgMsg(ch[i]) /\ ch[i].height = h /\ \A j \in 1..Len(ch) : IsReorgMsg(ch[j]) => j = i

Quiet == toIndexer = <<>> /\ NoReorgs(toController)

ReorgOnItsWay(h) ==
  \/ toIndexer = <<h>> /\ NoReorgs(toController)
  \/ toIndexer = <<>> /\ OneReorg(toController, h)

(* The next block is one above the window.                                 *)
FirstFits ==
  Started => \A b \in Block : FirstBlock(toConfirm, b) => Height[b] = Height[WindowEnd] + 1

Steady ==
  /\ Quiet
  /\ InLine(toConfirm)
  /\ FirstFits
  /\ \/ phase = "init" /\ Fresh
     \/ /\ phase = "load" /\ Fresh
        /\ indexer_state = NoBlock \/ indexer_last_block_height <= load_to
     \/ /\ phase = "load" /\ indexer_state # NoBlock /\ SentUpTo(indexer_state)
        /\ indexer_last_block_height = Height[indexer_state] + 1
     \/ phase = "run" /\ Fresh /\ confirmed_block_hash = Genesis
     \/ phase = "run" /\ SentUpTo(confirmed_block_hash)

GoneBack ==
  /\ Quiet /\ phase = "poll" /\ Started /\ NoBlocks(toConfirm)
  /\ confirmed_block_height = Height[WindowEnd] /\ confirmed_block_height < Height[tip]

GoingBack ==
  /\ Started /\ NoBlocks(toConfirm) /\ ReorgOnItsWay(Height[WindowEnd])
  /\ \/ /\ phase = "load" /\ indexer_state # NoBlock
        /\ indexer_last_block_height = Height[indexer_state] + 1
        /\ Height[indexer_state] > Height[WindowEnd]
     \/ phase = "run" /\ confirmed_block_height > Height[WindowEnd]

InStepNow == Doomed \/ Steady \/ GoneBack \/ GoingBack

InStep == ~cancelled => InStepNow


-----------------------------------------------------------------------------
(* The blocks on their way to the confirmator.                             *)

(* The two channels carry the same blocks.                                 *)
SameBlocks(old, new) ==
  /\ NoBlocks(new) <=> NoBlocks(old)
  /\ \A b : FirstBlock(new, b) <=> FirstBlock(old, b)
  /\ \A b : LastBlock(new, b) <=> LastBlock(old, b)
  /\ InLine(old) => InLine(new)

LEMMA Positions ==
  ASSUME NEW M, NEW ch \in Seq(M), NEW m \in M
  PROVE  LET new == Append(ch, m)
             n   == Len(ch) + 1
         IN  /\ n \in 1..Len(new) /\ new[n] = m /\ ~(n < n)
             /\ \A i \in 1..Len(ch) : i \in 1..Len(new) /\ new[i] = ch[i] /\ i < n /\ ~(n < i) /\ i # n
             /\ \A i \in 1..Len(new) : i \in 1..Len(ch) \/ i = n
BY SMT

LEMMA PutOther ==
  ASSUME NEW M, NEW ch \in Seq(M), NEW m \in M, ~IsBlock(m)
  PROVE  SameBlocks(ch, Append(ch, m))
<1> DEFINE new == Append(ch, m)
           n == Len(ch) + 1
<1>1. /\ n \in 1..Len(new) /\ new[n] = m /\ ~(n < n)
      /\ \A i \in 1..Len(ch) : i \in 1..Len(new) /\ new[i] = ch[i] /\ i < n /\ ~(n < i) /\ i # n
      /\ \A i \in 1..Len(new) : i \in 1..Len(ch) \/ i = n
  BY Positions
<1> HIDE DEF new, n
<1>2. NoBlocks(new) <=> NoBlocks(ch)
  BY <1>1 DEF NoBlocks
<1>3. ASSUME NEW b PROVE FirstBlock(new, b) <=> FirstBlock(ch, b)
  <2>1. FirstBlock(new, b) => FirstBlock(ch, b)
    BY <1>1 DEF FirstBlock
  <2>2. FirstBlock(ch, b) => FirstBlock(new, b)
    BY <1>1 DEF FirstBlock
  <2> QED
    BY <2>1, <2>2
<1>4. ASSUME NEW b PROVE LastBlock(new, b) <=> LastBlock(ch, b)
  <2>1. LastBlock(new, b) => LastBlock(ch, b)
    BY <1>1 DEF LastBlock
  <2>2. LastBlock(ch, b) => LastBlock(new, b)
    BY <1>1 DEF LastBlock
  <2> QED
    BY <2>1, <2>2
<1>5. ASSUME InLine(ch) PROVE InLine(new)
  <2> SUFFICES ASSUME NEW i \in 1..Len(new), NEW j \in 1..Len(new),
                      i < j, IsBlock(new[i]), IsBlock(new[j]),
                      \A k \in 1..Len(new) : i < k /\ k < j => ~IsBlock(new[k])
               PROVE  Height[new[j].block] = Height[new[i].block] + 1
    BY DEF InLine
  <2>1. i \in 1..Len(ch) /\ j \in 1..Len(ch)
    BY <1>1
  <2>2. \A k \in 1..Len(ch) : i < k /\ k < j => ~IsBlock(ch[k])
    BY <1>1
  <2>3. IsBlock(ch[i]) /\ IsBlock(ch[j]) /\ new[i] = ch[i] /\ new[j] = ch[j]
    BY <1>1, <2>1
  <2> QED
    BY <1>5, <2>1, <2>2, <2>3 DEF InLine
<1> QED
  BY <1>2, <1>3, <1>4, <1>5 DEF SameBlocks, new

LEMMA PutBlock ==
  ASSUME NEW M, NEW ch \in Seq(M), NEW m \in M, IsBlock(m)
  PROVE  LET new == Append(ch, m)
         IN  /\ LastBlock(new, m.block)
             /\ \A c : FirstBlock(ch, c) => FirstBlock(new, c)
             /\ NoBlocks(ch) => FirstBlock(new, m.block)
             /\ \A c : FirstBlock(new, c) => FirstBlock(ch, c) \/ (NoBlocks(ch) /\ c = m.block)
             /\ NoBlocks(ch) => InLine(new)
             /\ \A c : InLine(ch) /\ LastBlock(ch, c) /\ Height[m.block] = Height[c] + 1
                         => InLine(new)
<1> DEFINE new == Append(ch, m)
           n == Len(ch) + 1
<1>1. /\ n \in 1..Len(new) /\ new[n] = m /\ ~(n < n)
      /\ \A i \in 1..Len(ch) : i \in 1..Len(new) /\ new[i] = ch[i] /\ i < n /\ ~(n < i) /\ i # n
      /\ \A i \in 1..Len(new) : i \in 1..Len(ch) \/ i = n
  BY Positions
<1> HIDE DEF new, n
<1>2. LastBlock(new, m.block)
  BY <1>1 DEF LastBlock
<1>3. ASSUME NEW c, FirstBlock(ch, c) PROVE FirstBlock(new, c)
  <2>1. PICK i \in 1..Len(ch) :
          IsBlock(ch[i]) /\ ch[i].block = c /\ \A j \in 1..Len(ch) : j < i => ~IsBlock(ch[j])
    BY <1>3 DEF FirstBlock
  <2>2. i \in 1..Len(new) /\ new[i] = ch[i] /\ ~(n < i)
    BY <1>1
  <2>3. \A j \in 1..Len(new) : j < i => ~IsBlock(new[j])
    BY <1>1, <2>1, <2>2
  <2> QED
    BY <2>1, <2>2, <2>3 DEF FirstBlock
<1>4. ASSUME NoBlocks(ch) PROVE FirstBlock(new, m.block)
  BY <1>1, <1>4 DEF FirstBlock, NoBlocks
<1>5. ASSUME NEW c, FirstBlock(new, c) PROVE FirstBlock(ch, c) \/ (NoBlocks(ch) /\ c = m.block)
  <2>1. PICK i \in 1..Len(new) :
          IsBlock(new[i]) /\ new[i].block = c /\ \A j \in 1..Len(new) : j < i => ~IsBlock(new[j])
    BY <1>5 DEF FirstBlock
  <2>2. CASE i = n
    BY <1>1, <2>1, <2>2 DEF NoBlocks
  <2>3. CASE i \in 1..Len(ch)
    BY <1>1, <2>1, <2>3 DEF FirstBlock
  <2> QED
    BY <1>1, <2>2, <2>3
<1>6. ASSUME NoBlocks(ch) \/ (InLine(ch) /\ \E c : LastBlock(ch, c) /\ Height[m.block] = Height[c] + 1)
      PROVE  InLine(new)
  <2> SUFFICES ASSUME NEW i \in 1..Len(new), NEW j \in 1..Len(new),
                      i < j, IsBlock(new[i]), IsBlock(new[j]),
                      \A k \in 1..Len(new) : i < k /\ k < j => ~IsBlock(new[k])
               PROVE  Height[new[j].block] = Height[new[i].block] + 1
    BY DEF InLine
  <2>1. i \in 1..Len(ch) /\ new[i] = ch[i] /\ IsBlock(ch[i])
    <3>1. i # n
      BY <1>1
    <3> QED
      BY <1>1, <3>1
  <2>2. InLine(ch)
    BY <1>6, <2>1 DEF NoBlocks
  <2>3. PICK c : LastBlock(ch, c) /\ Height[m.block] = Height[c] + 1
    BY <1>6, <2>1 DEF NoBlocks
  <2>4. CASE j \in 1..Len(ch)
    <3>1. \A k \in 1..Len(ch) : i < k /\ k < j => ~IsBlock(ch[k])
      BY <1>1
    <3>2. IsBlock(ch[j]) /\ new[j] = ch[j]
      BY <1>1, <2>4
    <3> QED
      BY <2>1, <2>2, <2>4, <3>1, <3>2 DEF InLine
  <2>5. CASE j = n
    <3>1. PICK l \in 1..Len(ch) :
            IsBlock(ch[l]) /\ ch[l].block = c /\ \A k \in 1..Len(ch) : l < k => ~IsBlock(ch[k])
      BY <2>3 DEF LastBlock
    <3>2. ~(i < l) /\ ~(l < i)
      BY <1>1, <2>1, <2>5, <3>1
    <3>3. i = l
      BY SMT, <2>1, <3>2
    <3> QED
      BY <1>1, <2>1, <2>3, <2>5, <3>1, <3>3
  <2> QED
    BY <1>1, <2>4, <2>5
<1> QED
  BY <1>2, <1>3, <1>4, <1>5, <1>6 DEF new

LEMMA TakeBlock ==
  ASSUME NEW M, NEW ch \in Seq(M), ch # <<>>, IsBlock(Head(ch))
  PROVE  LET b == Head(ch).block
         IN  /\ ~NoBlocks(ch) /\ FirstBlock(ch, b) /\ \A c : FirstBlock(ch, c) => c = b
             /\ \A c : LastBlock(ch, c) => LastBlock(Tail(ch), c) \/ (NoBlocks(Tail(ch)) /\ c = b)
             /\ InLine(ch) => InLine(Tail(ch))
             /\ InLine(ch) => \A c : FirstBlock(Tail(ch), c) => Height[c] = Height[b] + 1
<1> DEFINE rest == Tail(ch)
           m == Head(ch)
<1>1. /\ 1 \in 1..Len(ch) /\ m = ch[1]
      /\ \A i \in 1..Len(rest) : i + 1 \in 1..Len(ch) /\ i + 1 # 1 /\ 1 < i + 1 /\ rest[i] = ch[i + 1]
      /\ \A i \in 1..Len(ch) :
           i = 1 \/ (i - 1 \in 1..Len(rest) /\ rest[i - 1] = ch[i] /\ i = (i - 1) + 1)
      /\ \A i, j \in 1..Len(rest) : i + 1 < j + 1 <=> i < j
  BY SMT, Rest
<1>2. \A i \in 1..Len(ch) : ~(i < 1) /\ (i # 1 => 1 < i)
  BY SMT
<1> HIDE DEF rest, m
<1>3. ~NoBlocks(ch)
  BY <1>1 DEF NoBlocks, m
<1>4. FirstBlock(ch, m.block)
  BY <1>1, <1>2 DEF FirstBlock, m
<1>5. ASSUME NEW c, FirstBlock(ch, c) PROVE c = m.block
  <2>1. PICK i \in 1..Len(ch) :
          IsBlock(ch[i]) /\ ch[i].block = c /\ \A j \in 1..Len(ch) : j < i => ~IsBlock(ch[j])
    BY <1>5 DEF FirstBlock
  <2>2. IsBlock(ch[1])
    BY <1>1 DEF m
  <2>3. i = 1
    BY <1>1, <1>2, <2>1, <2>2
  <2> QED
    BY <1>1, <2>1, <2>3
<1>6. ASSUME NEW c, LastBlock(ch, c) PROVE LastBlock(rest, c) \/ (NoBlocks(rest) /\ c = m.block)
  <2>1. PICK i \in 1..Len(ch) :
          IsBlock(ch[i]) /\ ch[i].block = c /\ \A j \in 1..Len(ch) : i < j => ~IsBlock(ch[j])
    BY <1>6 DEF LastBlock
  <2>2. CASE i = 1
    BY <1>1, <2>1, <2>2 DEF NoBlocks
  <2>3. CASE i # 1
    <3>1. i - 1 \in 1..Len(rest) /\ rest[i - 1] = ch[i] /\ i = (i - 1) + 1
      BY <1>1, <2>3
    <3>2. ASSUME NEW j \in 1..Len(rest), i - 1 < j PROVE ~IsBlock(rest[j])
      <4>1. j + 1 \in 1..Len(ch) /\ rest[j] = ch[j + 1] /\ (i - 1) + 1 < j + 1
        BY <1>1, <3>1, <3>2
      <4> QED
        BY <2>1, <3>1, <4>1
    <3> QED
      BY <2>1, <3>1, <3>2 DEF LastBlock
  <2> QED
    BY <2>2, <2>3
<1>7. ASSUME InLine(ch) PROVE InLine(rest)
  <2> SUFFICES ASSUME NEW i \in 1..Len(rest), NEW j \in 1..Len(rest),
                      i < j, IsBlock(rest[i]), IsBlock(rest[j]),
                      \A k \in 1..Len(rest) : i < k /\ k < j => ~IsBlock(rest[k])
               PROVE  Height[rest[j].block] = Height[rest[i].block] + 1
    BY DEF InLine
  <2>1. /\ i + 1 \in 1..Len(ch) /\ j + 1 \in 1..Len(ch) /\ i + 1 < j + 1
        /\ rest[i] = ch[i + 1] /\ rest[j] = ch[j + 1]
    BY <1>1
  <2>2. ASSUME NEW k \in 1..Len(ch), i + 1 < k, k < j + 1 PROVE ~IsBlock(ch[k])
    <3>1. k # 1
      BY SMT, <2>2
    <3>2. k - 1 \in 1..Len(rest) /\ rest[k - 1] = ch[k] /\ k = (k - 1) + 1
      BY <1>1, <3>1
    <3>3. i < k - 1 /\ k - 1 < j
      BY <1>1, <2>2, <3>2
    <3> QED
      BY <3>2, <3>3
  <2> QED
    BY <1>7, <2>1, <2>2 DEF InLine
<1>8. ASSUME InLine(ch), NEW c, FirstBlock(rest, c) PROVE Height[c] = Height[m.block] + 1
  <2>1. PICK i \in 1..Len(rest) :
          IsBlock(rest[i]) /\ rest[i].block = c /\ \A j \in 1..Len(rest) : j < i => ~IsBlock(rest[j])
    BY <1>8 DEF FirstBlock
  <2>2. i + 1 \in 1..Len(ch) /\ 1 < i + 1 /\ rest[i] = ch[i + 1]
    BY <1>1
  <2>3. ASSUME NEW k \in 1..Len(ch), 1 < k, k < i + 1 PROVE ~IsBlock(ch[k])
    <3>1. k # 1
      BY SMT, <2>3
    <3>2. k - 1 \in 1..Len(rest) /\ rest[k - 1] = ch[k] /\ k = (k - 1) + 1
      BY <1>1, <3>1
    <3>3. k - 1 < i
      BY <1>1, <2>3, <3>2
    <3> QED
      BY <2>1, <3>2, <3>3
  <2>4. IsBlock(ch[1]) /\ IsBlock(ch[i + 1])
    BY <1>1, <2>1, <2>2 DEF m
  <2>5. Height[ch[i + 1].block] = Height[ch[1].block] + 1
    BY <1>1, <1>8, <2>2, <2>3, <2>4 DEF InLine
  <2> QED
    BY <1>1, <2>1, <2>2, <2>5
<1> QED
  BY <1>3, <1>4, <1>5, <1>6, <1>7, <1>8 DEF rest, m

LEMMA SameBlocksFacts ==
  /\ \A ch : SameBlocks(ch, ch)
  /\ \A ch1, ch2, ch3 : SameBlocks(ch1, ch2) /\ SameBlocks(ch2, ch3) => SameBlocks(ch1, ch3)
BY DEF SameBlocks

(* There is a first block.                                                 *)
LEMMA SomeFirstBlock ==
  ASSUME NEW ch \in Seq(ConfirmMsg), ~NoBlocks(ch)
  PROVE  \E b \in Block : FirstBlock(ch, b)
<1> DEFINE T == {i \in 1..Len(ch) : IsBlock(ch[i])}
<1>1. T \in SUBSET Nat /\ T # {}
  BY SMT DEF NoBlocks
<1>2. PICK i \in T : \A j \in T : i <= j
  BY <1>1, LeastNatural
<1>3. i \in 1..Len(ch) /\ IsBlock(ch[i]) /\ \A j \in 1..Len(ch) : j < i => ~IsBlock(ch[j])
  BY SMT, <1>2
<1>4. ch[i] \in ConfirmMsg
  BY SMT, <1>3
<1>5. ch[i].block \in Block
  BY <1>3, <1>4 DEF IsBlock, ConfirmMsg
<1> QED
  BY <1>3, <1>5 DEF FirstBlock

(* A message Txs leaves the channel, or what is left of it stays.          *)
LEMMA TakeOther ==
  ASSUME NEW M, NEW ch \in Seq(M), ch # <<>>, ~IsBlock(Head(ch))
  PROVE  SameBlocks(ch, Tail(ch))
<1> DEFINE rest == Tail(ch)
<1>0. /\ 1 \in 1..Len(ch) /\ Head(ch) = ch[1]
      /\ \A i \in 1..Len(rest) : i + 1 \in 1..Len(ch) /\ i + 1 # 1 /\ 1 < i + 1 /\ rest[i] = ch[i + 1]
      /\ \A i \in 1..Len(ch) :
           i = 1 \/ (i - 1 \in 1..Len(rest) /\ rest[i - 1] = ch[i] /\ i = (i - 1) + 1)
      /\ \A i, j \in 1..Len(rest) : i + 1 < j + 1 <=> i < j
  BY SMT, Rest
<1> HIDE DEF rest
<1>1. /\ ~IsBlock(ch[1])
      /\ \A i \in 1..Len(rest) : i + 1 \in 1..Len(ch) /\ rest[i] = ch[i + 1]
      /\ \A i \in 1..Len(ch) :
           i = 1 \/ (i - 1 \in 1..Len(rest) /\ rest[i - 1] = ch[i] /\ i = (i - 1) + 1)
      /\ \A i, j \in 1..Len(rest) : i + 1 < j + 1 <=> i < j
  BY <1>0
<1>2. \A i \in 1..Len(ch) : IsBlock(ch[i]) =>
        i - 1 \in 1..Len(rest) /\ rest[i - 1] = ch[i] /\ i = (i - 1) + 1
  BY <1>1
<1>3. NoBlocks(rest) <=> NoBlocks(ch)
  BY <1>1, <1>2 DEF NoBlocks
<1>4. ASSUME NEW b, FirstBlock(rest, b) PROVE FirstBlock(ch, b)
  <2>1. PICK i \in 1..Len(rest) :
          IsBlock(rest[i]) /\ rest[i].block = b /\ \A j \in 1..Len(rest) : j < i => ~IsBlock(rest[j])
    BY <1>4 DEF FirstBlock
  <2>2. i + 1 \in 1..Len(ch) /\ rest[i] = ch[i + 1]
    BY <1>1
  <2>3. ASSUME NEW j \in 1..Len(ch), j < i + 1, IsBlock(ch[j]) PROVE FALSE
    <3>1. j - 1 \in 1..Len(rest) /\ rest[j - 1] = ch[j] /\ j = (j - 1) + 1
      BY <1>2, <2>3
    <3>2. j - 1 < i
      BY <1>1, <2>3, <3>1
    <3> QED
      BY <2>1, <2>3, <3>1, <3>2
  <2> QED
    BY <2>1, <2>2, <2>3 DEF FirstBlock
<1>5. ASSUME NEW b, FirstBlock(ch, b) PROVE FirstBlock(rest, b)
  <2>1. PICK i \in 1..Len(ch) :
          IsBlock(ch[i]) /\ ch[i].block = b /\ \A j \in 1..Len(ch) : j < i => ~IsBlock(ch[j])
    BY <1>5 DEF FirstBlock
  <2>2. i - 1 \in 1..Len(rest) /\ rest[i - 1] = ch[i] /\ i = (i - 1) + 1
    BY <1>2, <2>1
  <2>3. ASSUME NEW j \in 1..Len(rest), j < i - 1 PROVE ~IsBlock(rest[j])
    <3>1. j + 1 \in 1..Len(ch) /\ rest[j] = ch[j + 1] /\ j + 1 < (i - 1) + 1
      BY <1>1, <2>2, <2>3
    <3> QED
      BY <2>1, <2>2, <3>1
  <2> QED
    BY <2>1, <2>2, <2>3 DEF FirstBlock
<1>6. ASSUME NEW b, LastBlock(rest, b) PROVE LastBlock(ch, b)
  <2>1. PICK i \in 1..Len(rest) :
          IsBlock(rest[i]) /\ rest[i].block = b /\ \A j \in 1..Len(rest) : i < j => ~IsBlock(rest[j])
    BY <1>6 DEF LastBlock
  <2>2. i + 1 \in 1..Len(ch) /\ rest[i] = ch[i + 1]
    BY <1>1
  <2>3. ASSUME NEW j \in 1..Len(ch), i + 1 < j, IsBlock(ch[j]) PROVE FALSE
    <3>1. j - 1 \in 1..Len(rest) /\ rest[j - 1] = ch[j] /\ j = (j - 1) + 1
      BY <1>2, <2>3
    <3>2. i < j - 1
      BY <1>1, <2>3, <3>1
    <3> QED
      BY <2>1, <2>3, <3>1, <3>2
  <2> QED
    BY <2>1, <2>2, <2>3 DEF LastBlock
<1>7. ASSUME NEW b, LastBlock(ch, b) PROVE LastBlock(rest, b)
  <2>1. PICK i \in 1..Len(ch) :
          IsBlock(ch[i]) /\ ch[i].block = b /\ \A j \in 1..Len(ch) : i < j => ~IsBlock(ch[j])
    BY <1>7 DEF LastBlock
  <2>2. i - 1 \in 1..Len(rest) /\ rest[i - 1] = ch[i] /\ i = (i - 1) + 1
    BY <1>2, <2>1
  <2>3. ASSUME NEW j \in 1..Len(rest), i - 1 < j PROVE ~IsBlock(rest[j])
    <3>1. j + 1 \in 1..Len(ch) /\ rest[j] = ch[j + 1] /\ (i - 1) + 1 < j + 1
      BY <1>1, <2>2, <2>3
    <3> QED
      BY <2>1, <2>2, <3>1
  <2> QED
    BY <2>1, <2>2, <2>3 DEF LastBlock
<1>8. InLine(ch) => InLine(rest)
  <2> SUFFICES ASSUME InLine(ch), NEW i \in 1..Len(rest), NEW j \in 1..Len(rest),
                      i < j, IsBlock(rest[i]), IsBlock(rest[j]),
                      \A k \in 1..Len(rest) : i < k /\ k < j => ~IsBlock(rest[k])
               PROVE  Height[rest[j].block] = Height[rest[i].block] + 1
    BY DEF InLine
  <2>1. /\ i + 1 \in 1..Len(ch) /\ j + 1 \in 1..Len(ch) /\ i + 1 < j + 1
        /\ rest[i] = ch[i + 1] /\ rest[j] = ch[j + 1]
    BY <1>1
  <2>2. ASSUME NEW k \in 1..Len(ch), i + 1 < k, k < j + 1, IsBlock(ch[k]) PROVE FALSE
    <3>1. k - 1 \in 1..Len(rest) /\ rest[k - 1] = ch[k] /\ k = (k - 1) + 1
      BY <1>2, <2>2
    <3>2. i < k - 1 /\ k - 1 < j
      BY <1>1, <2>2, <3>1
    <3> QED
      BY <2>2, <3>1, <3>2
  <2> QED
    BY <2>1, <2>2 DEF InLine
<1> QED
  BY <1>3, <1>4, <1>5, <1>6, <1>7, <1>8 DEF SameBlocks, rest

LEMMA ReplaceOther ==
  ASSUME NEW M, NEW ch \in Seq(M), ch # <<>>, ~IsBlock(Head(ch)), NEW m \in M, ~IsBlock(m)
  PROVE  SameBlocks(ch, <<m>> \o Tail(ch))
<1> DEFINE new == <<m>> \o Tail(ch)
<1>1. /\ Len(new) = Len(ch) /\ new[1] = m /\ 1 \in 1..Len(ch) /\ Head(ch) = ch[1]
      /\ \A i \in 1..Len(ch) : i # 1 => new[i] = ch[i]
  BY SMT, HeadReplaced
<1> HIDE DEF new
<1>2. \A i \in 1..Len(ch) :
        /\ IsBlock(new[i]) <=> IsBlock(ch[i])
        /\ IsBlock(ch[i]) => new[i] = ch[i]
  BY <1>1
<1>3. NoBlocks(new) <=> NoBlocks(ch)
  BY <1>1, <1>2 DEF NoBlocks
<1>4. ASSUME NEW b PROVE FirstBlock(new, b) <=> FirstBlock(ch, b)
  BY <1>1, <1>2 DEF FirstBlock
<1>5. ASSUME NEW b PROVE LastBlock(new, b) <=> LastBlock(ch, b)
  BY <1>1, <1>2 DEF LastBlock
<1>6. InLine(ch) => InLine(new)
  <2> SUFFICES ASSUME InLine(ch), NEW i \in 1..Len(ch), NEW j \in 1..Len(ch),
                      i < j, IsBlock(new[i]), IsBlock(new[j]),
                      \A k \in 1..Len(ch) : i < k /\ k < j => ~IsBlock(new[k])
               PROVE  Height[new[j].block] = Height[new[i].block] + 1
    BY <1>1 DEF InLine
  <2>1. IsBlock(ch[i]) /\ IsBlock(ch[j]) /\ new[i] = ch[i] /\ new[j] = ch[j]
    BY <1>2
  <2>2. \A k \in 1..Len(ch) : i < k /\ k < j => ~IsBlock(ch[k])
    BY <1>2
  <2> QED
    BY <2>1, <2>2 DEF InLine
<1> QED
  BY <1>3, <1>4, <1>5, <1>6 DEF SameBlocks, new

-----------------------------------------------------------------------------
(* The messages Reorganization on their way to the controller.             *)

(* The two channels carry the same reorgs, if at most one.                 *)
SameReorgs(old, new) ==
  /\ NoReorgs(old) => NoReorgs(new)
  /\ \A h : OneReorg(old, h) => OneReorg(new, h)

LEMMA SameReorgsFacts ==
  /\ \A ch : SameReorgs(ch, ch)
  /\ \A ch1, ch2, ch3 : SameReorgs(ch1, ch2) /\ SameReorgs(ch2, ch3) => SameReorgs(ch1, ch3)
BY DEF SameReorgs

LEMMA PutReorg ==
  ASSUME NEW M, NEW ch \in Seq(M), NEW m \in M
  PROVE  LET new == Append(ch, m)
         IN  /\ ~IsReorgMsg(m) => SameReorgs(ch, new)
             /\ IsReorgMsg(m) /\ NoReorgs(ch) => OneReorg(new, m.height)
<1> DEFINE new == Append(ch, m)
           n == Len(ch) + 1
<1>1. /\ n \in 1..Len(new) /\ new[n] = m /\ ~(n < n)
      /\ \A i \in 1..Len(ch) : i \in 1..Len(new) /\ new[i] = ch[i] /\ i < n /\ ~(n < i) /\ i # n
      /\ \A i \in 1..Len(new) : i \in 1..Len(ch) \/ i = n
  BY Positions
<1> HIDE DEF new, n
<1>2. ASSUME ~IsReorgMsg(m), NoReorgs(ch) PROVE NoReorgs(new)
  BY <1>1, <1>2 DEF NoReorgs
<1>3. ASSUME ~IsReorgMsg(m), NEW h, OneReorg(ch, h) PROVE OneReorg(new, h)
  <2>1. PICK i \in 1..Len(ch) :
          IsReorgMsg(ch[i]) /\ ch[i].height = h /\ \A j \in 1..Len(ch) : IsReorgMsg(ch[j]) => j = i
    BY <1>3 DEF OneReorg
  <2>2. i \in 1..Len(new) /\ new[i] = ch[i]
    BY <1>1
  <2>3. \A j \in 1..Len(new) : IsReorgMsg(new[j]) => j = i
    BY <1>1, <1>3, <2>1
  <2> QED
    BY <2>1, <2>2, <2>3 DEF OneReorg
<1>4. ASSUME IsReorgMsg(m), NoReorgs(ch) PROVE OneReorg(new, m.height)
  <2>1. \A j \in 1..Len(new) : IsReorgMsg(new[j]) => j = n
    BY <1>1, <1>4 DEF NoReorgs
  <2> QED
    BY <1>1, <1>4, <2>1 DEF OneReorg
<1> QED
  BY <1>2, <1>3, <1>4 DEF SameReorgs, new

LEMMA TakeReorg ==
  ASSUME NEW M, NEW ch \in Seq(M), ch # <<>>
  PROVE  /\ ~IsReorgMsg(Head(ch)) => SameReorgs(ch, Tail(ch))
         /\ IsReorgMsg(Head(ch)) => /\ ~NoReorgs(ch)
                                    /\ \A h : OneReorg(ch, h) => h = Head(ch).height /\ NoReorgs(Tail(ch))
<1> DEFINE rest == Tail(ch)
           m == Head(ch)
<1>1. /\ 1 \in 1..Len(ch) /\ m = ch[1]
      /\ \A i \in 1..Len(rest) : i + 1 \in 1..Len(ch) /\ i + 1 # 1 /\ 1 < i + 1 /\ rest[i] = ch[i + 1]
      /\ \A i \in 1..Len(ch) :
           i = 1 \/ (i - 1 \in 1..Len(rest) /\ rest[i - 1] = ch[i] /\ i = (i - 1) + 1)
      /\ \A i, j \in 1..Len(rest) : i + 1 = j + 1 => i = j
  BY Rest
<1> HIDE DEF rest, m
<1>2. ASSUME NoReorgs(ch) PROVE NoReorgs(rest)
  BY <1>1, <1>2 DEF NoReorgs
<1>3. ASSUME ~IsReorgMsg(m), NEW h, OneReorg(ch, h) PROVE OneReorg(rest, h)
  <2>1. PICK i \in 1..Len(ch) :
          IsReorgMsg(ch[i]) /\ ch[i].height = h /\ \A j \in 1..Len(ch) : IsReorgMsg(ch[j]) => j = i
    BY <1>3 DEF OneReorg
  <2>2. i - 1 \in 1..Len(rest) /\ rest[i - 1] = ch[i] /\ i = (i - 1) + 1
    BY <1>1, <1>3, <2>1
  <2>3. ASSUME NEW j \in 1..Len(rest), IsReorgMsg(rest[j]) PROVE j = i - 1
    <3>1. j + 1 \in 1..Len(ch) /\ rest[j] = ch[j + 1]
      BY <1>1
    <3>2. j + 1 = (i - 1) + 1
      BY <2>1, <2>2, <2>3, <3>1
    <3> QED
      BY <1>1, <2>2, <3>2
  <2> QED
    BY <2>1, <2>2, <2>3 DEF OneReorg
<1>4. ASSUME IsReorgMsg(m) PROVE ~NoReorgs(ch)
  BY <1>1, <1>4 DEF NoReorgs
<1>5. ASSUME IsReorgMsg(m), NEW h, OneReorg(ch, h) PROVE h = m.height /\ NoReorgs(rest)
  <2>1. PICK i \in 1..Len(ch) :
          IsReorgMsg(ch[i]) /\ ch[i].height = h /\ \A j \in 1..Len(ch) : IsReorgMsg(ch[j]) => j = i
    BY <1>5 DEF OneReorg
  <2>2. i = 1
    BY <1>1, <1>5, <2>1
  <2>3. NoReorgs(rest)
    BY <1>1, <2>1, <2>2 DEF NoReorgs
  <2> QED
    BY <1>1, <2>1, <2>2, <2>3
<1> QED
  BY <1>2, <1>3, <1>4, <1>5 DEF SameReorgs, rest, m

(* A step that neither sends nor takes a block or a reorg.                 *)
LEMMA StaysInStep ==
  ASSUME InStepNow, SameBlocks(toConfirm, toConfirm'), SameReorgs(toController, toController'),
         UNCHANGED <<latest_blocks, toIndexer, indexerVars>>,
         confirmed_block_height < Height[tip] => confirmed_block_height < Height[tip']
  PROVE  InStepNow'
<1>1. /\ NoBlocks(toConfirm') <=> NoBlocks(toConfirm)
      /\ \A b : FirstBlock(toConfirm', b) <=> FirstBlock(toConfirm, b)
      /\ \A b : LastBlock(toConfirm', b) <=> LastBlock(toConfirm, b)
      /\ InLine(toConfirm) => InLine(toConfirm')
  BY DEF SameBlocks
<1>2. /\ NoReorgs(toController) => NoReorgs(toController')
      /\ \A h : OneReorg(toController, h) => OneReorg(toController', h)
  BY DEF SameReorgs
<1>3. /\ Started' <=> Started
      /\ WindowEnd' = WindowEnd
      /\ Quiet => Quiet'
      /\ \A h : ReorgOnItsWay(h) => ReorgOnItsWay(h)'
      /\ Fresh => Fresh'
      /\ \A b : SentUpTo(b) => SentUpTo(b)'
      /\ UNCHANGED <<phase, confirmed_block_height, confirmed_block_hash,
                     indexer_last_block_height, load_to, indexer_state>>
  <2>1. (Started' <=> Started) /\ WindowEnd' = WindowEnd
    BY DEF Started, WindowEnd, Depth
  <2>2. (Quiet => Quiet') /\ \A h : ReorgOnItsWay(h) => ReorgOnItsWay(h)'
    BY <1>2 DEF Quiet, ReorgOnItsWay
  <2>3. (Fresh => Fresh') /\ \A b : SentUpTo(b) => SentUpTo(b)'
    BY <1>1, <2>1 DEF Fresh, SentUpTo
  <2> QED
    BY <2>1, <2>2, <2>3 DEF indexerVars
<1>4. CASE Doomed
  BY <1>1, <1>3, <1>4 DEF InStepNow, Doomed
<1>5. CASE Steady
  <2>1. /\ Quiet' /\ InLine(toConfirm')
        /\ Started' => \A b \in Block : FirstBlock(toConfirm', b) => Height[b] = Height[WindowEnd'] + 1
    BY <1>1, <1>3, <1>5 DEF Steady, FirstFits
  <2> QED
    BY <1>3, <1>5, <2>1 DEF InStepNow, Steady, FirstFits
<1>6. CASE GoneBack
  BY <1>1, <1>3, <1>6 DEF InStepNow, GoneBack
<1>7. CASE GoingBack
  BY <1>1, <1>3, <1>7 DEF InStepNow, GoingBack
<1> QED
  BY <1>4, <1>5, <1>6, <1>7 DEF InStepNow

(* The messages that neither are blocks nor report reorgs.                 *)
LEMMA OtherMessages ==
  /\ \A S : /\ ~IsReorgMsg(InitializeTxs(S)) /\ ~IsReorgMsg(PartiallyCheckedTxs(S))
            /\ ~IsReorgMsg(FullyCheckedTxs(S)) /\ ~IsReorgMsg(MinedTxs(S))
            /\ ~IsReorgMsg(ConfirmedTxs(S)) /\ ~IsReorgMsg(AttachedTxs(S))
            /\ ~IsBlock(Txs(S))
            /\ \A h : IsReorgMsg(Reorganization(S, h)) /\ Reorganization(S, h).height = h
  /\ \A b : IsBlock(BlockMsg(b)) /\ BlockMsg(b).block = b
BY DEF IsReorgMsg, IsBlock, InitializeTxs, PartiallyCheckedTxs, FullyCheckedTxs, MinedTxs,
       ConfirmedTxs, AttachedTxs, Txs, Reorganization, BlockMsg

LEMMA SendOther ==
  ASSUME NEW M, NEW ch \in Seq(M), NEW m \in M, ~IsReorgMsg(m)
  PROVE  SameReorgs(ch, Send(ch, m)) /\ SameReorgs(ch, SendUnlessEmpty(ch, m))
BY PutReorg, SameReorgsFacts DEF Send, SendUnlessEmpty

LEMMA InStepServices ==
  ASSUME TypeInv, InStepNow,
         (\E x \in Tx : Submit(x)) \/ CheckerAccepts \/ GraphBuilderAttaches
  PROVE  InStepNow'
<1>1. UNCHANGED <<tip, toConfirm, toIndexer, latest_blocks, indexerVars>>
  BY DEF Submit, CheckerAccepts, GraphBuilderAttaches, chainVars, confirmatorVars
<1>2. SameReorgs(toController, toController')
  <2>1. toController \in Seq(ControllerMsg)
    BY ChannelTypes
  <2>2. ASSUME NEW x \in Tx, Submit(x) PROVE SameReorgs(toController, toController')
    <3>1. InitializeTxs({x}) \in ControllerMsg /\ ~IsReorgMsg(InitializeTxs({x}))
      BY SentMessages, OtherMessages
    <3> QED
      BY <2>1, <2>2, <3>1, SendOther DEF Submit
  <2>3. CASE CheckerAccepts
    <3> DEFINE m == Head(toChecker)
               answer == IF m.type = "FullCheck" THEN FullyCheckedTxs(m.txs)
                         ELSE PartiallyCheckedTxs(Ids(m.txs))
    <3>1. toChecker # <<>> /\ toController' = SendUnlessEmpty(toController, answer)
      BY <2>3 DEF CheckerAccepts
    <3>2. m \in CheckerMsg
      BY <3>1, ChannelTypes, HeadTailTyped
    <3>3. m.txs \in SUBSET Tx
      BY <3>2 DEF CheckerMsg
    <3>4. Ids(m.txs) \in SUBSET Txid
      BY <3>3, TxAssumption DEF Ids
    <3>5. answer \in ControllerMsg /\ ~IsReorgMsg(answer)
      BY <3>3, <3>4, SentMessages, OtherMessages
    <3> HIDE DEF answer
    <3> QED
      BY <2>1, <3>1, <3>5, SendOther
  <2>4. CASE GraphBuilderAttaches
    <3> DEFINE m == Head(toGraph)
               answer == AttachedTxs(Ids(m.txs))
    <3>1. toGraph # <<>> /\ toController' = Send(toController, answer)
      BY <2>4 DEF GraphBuilderAttaches
    <3>2. m \in GraphMsg
      BY <3>1, ChannelTypes, HeadTailTyped
    <3>3. Ids(m.txs) \in SUBSET Txid
      BY SMT, <3>2, TxAssumption DEF Ids, GraphMsg
    <3>4. answer \in ControllerMsg /\ ~IsReorgMsg(answer)
      BY <3>3, SentMessages, OtherMessages
    <3> HIDE DEF answer
    <3> QED
      BY <2>1, <3>1, <3>4, SendOther
  <2> QED
    BY <2>2, <2>3, <2>4
<1>3. SameBlocks(toConfirm, toConfirm')
  BY <1>1, SameBlocksFacts
<1> QED
  BY <1>1, <1>2, <1>3, StaysInStep

LEMMA InStepChain ==
  ASSUME TypeInv, InStepNow, ChainStep
  PROVE  InStepNow'
<1>1. UNCHANGED <<toController, toConfirm, toIndexer, latest_blocks, indexerVars>>
  BY DEF ChainStep, channels, confirmatorVars
<1>2. SameBlocks(toConfirm, toConfirm') /\ SameReorgs(toController, toController')
  BY <1>1, SameBlocksFacts, SameReorgsFacts
<1>3. confirmed_block_height < Height[tip] => confirmed_block_height < Height[tip']
  <2>1. PICK b \in Block : NewTip(b)
    BY DEF ChainStep
  <2>2. Height[b] > Height[tip] /\ tip' = b
    BY <2>1 DEF NewTip
  <2>3. confirmed_block_height \in Nat /\ Height[tip] \in Nat /\ Height[b] \in Nat
    BY TreeAssumption DEF TypeInv, TypeOK
  <2> QED
    BY SMT, <2>2, <2>3
<1> QED
  BY <1>1, <1>2, <1>3, StaysInStep

LEMMA InStepController ==
  ASSUME TypeInv, InStepNow, ControllerStep
  PROVE  InStepNow'
<1> DEFINE m == Head(toController)
<1>1. /\ ControllerEvent /\ toController # <<>> /\ toController' = Tail(toController)
      /\ UNCHANGED <<tip, latest_blocks, indexerVars>>
  BY DEF ControllerStep, ControllerEvent, chainVars, confirmatorVars
<1>2. toController \in Seq(ControllerMsg) /\ toConfirm \in Seq(ConfirmMsg)
  BY ChannelTypes
<1>3. m.type \in {"InitializeTxs", "PartiallyCheckedTxs", "FullyCheckedTxs", "MinedTxs",
                  "ConfirmedTxs", "Reorganization", "AttachedTxs"}
  BY <1>1, HeadMessage
<1>4. SameBlocks(toConfirm, toConfirm')
  <2>1. CASE toConfirm' = toConfirm
    BY <2>1, SameBlocksFacts
  <2>2. ASSUME NEW S, toConfirm' = Append(toConfirm, Txs(S)) PROVE SameBlocks(toConfirm, toConfirm')
    <3> DEFINE M == ConfirmMsg \cup {Txs(S)}
    <3>1. ConfirmMsg \subseteq M /\ Txs(S) \in M /\ ~IsBlock(Txs(S))
      BY OtherMessages
    <3> HIDE DEF M
    <3>2. toConfirm \in Seq(M)
      BY <1>2, <3>1, SeqMono
    <3> QED
      BY <2>2, <3>1, <3>2, PutOther
  <2> QED
    BY <1>1, <2>1, <2>2, ControllerSendsTxs
<1>5. CASE m.type # "Reorganization"
  <2>1. UNCHANGED toIndexer
    BY <1>1, <1>3, <1>5
       DEF ControllerEvent, handle_new_lrc20_txs, handle_partially_checked_txs,
           handle_fully_checked_txs, handle_mined_txs, handle_confirmed_txs, handle_attached_txs
  <2>2. ~IsReorgMsg(m)
    BY <1>5 DEF IsReorgMsg
  <2>3. SameReorgs(toController, toController')
    BY <1>1, <1>2, <2>2, TakeReorg
  <2> QED
    BY <1>1, <1>4, <2>1, <2>3, StaysInStep
<1>6. CASE m.type = "Reorganization"
  <2>1. toIndexer' = Append(toIndexer, m.height)
    BY <1>1, <1>6 DEF ControllerEvent, handle_reorganization_txs, Send
  <2>2. IsReorgMsg(m)
    BY <1>6 DEF IsReorgMsg
  <2>3. ~NoReorgs(toController) /\ \A h : OneReorg(toController, h) => h = m.height /\ NoReorgs(toController')
    BY <1>1, <1>2, <2>2, TakeReorg
  <2>4. /\ NoBlocks(toConfirm) => NoBlocks(toConfirm')
        /\ \A b : FirstBlock(toConfirm, b) => FirstBlock(toConfirm', b)
        /\ (Started => Started') /\ WindowEnd' = WindowEnd
    BY <1>1, <1>4 DEF SameBlocks, Started, WindowEnd, Depth
  <2>5. CASE Doomed
    BY <2>4, <2>5 DEF InStepNow, Doomed
  <2>6. CASE GoingBack
    <3>1. toIndexer = <<>> /\ OneReorg(toController, Height[WindowEnd])
      BY <2>3, <2>6 DEF GoingBack, ReorgOnItsWay
    <3>2. toIndexer' = <<m.height>> /\ m.height = Height[WindowEnd] /\ NoReorgs(toController')
      <4>1. Append(<<>>, m.height) = <<m.height>>
        BY SMT
      <4> QED
        BY <2>1, <2>3, <3>1, <4>1
    <3>3. ReorgOnItsWay(Height[WindowEnd])'
      BY <2>4, <3>2 DEF ReorgOnItsWay
    <3> QED
      BY <1>1, <2>4, <2>6, <3>3 DEF InStepNow, GoingBack, indexerVars
  <2> QED
    BY <2>3, <2>5, <2>6 DEF InStepNow, Steady, GoneBack, Quiet
<1> QED
  BY <1>5, <1>6

-----------------------------------------------------------------------------
(* The confirmator.                                                        *)

LEMMA InStepTxToConfirm ==
  ASSUME TypeInv, InStepNow, NEW t \in Txid, handle_tx_to_confirm(t),
         UNCHANGED <<tip, toIndexer, indexerVars>>
  PROVE  InStepNow'
<1> DEFINE rest == Head(toConfirm).txs \ {t}
<1>1. /\ toConfirm # <<>> /\ Head(toConfirm).type = "Txs" /\ toConfirm \in Seq(ConfirmMsg)
      /\ toController \in Seq(ControllerMsg) /\ UNCHANGED latest_blocks
  BY ChannelTypes DEF handle_tx_to_confirm, Next1
<1>2. Head(toConfirm) \in ConfirmMsg
  BY <1>1, HeadTailTyped
<1>3. rest \in SUBSET Txid /\ ~IsBlock(Head(toConfirm))
  BY <1>1, <1>2 DEF ConfirmMsg, IsBlock
<1> HIDE DEF rest
<1>4. Txs(rest) \in ConfirmMsg /\ ~IsBlock(Txs(rest))
  BY <1>3, SentMessages, OtherMessages
<1>5. toConfirm' = Tail(toConfirm) \/ toConfirm' = <<Txs(rest)>> \o Tail(toConfirm)
  BY DEF handle_tx_to_confirm, WithoutTx, rest
<1>6. SameBlocks(toConfirm, toConfirm')
  <2>1. SameBlocks(toConfirm, Tail(toConfirm))
    BY <1>1, <1>3, TakeOther
  <2>2. SameBlocks(toConfirm, <<Txs(rest)>> \o Tail(toConfirm))
    BY <1>1, <1>3, <1>4, ReplaceOther
  <2> QED
    BY <1>5, <2>1, <2>2
<1>7. SameReorgs(toController, toController')
  <2> DEFINE one == Send(toController, MinedTxs({t}))
             two == Send(one, ConfirmedTxs({t}))
  <2>1. /\ MinedTxs({t}) \in ControllerMsg /\ ConfirmedTxs({t}) \in ControllerMsg
        /\ ~IsReorgMsg(MinedTxs({t})) /\ ~IsReorgMsg(ConfirmedTxs({t}))
    BY SentMessages, OtherMessages
  <2>2. one \in Seq(ControllerMsg) /\ SameReorgs(toController, one)
    BY <1>1, <2>1, AppendTyped, SendOther DEF Send
  <2> HIDE DEF one
  <2>3. SameReorgs(one, two)
    BY <2>1, <2>2, SendOther
  <2>4. SameReorgs(toController, two)
    BY <2>2, <2>3, SameReorgsFacts
  <2>5. toController' = toController \/ toController' = one \/ toController' = two
    BY DEF handle_tx_to_confirm, one
  <2>6. SameReorgs(toController, toController)
    BY SameReorgsFacts
  <2> HIDE DEF two
  <2> QED
    BY <2>2, <2>4, <2>5, <2>6
<1> QED
  BY <1>1, <1>6, <1>7, StaysInStep

LEMMA InStepCleanUp ==
  ASSUME TypeInv, InStepNow, CleanUp
  PROVE  InStepNow'
<1>1. UNCHANGED <<tip, toController, toConfirm, toIndexer, latest_blocks, indexerVars>>
  BY DEF CleanUp, clean_up_waiting_txs, chainVars
<1>2. SameBlocks(toConfirm, toConfirm') /\ SameReorgs(toController, toController')
  BY <1>1, SameBlocksFacts, SameReorgsFacts
<1> QED
  BY <1>1, <1>2, StaysInStep

(* The block is too high for the window: the confirmator looks for its     *)
(* ancestors one height too high, and finds none.                          *)
LEMMA TooHighStops ==
  ASSUME TypeInv, WindowOnBranch, Started, NEW b \in known, Height[b] > Height[WindowEnd] + 1
  PROVE  IsReorg(b) /\ ~ForkIsKnown(b)
<1>1. /\ b \in Block /\ latest_blocks \in Seq(Block) /\ Depth = Len(latest_blocks) /\ Depth \in Nat
  BY WindowTyped DEF TypeInv, ChainInv
<1>2. Depth \in 1..Depth /\ WindowEnd \in Block /\ Height[b] \in Nat /\ Height[WindowEnd] \in Nat
  <2>1. Depth \in 1..Depth
    BY SMT, <1>1 DEF Started
  <2>2. WindowEnd \in Block
    BY SMT, <1>1, <2>1 DEF WindowEnd
  <2> QED
    BY <1>1, <2>1, <2>2, TreeAssumption
<1>3. IsReorg(b)
  <2>1. b # Genesis
    BY SMT, <1>2, TreeAssumption
  <2>2. Parent[b] \in Block /\ Height[b] = Height[Parent[b]] + 1
    BY <1>1, <2>1, TreeAssumption
  <2>3. Parent[b] # NoBlock
    BY <2>2, TreeAssumption
  <2>4. Parent[b] # WindowEnd
    BY SMT, <1>2, <2>2
  <2> QED
    BY <2>3, <2>4 DEF IsReorg, Started, WindowEnd
<1>4. ASSUME NEW j \in 0..Depth, MeetsWindowAt(b, j) PROVE FALSE
  <2> DEFINE i == Depth - j
             h == Height[b] - 1 - j
  <2>1. j < Depth /\ j < Height[b] /\ latest_blocks[i] = BlockAt(b, h)
    BY <1>4 DEF MeetsWindowAt
  <2>2. i \in 1..Depth /\ i <= Depth /\ Depth - i = j /\ h \in 0..Height[b] /\ h = Height[b] - 1 - j
    BY SMT, <1>1, <1>2, <2>1
  <2>3. Height[BlockAt(b, h)] = h
    BY <1>1, <2>2, BlockAtOnBranch
  <2>4. Height[WindowEnd] - Height[latest_blocks[i]] = Depth - i
    BY <1>1, <1>2, <2>2 DEF WindowOnBranch, WindowEnd
  <2> HIDE DEF i, h
  <2>5. Height[WindowEnd] - h = j
    BY <2>1, <2>2, <2>3, <2>4
  <2> QED
    BY SMT, <1>1, <1>2, <2>1, <2>2, <2>5
<1> QED
  BY <1>3, <1>4 DEF ForkIsKnown

(* The window ends where the new block's branch has left it.               *)
LEMMA ReorgWindow ==
  ASSUME TypeInv, NEW b \in known, ForkIsKnown(b), handle_reorg(b)
  PROVE  LET h == Height[b] - 1 - OrphansOf(b)
         IN  /\ Started' /\ h \in Nat /\ Height[WindowEnd'] = h /\ h < Height[b]
             /\ \E S \in SUBSET Txid : toController' = Append(toController, Reorganization(S, h))
<1> DEFINE k == OrphansOf(b)
           h == Height[b] - 1 - k
           n == Depth - k
<1>1. /\ b \in Block /\ latest_blocks \in Seq(Block) /\ Depth = Len(latest_blocks) /\ Depth \in Nat
  BY WindowTyped DEF TypeInv, ChainInv
<1>2. Height[b] \in Nat
  BY <1>1, TreeAssumption
<1>3. k \in 0..(Depth - 1) /\ k < Height[b] /\ MeetsWindowAt(b, k)
  BY <1>1, OrphansAreFewest
<1>4. latest_blocks[n] = BlockAt(b, h)
  BY <1>3 DEF MeetsWindowAt
<1>5. latest_blocks' = SubSeq(latest_blocks, 1, n)
  BY DEF handle_reorg, WindowPrefix
<1>6. toController' = Append(toController, Reorganization(OrphanTxs(b), h))
  BY DEF handle_reorg, Send
<1>7. OrphanTxs(b) \in SUBSET Txid
  BY DEF OrphanTxs, extract_waiting_txs_from_block, TypeInv, TypeOK
<1>8. /\ n \in 0..Len(latest_blocks) /\ n \in 1..n /\ n > 0
      /\ h \in Nat /\ h \in 0..Height[b] /\ h < Height[b]
  BY SMT, <1>1, <1>2, <1>3
<1> HIDE DEF k, h, n
<1>9. Len(latest_blocks') = n /\ \A i \in 1..n : latest_blocks'[i] = latest_blocks[i]
  BY <1>1, <1>5, <1>8, PrefixTyped
<1>10. WindowEnd' = BlockAt(b, h)
  BY <1>4, <1>8, <1>9 DEF WindowEnd, Depth
<1>11. Height[WindowEnd'] = h
  BY <1>1, <1>8, <1>10, BlockAtOnBranch
<1>12. Started'
  <2>1. Len(latest_blocks') # 0
    BY SMT, <1>8, <1>9
  <2> QED
    BY SMT, <2>1 DEF Started
<1> QED
  BY <1>6, <1>7, <1>8, <1>11, <1>12 DEF h, k

(* The window ends with the block that has extended it.                    *)
LEMMA ExtendedEnd ==
  ASSUME TypeInv, WindowIsBranch, confirmations_number > 1, NEW b \in known, ExtendWindow(b)
  PROVE  Started' /\ WindowEnd' = b
<1> DEFINE window == Append(latest_blocks, b)
<1>1. Depth \in Nat /\ Depth = Len(latest_blocks) /\ Depth < confirmations_number
  BY WindowTyped DEF WindowIsBranch
<1>2. /\ window \in Seq(known) /\ Len(window) = Depth + 1 /\ window[Depth + 1] = b
      /\ \A i \in 1..Depth : window[i] = latest_blocks[i]
      /\ \/ Len(window) < confirmations_number /\ latest_blocks' = window
         \/ /\ Len(window) = confirmations_number
            /\ Len(latest_blocks') = Depth
            /\ \A i \in 1..Depth : latest_blocks'[i] = window[i + 1]
  BY <1>1, ExtendedWindow
<1> HIDE DEF window
<1>3. CASE latest_blocks' = window
  <2>1. Len(latest_blocks') # 0
    BY SMT, <1>1, <1>2, <1>3
  <2>2. Started'
    BY SMT, <2>1 DEF Started
  <2>3. WindowEnd' = b
    BY <1>2, <1>3 DEF WindowEnd, Depth
  <2> QED
    BY <2>2, <2>3
<1>4. CASE /\ Len(window) = confirmations_number /\ Len(latest_blocks') = Depth
           /\ \A i \in 1..Depth : latest_blocks'[i] = window[i + 1]
  <2>1. Depth \in 1..Depth /\ Len(latest_blocks') # 0
    BY SMT, <1>1, <1>2, <1>4
  <2>2. Started'
    BY SMT, <2>1 DEF Started
  <2>3. latest_blocks'[Depth] = b
    BY <1>2, <1>4, <2>1
  <2>4. WindowEnd' = b
    BY <1>4, <2>3 DEF WindowEnd, Depth
  <2> QED
    BY <2>2, <2>4
<1> QED
  BY <1>2, <1>3, <1>4

LEMMA InStepNewBlock ==
  ASSUME TypeInv, WindowInv, confirmations_number > 1, InStepNow, handle_new_block, ~cancelled',
         UNCHANGED <<tip, toIndexer, indexerVars>>
  PROVE  InStepNow'
<1> DEFINE b == Head(toConfirm).block
<1>1. /\ toConfirm # <<>> /\ Head(toConfirm).type = "Block" /\ toConfirm' = Tail(toConfirm)
      /\ IF IsReorg(b) THEN handle_reorg(b) ELSE ExtendWindow(b)
  BY DEF handle_new_block, Next1
<1>2. /\ toConfirm \in Seq(ConfirmMsg) /\ toController \in Seq(ControllerMsg)
      /\ IsBlock(Head(toConfirm))
  BY <1>1, ChannelTypes DEF IsBlock
<1>3. /\ ~NoBlocks(toConfirm) /\ FirstBlock(toConfirm, b) /\ \A c : FirstBlock(toConfirm, c) => c = b
      /\ \A c : LastBlock(toConfirm, c) => LastBlock(toConfirm', c) \/ (NoBlocks(toConfirm') /\ c = b)
      /\ InLine(toConfirm) => InLine(toConfirm')
      /\ InLine(toConfirm) => \A c : FirstBlock(toConfirm', c) => Height[c] = Height[b] + 1
  BY <1>1, <1>2, TakeBlock
<1>4. b \in known /\ b \in Block
  <2>1. b \in known
    BY <1>1, HeadTailTyped DEF TypeInv, ChainInv, KnownConfirmMsg
  <2> QED
    BY <2>1 DEF TypeInv, ChainInv
<1>5. toConfirm' \in Seq(ConfirmMsg)
  BY <1>1, <1>2, HeadTailTyped
<1> HIDE DEF b
<1>6. ~Doomed
  <2> SUFFICES ASSUME Doomed PROVE FALSE
    OBVIOUS
  <2>1. Started /\ Height[b] > Height[WindowEnd] + 1
    BY <1>3 DEF Doomed
  <2>2. IsReorg(b) /\ ~ForkIsKnown(b)
    BY <1>4, <2>1, TooHighStops DEF WindowInv
  <2> QED
    BY <1>1, <2>2 DEF handle_reorg
<1>7. Steady
  BY <1>3, <1>6 DEF InStepNow, GoneBack, GoingBack
<1>8. /\ toIndexer = <<>> /\ NoReorgs(toController) /\ InLine(toConfirm')
      /\ \A c : FirstBlock(toConfirm', c) => Height[c] = Height[b] + 1
  BY <1>3, <1>7 DEF Steady, Quiet
<1>9. \/ /\ phase = "load" /\ indexer_state # NoBlock /\ LastBlock(toConfirm, indexer_state)
         /\ indexer_last_block_height = Height[indexer_state] + 1
      \/ phase = "run" /\ LastBlock(toConfirm, confirmed_block_hash)
  BY <1>3, <1>7 DEF Steady, Fresh, SentUpTo
<1>10. UNCHANGED <<phase, confirmed_block_height, confirmed_block_hash,
                   indexer_last_block_height, load_to, indexer_state>>
  BY DEF indexerVars
<1>11. CASE ~IsReorg(b)
  <2>1. ExtendWindow(b)
    BY <1>1, <1>11
  <2>2. Started' /\ WindowEnd' = b
    BY <1>4, <2>1, ExtendedEnd DEF WindowInv
  <2>3. SameReorgs(toController, toController')
    <3> DEFINE mined == extract_waiting_txs_from_block(b)
               window == Append(latest_blocks, b)
               conf == IF Len(window) = confirmations_number
                       THEN extract_waiting_txs_from_block(Head(window)) ELSE {}
               one == SendUnlessEmpty(toController, MinedTxs(mined))
    <3>1. toController' = SendUnlessEmpty(one, ConfirmedTxs(conf))
      BY <2>1 DEF ExtendWindow
    <3>2. mined \in SUBSET Txid /\ conf \in SUBSET Txid
      BY DEF extract_waiting_txs_from_block, TypeInv, TypeOK
    <3> HIDE DEF mined, conf
    <3>3. /\ MinedTxs(mined) \in ControllerMsg /\ ~IsReorgMsg(MinedTxs(mined))
          /\ ConfirmedTxs(conf) \in ControllerMsg /\ ~IsReorgMsg(ConfirmedTxs(conf))
      BY <3>2, SentMessages, OtherMessages
    <3>4. one \in Seq(ControllerMsg) /\ SameReorgs(toController, one)
      BY <1>2, <3>3, SendTyped, SendOther
    <3> HIDE DEF one
    <3>5. SameReorgs(one, toController')
      BY <3>1, <3>3, <3>4, SendOther
    <3> QED
      BY <3>4, <3>5, SameReorgsFacts
  <2>4. Quiet'
    BY <1>8, <2>3 DEF Quiet, SameReorgs
  <2>5. \A c : LastBlock(toConfirm, c) => SentUpTo(c)'
    BY <1>3, <2>2 DEF SentUpTo
  <2>6. Started' => \A c \in Block : FirstBlock(toConfirm', c) => Height[c] = Height[WindowEnd'] + 1
    BY <1>8, <2>2
  <2> QED
    BY <1>8, <1>9, <1>10, <2>4, <2>5, <2>6 DEF InStepNow, Steady, FirstFits
<1>12. CASE IsReorg(b)
  <2> DEFINE h == Height[b] - 1 - OrphansOf(b)
  <2>1. handle_reorg(b) /\ ForkIsKnown(b)
    BY <1>1, <1>12 DEF handle_reorg
  <2>2. /\ Started' /\ h \in Nat /\ Height[WindowEnd'] = h /\ h < Height[b]
        /\ \E S \in SUBSET Txid : toController' = Append(toController, Reorganization(S, h))
    BY <1>4, <2>1, ReorgWindow
  <2> HIDE DEF h
  <2>3. PICK S \in SUBSET Txid : toController' = Append(toController, Reorganization(S, h))
    BY <2>2
  <2>4. OneReorg(toController', h)
    <3> DEFINE m == Reorganization(S, h)
    <3>1. m \in ControllerMsg /\ IsReorgMsg(m) /\ m.height = h
      BY <2>2, SentMessages, OtherMessages
    <3> HIDE DEF m
    <3>2. OneReorg(Append(toController, m), m.height)
      BY <1>2, <1>8, <3>1, PutReorg
    <3> QED
      BY <2>3, <3>1, <3>2 DEF m
  <2>5. ReorgOnItsWay(Height[WindowEnd])'
    BY <1>8, <2>2, <2>4 DEF ReorgOnItsWay
  <2>6. Height[b] \in Nat /\ Height[b] > Height[WindowEnd']
    BY <1>4, <2>2, TreeAssumption
  <2>7. CASE NoBlocks(toConfirm')
    <3>1. \A c : ~LastBlock(toConfirm', c)
      BY <2>7 DEF NoBlocks, LastBlock
    <3>2. \A c : LastBlock(toConfirm, c) => c = b
      BY <1>3, <3>1
    <3>3. CASE phase = "load"
      <4>1. indexer_state = b /\ indexer_state # NoBlock
            /\ indexer_last_block_height = Height[indexer_state] + 1
        BY <1>9, <3>2, <3>3
      <4> QED
        BY <1>10, <2>2, <2>5, <2>6, <2>7, <3>3, <4>1 DEF InStepNow, GoingBack
    <3>4. CASE phase = "run"
      <4>1. confirmed_block_hash = b
        BY <1>9, <3>2, <3>4
      <4>2. confirmed_block_height = Height[b]
        BY <3>4, <4>1 DEF TypeInv, ChainInv
      <4> QED
        BY <1>10, <2>2, <2>5, <2>6, <2>7, <3>4, <4>2 DEF InStepNow, GoingBack
    <3> QED
      BY <1>9, <3>3, <3>4
  <2>8. CASE ~NoBlocks(toConfirm')
    <3>1. PICK c \in Block : FirstBlock(toConfirm', c)
      BY <1>5, <2>8, SomeFirstBlock
    <3>2. Height[c] = Height[b] + 1
      BY <1>8, <3>1
    <3>3. Height[c] > Height[WindowEnd'] + 1
      BY SMT, <2>2, <2>6, <3>2
    <3> QED
      BY <2>2, <3>1, <3>3 DEF InStepNow, Doomed
  <2> QED
    BY <2>7, <2>8
<1> QED
  BY <1>11, <1>12

-----------------------------------------------------------------------------
(* The indexer.                                                            *)

(* What a block does that the indexer sends.                               *)
LEMMA BlockSent ==
  ASSUME TypeInv, NEW b \in Block, toConfirm' = Send(toConfirm, BlockMsg(b)),
         UNCHANGED <<latest_blocks, toController, toIndexer>>
  PROVE  /\ Doomed => Doomed'
         /\ Started /\ NoBlocks(toConfirm) /\ Height[b] > Height[WindowEnd] + 1 => Doomed'
         /\ Quiet => Quiet'
         /\ SentUpTo(b)'
         /\ Fresh \/ (\E c : SentUpTo(c) /\ Height[b] = Height[c] + 1)
            => /\ InLine(toConfirm) => InLine(toConfirm')
               /\ FirstFits => FirstFits'
<1> DEFINE m == BlockMsg(b)
<1>1. m \in ConfirmMsg /\ IsBlock(m) /\ m.block = b
  BY DEF BlockMsg, ConfirmMsg, IsBlock
<1>2. toConfirm \in Seq(ConfirmMsg) /\ toConfirm' = Append(toConfirm, m)
  BY ChannelTypes DEF Send
<1> HIDE DEF m
<1> DEFINE new == Append(toConfirm, m)
<1>2a. /\ LastBlock(new, m.block)
       /\ \A c : FirstBlock(toConfirm, c) => FirstBlock(new, c)
       /\ NoBlocks(toConfirm) => FirstBlock(new, m.block)
       /\ \A c : FirstBlock(new, c) => FirstBlock(toConfirm, c) \/ (NoBlocks(toConfirm) /\ c = m.block)
       /\ NoBlocks(toConfirm) => InLine(new)
       /\ \A c : InLine(toConfirm) /\ LastBlock(toConfirm, c) /\ Height[m.block] = Height[c] + 1
                   => InLine(new)
  BY <1>1, <1>2, PutBlock
<1> HIDE DEF new
<1>2b. toConfirm' = new
  BY <1>2 DEF new
<1>3. /\ LastBlock(toConfirm', m.block)
      /\ \A c : FirstBlock(toConfirm, c) => FirstBlock(toConfirm', c)
      /\ NoBlocks(toConfirm) => FirstBlock(toConfirm', m.block)
      /\ \A c : FirstBlock(toConfirm', c) => FirstBlock(toConfirm, c) \/ (NoBlocks(toConfirm) /\ c = m.block)
      /\ NoBlocks(toConfirm) => InLine(toConfirm')
      /\ \A c : InLine(toConfirm) /\ LastBlock(toConfirm, c) /\ Height[m.block] = Height[c] + 1
                  => InLine(toConfirm')
  BY <1>2a, <1>2b
<1>4. (Started' <=> Started) /\ WindowEnd' = WindowEnd
  BY DEF Started, WindowEnd, Depth
<1>5. Doomed => Doomed'
  BY <1>3, <1>4 DEF Doomed
<1>6. Started /\ NoBlocks(toConfirm) /\ Height[b] > Height[WindowEnd] + 1 => Doomed'
  BY <1>1, <1>3, <1>4 DEF Doomed
<1>7. (Quiet => Quiet') /\ SentUpTo(b)'
  BY <1>1, <1>3 DEF Quiet, SentUpTo
<1>8. ASSUME Fresh PROVE /\ InLine(toConfirm) => InLine(toConfirm')
                         /\ FirstFits => FirstFits'
  BY <1>3, <1>4, <1>8 DEF Fresh, FirstFits
<1>9. ASSUME NEW c, SentUpTo(c), Height[b] = Height[c] + 1
      PROVE  /\ InLine(toConfirm) => InLine(toConfirm')
             /\ FirstFits => FirstFits'
  <2>1. CASE LastBlock(toConfirm, c)
    <3>1. ~NoBlocks(toConfirm)
      BY <2>1 DEF NoBlocks, LastBlock
    <3> QED
      BY <1>1, <1>3, <1>4, <1>9, <2>1, <3>1 DEF FirstFits
  <2>2. CASE NoBlocks(toConfirm) /\ Started /\ WindowEnd = c
    <3>1. \A d : ~FirstBlock(toConfirm, d)
      BY <2>2 DEF NoBlocks, FirstBlock
    <3>2. \A d : FirstBlock(toConfirm', d) => d = b
      BY <1>1, <1>3, <3>1
    <3> QED
      BY <1>3, <1>4, <1>9, <2>2, <3>2 DEF FirstFits
  <2> QED
    BY <1>9, <2>1, <2>2 DEF SentUpTo
<1> QED
  BY <1>5, <1>6, <1>7, <1>8, <1>9

(* init goes back at least one block, and starts at a block that exists.   *)
LEMMA InitFromExists ==
  ASSUME TypeInv, confirmations_number > 1, starting_block_height <= Height[tip],
         indexer_state # NoBlock
  PROVE  InitFrom <= Height[tip]
<1>1. /\ Height[tip] \in Nat /\ Height[indexer_state] \in Nat
      /\ Height[indexer_state] <= Height[tip]
  BY TreeAssumption DEF TypeInv, TypeOK, ChainInv
<1>2. /\ get_starting_block_height \in {Height[indexer_state] + 1, starting_block_height}
      /\ get_starting_block_height # -1
  BY SMT, <1>1 DEF get_starting_block_height
<1>3. get_starting_block_height \in Nat /\ get_starting_block_height <= Height[tip] + 1
  BY SMT, <1>1, <1>2, IndexerAssumption
<1> HIDE DEF get_starting_block_height
<1> QED
  BY SMT, <1>1, <1>3, ConfirmationsAssumption DEF InitFrom, saturating_sub

LEMMA InStepInit ==
  ASSUME TypeInv, confirmations_number > 1, starting_block_height <= Height[tip], InStepNow,
         InitStarts \/ init_blocks_handle \/ InitFinishes,
         UNCHANGED <<tip, latest_blocks, toController, toIndexer>>
  PROVE  InStepNow'
<1>1. CASE InitStarts
  <2>1. /\ phase = "init" /\ phase' = "load" /\ indexer_last_block_height' = InitFrom
        /\ load_to' = Height[tip] /\ UNCHANGED <<indexer_state, toConfirm>>
    BY <1>1 DEF InitStarts
  <2>2. indexer_state' = NoBlock \/ indexer_last_block_height' <= load_to'
    BY <2>1, InitFromExists
  <2>3. CASE Doomed
    BY <2>1, <2>3 DEF InStepNow, Doomed, Started, WindowEnd, Depth
  <2>4. CASE Steady
    <3>1. Fresh' /\ Quiet' /\ InLine(toConfirm') /\ FirstFits'
      BY <2>1, <2>4 DEF Steady, Fresh, Quiet, Started, FirstFits, WindowEnd, Depth
    <3> QED
      BY <2>1, <2>2, <3>1 DEF InStepNow, Steady
  <2> QED
    BY <2>1, <2>3, <2>4 DEF InStepNow, GoneBack, GoingBack
<1>2. CASE init_blocks_handle
  <2>1. /\ phase = "load" /\ phase' = "load" /\ indexer_last_block_height <= load_to
        /\ index_block(BlockAt(tip, indexer_last_block_height))
        /\ indexer_last_block_height' = indexer_last_block_height + 1
    BY <1>2 DEF init_blocks_handle
  <2>2. indexer_last_block_height \in 0..Height[tip] /\ tip \in Block
    BY SMT, <2>1, TreeAssumption DEF TypeInv, TypeOK, ChainInv
  <2>3. PICK b \in Block : b = BlockAt(tip, indexer_last_block_height)
    BY <2>2, BlockAtOnBranch
  <2>3a. /\ Height[b] = indexer_last_block_height /\ b # NoBlock
         /\ toConfirm' = Send(toConfirm, BlockMsg(b)) /\ indexer_state' = b
    BY <2>1, <2>2, <2>3, BlockAtOnBranch, TreeAssumption DEF index_block
  <2>4. /\ Doomed => Doomed'
        /\ Started /\ NoBlocks(toConfirm) /\ Height[b] > Height[WindowEnd] + 1 => Doomed'
        /\ Quiet => Quiet'
        /\ SentUpTo(b)'
        /\ Fresh \/ (\E c : SentUpTo(c) /\ Height[b] = Height[c] + 1)
           => /\ InLine(toConfirm) => InLine(toConfirm')
              /\ FirstFits => FirstFits'
    BY <2>3a, BlockSent
  <2>5. CASE Steady
    <3>1. Fresh \/ \E c : SentUpTo(c) /\ Height[b] = Height[c] + 1
      BY <2>1, <2>3a, <2>5 DEF Steady
    <3>2. Quiet' /\ InLine(toConfirm') /\ FirstFits'
      BY <2>4, <2>5, <3>1 DEF Steady
    <3>3. SentUpTo(indexer_state)' /\ indexer_state' # NoBlock
          /\ indexer_last_block_height' = Height[indexer_state'] + 1
      BY <2>1, <2>3a, <2>4 DEF SentUpTo
    <3> QED
      BY <2>1, <3>2, <3>3 DEF InStepNow, Steady
  <2>6. CASE GoingBack
    <3>1. /\ Started /\ NoBlocks(toConfirm) /\ indexer_state # NoBlock
          /\ indexer_last_block_height = Height[indexer_state] + 1
          /\ Height[indexer_state] > Height[WindowEnd]
      BY <2>1, <2>6 DEF GoingBack
    <3>2. WindowEnd \in Block /\ indexer_state \in Block
      BY SMT, <3>1, WindowTyped DEF Started, WindowEnd, TypeInv, TypeOK
    <3>3. Height[b] > Height[WindowEnd] + 1
      BY SMT, <2>3a, <3>1, <3>2, TreeAssumption
    <3> QED
      BY <2>4, <3>1, <3>3 DEF InStepNow
  <2> QED
    BY <2>1, <2>4, <2>5, <2>6 DEF InStepNow, GoneBack
<1>3. CASE InitFinishes
  <2> DEFINE last == IF indexer_state = NoBlock THEN Genesis ELSE indexer_state
  <2>1. /\ phase = "load" /\ phase' = "run" /\ indexer_last_block_height > load_to
        /\ confirmed_block_hash' = last /\ confirmed_block_height' = Height[last]
        /\ UNCHANGED <<toConfirm, indexer_state>>
    BY <1>3 DEF InitFinishes, StartPolling
  <2>2. ~(indexer_last_block_height <= load_to)
    BY SMT, <2>1 DEF TypeInv, TypeOK
  <2>3. /\ Doomed => Doomed'
        /\ Quiet => Quiet'
        /\ InLine(toConfirm) => InLine(toConfirm')
        /\ FirstFits => FirstFits'
        /\ Fresh => Fresh'
        /\ \A c : SentUpTo(c) => SentUpTo(c)'
        /\ (Started => Started') /\ WindowEnd' = WindowEnd
        /\ NoBlocks(toConfirm) => NoBlocks(toConfirm')
        /\ \A h : ReorgOnItsWay(h) => ReorgOnItsWay(h)'
    BY <2>1 DEF Doomed, Quiet, FirstFits, Fresh, SentUpTo, Started, WindowEnd, Depth, ReorgOnItsWay
  <2>4. CASE Steady
    <3>1. Quiet' /\ InLine(toConfirm') /\ FirstFits'
      BY <2>3, <2>4 DEF Steady
    <3>2. CASE indexer_state = NoBlock
      <4>1. confirmed_block_hash' = Genesis /\ Fresh'
        BY <2>1, <2>3, <2>4, <3>2 DEF Steady
      <4> QED
        BY <2>1, <3>1, <4>1 DEF InStepNow, Steady
    <3>3. CASE indexer_state # NoBlock
      <4>1. confirmed_block_hash' = indexer_state /\ SentUpTo(indexer_state)
        BY <2>1, <2>2, <2>4, <3>3 DEF Steady
      <4>2. SentUpTo(confirmed_block_hash)'
        BY <2>1, <2>3, <4>1 DEF SentUpTo
      <4> QED
        BY <2>1, <3>1, <4>2 DEF InStepNow, Steady
    <3> QED
      BY <3>2, <3>3
  <2>5. CASE GoingBack
    <3>1. /\ Started /\ NoBlocks(toConfirm) /\ ReorgOnItsWay(Height[WindowEnd])
          /\ indexer_state # NoBlock /\ Height[indexer_state] > Height[WindowEnd]
      BY <2>1, <2>5 DEF GoingBack
    <3>2. ReorgOnItsWay(Height[WindowEnd])'
      BY <2>3, <3>1 DEF ReorgOnItsWay
    <3>3. confirmed_block_height' > Height[WindowEnd']
      BY <2>1, <2>3, <3>1
    <3> QED
      BY <2>1, <2>3, <3>1, <3>2, <3>3 DEF InStepNow, GoingBack
  <2> QED
    BY <2>1, <2>3, <2>4, <2>5 DEF InStepNow, GoneBack
<1> QED
  BY <1>1, <1>2, <1>3

LEMMA NothingOnItsWay ==
  ASSUME NoBlocks(toConfirm)
  PROVE  InLine(toConfirm) /\ FirstFits
BY DEF NoBlocks, InLine, FirstFits, FirstBlock

LEMMA InStepPoll ==
  ASSUME TypeInv, InStepNow, handle_new_blocks,
         UNCHANGED <<tip, latest_blocks, toController, toIndexer>>
  PROVE  InStepNow'
<1>1. /\ phase \in {"run", "poll"} /\ phase' = "run"
      /\ confirmed_block_hash \in known /\ confirmed_block_height = Height[confirmed_block_hash]
      /\ \A c \in known : c \in Block /\ Height[c] <= Height[tip]
      /\ tip \in Block
  BY DEF handle_new_blocks, TypeInv, TypeOK, ChainInv
<1>2. Height[tip] \in Nat /\ confirmed_block_height \in Nat /\ confirmed_block_height <= Height[tip]
  BY <1>1, TreeAssumption
<1>3. Height[tip] # confirmed_block_height => confirmed_block_height + 1 \in 0..Height[tip]
  BY SMT, <1>2
<1>4. CASE \/ Height[tip] = confirmed_block_height
           \/ BlockAt(tip, confirmed_block_height + 1) = confirmed_block_hash
  <2>1. UNCHANGED <<confirmed_block_height, confirmed_block_hash, indexer_state, toConfirm>>
    BY <1>4 DEF handle_new_blocks
  <2>2. /\ Doomed => Doomed'
        /\ Quiet => Quiet'
        /\ InLine(toConfirm) => InLine(toConfirm')
        /\ FirstFits => FirstFits'
        /\ Fresh => Fresh'
        /\ SentUpTo(confirmed_block_hash) => SentUpTo(confirmed_block_hash)'
        /\ (Started => Started') /\ WindowEnd' = WindowEnd
        /\ NoBlocks(toConfirm) => NoBlocks(toConfirm')
        /\ ReorgOnItsWay(Height[WindowEnd]) => ReorgOnItsWay(Height[WindowEnd])'
    BY <2>1 DEF Doomed, Quiet, FirstFits, Fresh, SentUpTo, Started, WindowEnd, Depth, ReorgOnItsWay
  <2>3. CASE Steady
    <3>1. Quiet' /\ InLine(toConfirm') /\ FirstFits'
      BY <2>2, <2>3 DEF Steady
    <3>2. (Fresh' /\ confirmed_block_hash' = Genesis) \/ SentUpTo(confirmed_block_hash)'
      BY <1>1, <2>1, <2>2, <2>3 DEF Steady
    <3> QED
      BY <1>1, <3>1, <3>2 DEF InStepNow, Steady
  <2>4. ~GoneBack
    <3> SUFFICES ASSUME GoneBack PROVE FALSE
      OBVIOUS
    <3>1. Height[tip] # confirmed_block_height
      BY SMT, <1>2 DEF GoneBack
    <3>2. Height[BlockAt(tip, confirmed_block_height + 1)] = confirmed_block_height + 1
      BY <1>1, <1>3, <3>1, BlockAtOnBranch
    <3>3. confirmed_block_height + 1 = confirmed_block_height
      BY <1>1, <1>4, <3>1, <3>2
    <3> QED
      BY SMT, <1>2, <3>3
  <2>5. CASE GoingBack
    <3>1. Started /\ NoBlocks(toConfirm) /\ ReorgOnItsWay(Height[WindowEnd])
          /\ confirmed_block_height > Height[WindowEnd]
      BY <1>1, <2>5 DEF GoingBack
    <3> QED
      BY <1>1, <2>1, <2>2, <3>1 DEF InStepNow, GoingBack
  <2> QED
    BY <2>2, <2>3, <2>4, <2>5 DEF InStepNow
<1>5. CASE ~(\/ Height[tip] = confirmed_block_height
             \/ BlockAt(tip, confirmed_block_height + 1) = confirmed_block_hash)
  <2>1. PICK b \in Block : b = BlockAt(tip, confirmed_block_height + 1)
    BY <1>1, <1>3, <1>5, BlockAtOnBranch
  <2>2. /\ Height[b] = confirmed_block_height + 1
        /\ toConfirm' = Send(toConfirm, BlockMsg(b)) /\ confirmed_block_hash' = b
    BY <1>1, <1>3, <1>5, <2>1, BlockAtOnBranch DEF handle_new_blocks, index_block
  <2>3. /\ Doomed => Doomed'
        /\ Started /\ NoBlocks(toConfirm) /\ Height[b] > Height[WindowEnd] + 1 => Doomed'
        /\ Quiet => Quiet'
        /\ SentUpTo(b)'
        /\ Fresh \/ (\E c : SentUpTo(c) /\ Height[b] = Height[c] + 1)
           => /\ InLine(toConfirm) => InLine(toConfirm')
              /\ FirstFits => FirstFits'
    BY <2>2, BlockSent
  <2>4. SentUpTo(confirmed_block_hash)'
    BY <2>2, <2>3 DEF SentUpTo
  <2>5. CASE Steady \/ GoneBack
    <3>1. Quiet /\ InLine(toConfirm) /\ FirstFits
      BY <2>5, NothingOnItsWay DEF Steady, GoneBack
    <3>2. Fresh \/ \E c : SentUpTo(c) /\ Height[b] = Height[c] + 1
      <4>1. CASE Steady
        BY <1>1, <2>2, <4>1 DEF Steady
      <4>2. CASE GoneBack
        <5>1. SentUpTo(WindowEnd) /\ Height[b] = Height[WindowEnd] + 1
          BY <2>2, <4>2 DEF GoneBack, SentUpTo
        <5> QED
          BY <5>1
      <4> QED
        BY <2>5, <4>1, <4>2
    <3>3. Quiet' /\ InLine(toConfirm') /\ FirstFits'
      BY <2>3, <3>1, <3>2
    <3> QED
      BY <1>1, <2>4, <3>3 DEF InStepNow, Steady
  <2>6. CASE GoingBack
    <3>1. Started /\ NoBlocks(toConfirm) /\ confirmed_block_height > Height[WindowEnd]
      BY <1>1, <2>6 DEF GoingBack
    <3>2. WindowEnd \in Block
      BY SMT, <3>1, WindowTyped DEF Started, WindowEnd
    <3>3. Height[b] > Height[WindowEnd] + 1
      BY SMT, <1>2, <2>2, <3>1, <3>2, TreeAssumption
    <3> QED
      BY <2>3, <3>1, <3>3 DEF InStepNow
  <2> QED
    BY <2>3, <2>5, <2>6 DEF InStepNow
<1> QED
  BY <1>4, <1>5

LEMMA InStepEvent ==
  ASSUME TypeInv, InStepNow, IndexerEvent, UNCHANGED <<tip, latest_blocks, toController>>
  PROVE  InStepNow'
<1>1. /\ phase = "run" /\ phase' = "poll" /\ toIndexer # <<>> /\ toIndexer' = Tail(toIndexer)
      /\ confirmed_block_height' = Head(toIndexer) /\ UNCHANGED toConfirm
  BY DEF IndexerEvent, handle_reorganization
<1>2. CASE Doomed
  BY <1>1, <1>2 DEF InStepNow, Doomed, Started, WindowEnd, Depth
<1>3. CASE GoingBack
  <2> DEFINE h == Height[WindowEnd]
  <2>1. /\ Started /\ NoBlocks(toConfirm) /\ confirmed_block_height > h
        /\ toIndexer = <<h>> /\ NoReorgs(toController)
    BY <1>1, <1>3 DEF GoingBack, ReorgOnItsWay
  <2>2. Head(toIndexer) = h /\ Tail(toIndexer) = <<>>
    <3> HIDE DEF h
    <3> QED
      BY SMT, <2>1
  <2>3. /\ confirmed_block_hash \in known /\ confirmed_block_height = Height[confirmed_block_hash]
        /\ \A c \in known : c \in Block /\ Height[c] <= Height[tip]
        /\ tip \in Block
    BY <1>1 DEF TypeInv, TypeOK, ChainInv
  <2>4. WindowEnd \in Block
    BY SMT, <2>1, WindowTyped DEF Started, WindowEnd
  <2>5. h < Height[tip]
    BY SMT, <2>1, <2>3, <2>4, TreeAssumption
  <2>6. Started' /\ WindowEnd' = WindowEnd /\ Quiet'
    BY <1>1, <2>1, <2>2 DEF Started, WindowEnd, Depth, Quiet
  <2> QED
    BY <1>1, <2>1, <2>2, <2>5, <2>6 DEF InStepNow, GoneBack
<1> QED
  BY <1>1, <1>2, <1>3 DEF InStepNow, Steady, GoneBack, Quiet

LEMMA InStepRestart ==
  ASSUME TypeInv, Restart
  PROVE  InStepNow'
<1>1. /\ latest_blocks' = <<>> /\ toController' = <<>> /\ toIndexer' = <<>> /\ phase' = "init"
  BY DEF Restart, RestartNode, IndexerRestarts
<1>2. GenesisFirst'
  BY RestartGenesisFirst
<1>3. NoBlocks(toConfirm')
  BY <1>1, <1>2 DEF GenesisFirst, NoBlockSent, NoBlocks, IsBlock
<1>4. Fresh' /\ FirstFits' /\ InLine(toConfirm')
  BY <1>1, <1>3 DEF Fresh, Started, FirstFits, InLine, NoBlocks
<1>5. Quiet'
  BY SMT, <1>1 DEF Quiet, NoReorgs
<1> QED
  BY <1>1, <1>4, <1>5 DEF InStepNow, Steady

(* So far the faults were crashes of the process and errors of the Bitcoin *)
(* RPC in the confirmator.                                                 *)
OnlyCrashesAndRpcErrors == FaultsOnly({"crash", "rpc"})

(* A fault of another kind would be on record after it.                    *)
LEMMA FaultsRecorded ==
  ASSUME TypeInv, [Next]_vars, OnlyCrashesAndRpcErrors'
  PROVE  /\ OnlyCrashesAndRpcErrors
         /\ ~Fault("retry") /\ ~Fault("load") /\ ~Fault("store")
<1>1. faults \in Seq(FaultKinds)
  BY DEF TypeInv, TypeOK
<1>2. ASSUME NEW kind, faults' = Append(faults, kind)
      PROVE  kind \in {"crash", "rpc"} /\ OnlyCrashesAndRpcErrors
  <2>1. /\ Len(faults') = Len(faults) + 1 /\ faults'[Len(faults) + 1] = kind
        /\ Len(faults) \in Nat /\ \A i \in 1..Len(faults) : faults'[i] = faults[i]
    BY SMT, <1>1, <1>2
  <2>2. /\ Len(faults) + 1 \in 1..Len(faults')
        /\ \A i \in 1..Len(faults) : i \in 1..Len(faults')
    BY SMT, <2>1
  <2> QED
    BY <2>1, <2>2 DEF OnlyCrashesAndRpcErrors, FaultsOnly
<1>3. faults' = faults \/ \E kind : faults' = Append(faults, kind)
  BY DEF Next, vars, ChainStep, Submit, CheckerAccepts, GraphBuilderAttaches, ControllerStep,
         ConfirmatorStep, CleanUp, IndexerStep, Restart, ConfirmatorFault, IndexerFault, Fault
<1>4. OnlyCrashesAndRpcErrors
  <2>1. CASE faults' = faults
    BY <2>1 DEF OnlyCrashesAndRpcErrors, FaultsOnly
  <2> QED
    BY <1>2, <1>3, <2>1
<1>5. ASSUME NEW kind \in {"retry", "load", "store"}
      PROVE  ~Fault(kind)
  BY <1>2 DEF Fault
<1> QED
  BY <1>4, <1>5

(* starting_block_hash names a block of the chain that the node finds when *)
(* it is started first.                                                    *)
StartExists == \A b \in FirstTip : starting_block_height <= Height[b]

InStepInv ==
  /\ TypeInv
  /\ OnlyCrashesAndRpcErrors =>
       WindowInv /\ starting_block_height <= Height[tip] /\ InStep

LEMMA InStepNext ==
  ASSUME confirmations_number > 1, InStepInv, [Next]_vars
  PROVE  InStepInv'
<1>0. TypeInv /\ TypeInv'
  BY TypeNext DEF InStepInv
<1> SUFFICES ASSUME OnlyCrashesAndRpcErrors'
             PROVE  (WindowInv /\ starting_block_height <= Height[tip] /\ InStep)'
  BY <1>0 DEF InStepInv
<1>2. /\ OnlyCrashesAndRpcErrors
      /\ ~Fault("retry") /\ ~Fault("load") /\ ~Fault("store")
  BY <1>0, FaultsRecorded
<1>1. TypeInv /\ WindowInv /\ starting_block_height <= Height[tip] /\ (~cancelled => InStepNow)
  BY <1>2 DEF InStepInv, InStep
<1>3. WindowInv'
  BY <1>1, <1>2, WindowInvNext
<1>4. starting_block_height <= Height[tip']
  <2>1. CASE ChainStep
    <3>1. PICK b \in Block : NewTip(b)
      BY <2>1 DEF ChainStep
    <3>2. Height[b] > Height[tip] /\ tip' = b
      BY <3>1 DEF NewTip
    <3>3. Height[tip] \in Nat /\ Height[b] \in Nat
      BY <1>1, TreeAssumption DEF TypeInv, TypeOK
    <3> QED
      BY SMT, <1>1, <3>2, <3>3, IndexerAssumption
  <2>2. CASE ~ChainStep
    <3>1. tip' = tip
      BY <2>2 DEF Next, vars, chainVars, Submit, CheckerAccepts, GraphBuilderAttaches,
         ControllerStep, ConfirmatorStep, CleanUp, IndexerStep, Restart, RestartNode,
         ConfirmatorFault, IndexerFault
    <3> QED
      BY <1>1, <3>1
  <2> QED
    BY <2>1, <2>2
<1>5. InStep'
  <2> SUFFICES ASSUME ~cancelled' PROVE InStepNow'
    BY DEF InStep
  <2>1. CASE Restart
    BY <1>1, <2>1, InStepRestart
  <2>2. CASE ~Restart
    <3>1. InStepNow
      <4>1. ~cancelled
        BY <1>1, <2>2, StopsForGood DEF vars
      <4> QED
        BY <1>1, <4>1
    <3>2. CASE UNCHANGED vars
      <4>1. UNCHANGED <<tip, toController, toConfirm, toIndexer, latest_blocks, indexerVars>>
        BY <3>2 DEF vars, chainVars, channels, confirmatorVars
      <4>2. SameBlocks(toConfirm, toConfirm') /\ SameReorgs(toController, toController')
        BY <4>1, SameBlocksFacts, SameReorgsFacts
      <4> QED
        BY <3>1, <4>1, <4>2, StaysInStep
    <3>3. CASE ChainStep
      BY <1>1, <3>1, <3>3, InStepChain
    <3>4. CASE (\E x \in Tx : Submit(x)) \/ CheckerAccepts \/ GraphBuilderAttaches
      BY <1>1, <3>1, <3>4, InStepServices
    <3>5. CASE ControllerStep
      BY <1>1, <3>1, <3>5, InStepController
    <3>6. CASE ConfirmatorStep
      <4>1. UNCHANGED <<tip, toIndexer, indexerVars>>
        BY <3>6 DEF ConfirmatorStep, chainVars
      <4>2. handle_new_block \/ \E t \in Txid : handle_tx_to_confirm(t)
        BY <3>6 DEF ConfirmatorStep
      <4> QED
        BY <1>1, <3>1, <4>1, <4>2, InStepNewBlock, InStepTxToConfirm
    <3>7. CASE CleanUp
      BY <1>1, <3>1, <3>7, InStepCleanUp
    <3>8. CASE IndexerStep
      <4>1. UNCHANGED <<tip, latest_blocks, toController>>
        BY <3>8 DEF IndexerStep, chainVars, confirmatorVars
      <4>2. CASE IndexerEvent
        BY <1>1, <3>1, <4>1, <4>2, InStepEvent
      <4>3. CASE ~IndexerEvent
        <5>1. UNCHANGED <<tip, latest_blocks, toController, toIndexer>>
          BY <3>8, <4>1, <4>3 DEF IndexerStep
        <5>2. InitStarts \/ init_blocks_handle \/ InitFinishes \/ handle_new_blocks
          BY <3>8, <4>3 DEF IndexerStep
        <5> QED
          BY <1>1, <3>1, <5>1, <5>2, InStepInit, InStepPoll
      <4> QED
        BY <4>2, <4>3
    <3>9. ~ConfirmatorFault
      BY DEF ConfirmatorFault, BranchLookupFails, TxLookupFails
    <3>10. ~IndexerFault
      BY <1>2 DEF IndexerFault
    <3> QED
      BY <2>2, <3>2, <3>3, <3>4, <3>5, <3>6, <3>7, <3>8, <3>9, <3>10 DEF Next
  <2> QED
    BY <2>1, <2>2
<1> QED
  BY <1>3, <1>4, <1>5

LEMMA WindowInvInit == Init => WindowInv
BY SMT, ConfirmationsAssumption
   DEF Init, ConfirmatorInit, ChannelsInit, IndexerInit, WindowInv, WindowIsBranch,
       WindowOnBranch, GenesisFirst, NoBlockSent

LEMMA InStepAtInit == StartExists /\ Init => InStepInv
<1> SUFFICES ASSUME StartExists, Init PROVE InStepInv
  OBVIOUS
<1>1. /\ latest_blocks = <<>> /\ toController = <<>> /\ toIndexer = <<>> /\ toConfirm = <<>>
      /\ phase = "init" /\ tip \in FirstTip
  BY DEF Init, ChainInit, ChannelsInit, ConfirmatorInit, IndexerInit
<1>2. Quiet /\ NoBlocks(toConfirm)
  BY SMT, <1>1 DEF Quiet, NoReorgs, NoBlocks
<1>3. Fresh /\ FirstFits /\ InLine(toConfirm)
  BY <1>1, <1>2, NothingOnItsWay DEF Fresh, Started
<1>4. InStep
  BY <1>1, <1>2, <1>3 DEF InStep, InStepNow, Steady
<1> QED
  BY <1>1, <1>4, TypeInit, WindowInvInit DEF InStepInv, StartExists

LEMMA InStepContinues == InStepInv => IndexerContinuesWindow
<1> SUFFICES ASSUME InStepInv, OnlyCrashesAndRpcErrors, ~cancelled, phase = "run",
                    toIndexer = <<>>,
                    \A i \in 1..Len(toConfirm) : toConfirm[i].type # "Block",
                    \A i \in 1..Len(toController) : toController[i].type # "Reorganization",
                    confirmed_block_hash # Genesis
             PROVE  latest_blocks # <<>> /\ latest_blocks[Depth] = confirmed_block_hash
  BY DEF IndexerContinuesWindow, OnlyCrashesAndRpcErrors
<1>1. NoBlocks(toConfirm) /\ NoReorgs(toController)
  BY DEF NoBlocks, NoReorgs, IsBlock, IsReorgMsg
<1>2. ~Doomed /\ ~LastBlock(toConfirm, confirmed_block_hash)
  BY <1>1 DEF Doomed, NoBlocks, FirstBlock, LastBlock
<1>3. ~GoneBack
  BY DEF GoneBack
<1>4. ~GoingBack
  <2> DEFINE h == Height[WindowEnd]
  <2>1. ~OneReorg(toController, h)
    BY <1>1 DEF NoReorgs, OneReorg
  <2>2. toIndexer # <<h>>
    <3> HIDE DEF h
    <3> QED
      OBVIOUS
  <2> QED
    BY <2>1, <2>2 DEF GoingBack, ReorgOnItsWay
<1>5. Steady
  BY <1>2, <1>3, <1>4 DEF InStepInv, InStep, InStepNow
<1> QED
  BY <1>2, <1>5 DEF Steady, SentUpTo, Started, WindowEnd

(* Whatever reorgs, crashes and lookups interleave with init and the       *)
(* polls: once init is over and neither a block nor a reorg is on its way, *)
(* the indexer stands exactly where the window of the confirmator ends.    *)
THEOREM IndexerKeepsStep ==
  ASSUME StartExists
  PROVE  Spec => []IndexerContinuesWindow
<1>1. CASE confirmations_number > 1
  <2>1. InStepInv /\ [Next]_vars => InStepInv'
    BY <1>1, InStepNext
  <2>2. Init => InStepInv
    BY InStepAtInit
  <2> QED
    BY <2>1, <2>2, InStepContinues, PTL DEF Spec
<1>2. CASE ~(confirmations_number > 1)
  <2>1. IndexerContinuesWindow
    BY <1>2 DEF IndexerContinuesWindow
  <2> QED
    BY <2>1, PTL
<1> QED
  BY <1>1, <1>2

=============================================================================
