------------------------- MODULE ConfirmationProofs -------------------------
(***************************************************************************)
(* Proofs about the confirmation pipeline, for every block tree, every set *)
(* of transactions and every number of confirmations and faults.           *)
(*                                                                         *)
(* TypeInv: types, that every height and block the services talk about has *)
(* been on the best chain, and that a mempool entry has its row.  It holds *)
(* under every fault.                                                      *)
(*                                                                         *)
(* Tracked: a transaction is in one message, or in the queue of the        *)
(* confirmator, or it is among those that have waited too long, and its    *)
(* mempool status names the part of the way it is on.  Handed: until the   *)
(* node stops, a transaction with an entry is somewhere.  Together they    *)
(* show that no entry is forgotten.                                        *)
(*                                                                         *)
(* Reported: what the messages, the window of the confirmator and a        *)
(* mempool status say about a transaction being mined goes together, so    *)
(* that an entry passes the full check only as Mined, unless a reorg has   *)
(* dropped its transaction.                                                *)
(*                                                                         *)
(* Tracked and Reported need that an id names one transaction.  A lemma    *)
(* about a step of the whole pipeline has a step for each action, and      *)
(* under it what only that proof needs.                                    *)
(***************************************************************************)
EXTENDS ConfirmationPipeline, WellFoundedInduction, TLAPS

(* Unless a leaf names another prover, Zenon is the one that checks it.     *)
USE Zenon

-----------------------------------------------------------------------------
(* The block tree.                                                         *)

(* The Bitcoin node finds a block at every height of a branch.             *)
LEMMA BlockAtOnBranch ==
  ASSUME NEW b \in Block, NEW h \in 0..Height[b]
  PROVE  BlockAt(b, h) \in Branch[b] /\ BlockAt(b, h) \in Block /\ Height[BlockAt(b, h)] = h
BY TreeAssumption, BranchAssumption DEF BlockAt

(* A block is on its own branch.                                           *)
LEMMA OnOwnBranch == \A b \in Block : b \in Branch[b]
BY SMT, TreeAssumption

-----------------------------------------------------------------------------
(* Every variable keeps its type.  What the code relies on without         *)
(* checking it: the heights the indexer asks for exist, and a mempool      *)
(* entry has its transaction.                                              *)

(* The messages that name heights and blocks that exist.                   *)
KnownControllerMsg ==
  {m \in ControllerMsg : m.type = "Reorganization" => m.height <= Height[tip]}

KnownConfirmMsg == {m \in ConfirmMsg : m.type = "Block" => m.block \in known}

(* The blocks that the services know of have been on the best chain, and   *)
(* no height they talk about is above its tip.                             *)
ChainInv ==
  /\ known \in SUBSET Block
  /\ tip \in known
  /\ \A b \in known : Branch[b] \subseteq known /\ Height[b] <= Height[tip]
  /\ phase = "load" => load_to <= Height[tip]
  /\ phase \in {"run", "poll"} =>
       confirmed_block_hash \in known /\ confirmed_block_height = Height[confirmed_block_hash]
  /\ indexer_state \in known \cup {NoBlock}
  /\ toIndexer \in Seq(0..Height[tip])
  /\ toController \in Seq(KnownControllerMsg)
  /\ toConfirm \in Seq(KnownConfirmMsg)
  /\ latest_blocks \in Seq(known)

(* A mempool entry has a row, and a row is that of its id.                 *)
RowInv ==
  \A t \in Txid :
    /\ mempool[t] # "None" => l1[t] # NoRow
    /\ l1[t] # NoRow => TxidOf[l1[t].tx] = t

TypeInv == TypeOK /\ ChainInv /\ RowInv

LEMMA TypeInit == Init => TypeInv
<1> SUFFICES ASSUME Init PROVE TypeInv
  OBVIOUS
<1> USE TreeAssumption, TxAssumption, FaultAssumption
      DEF Init, ChainInit, ChannelsInit, StorageInit, ConfirmatorInit, IndexerInit
<1>1. tip \in Block /\ known \in SUBSET Block /\ tip \in known
  BY OnOwnBranch
<1>2. \A b \in known : Branch[b] \subseteq known /\ Height[b] <= Height[tip]
  <2> SUFFICES ASSUME NEW b \in Branch[tip], NEW c \in Branch[b]
               PROVE  c \in Branch[tip] /\ Height[b] <= Height[tip]
    OBVIOUS
  <2> QED
    BY BranchAssumption, <1>1
<1>3. TypeOK
  <2>1. /\ toController \in Seq(ControllerMsg)
        /\ toChecker \in Seq(CheckerMsg)
        /\ toGraph \in Seq(GraphMsg)
        /\ toConfirm \in Seq(ConfirmMsg)
        /\ toIndexer \in Seq(Nat)
        /\ latest_blocks \in Seq(Block)
    BY SMT
  <2>2. l1 \in [Txid -> L1Row \cup {NoRow}] /\ mempool \in [Txid -> MempoolStatus]
    BY DEF MempoolStatus
  <2>3. phase \in {"init", "load", "run", "poll"}
    OBVIOUS
  <2>4. cancelled \in BOOLEAN
    OBVIOUS
  <2>5. faults \in Seq(FaultKinds)
    BY SMT
  <2> QED
    BY <1>1, <2>1, <2>2, <2>3, <2>4, <2>5 DEF TypeOK
<1>4. ChainInv
  BY SMT, <1>1, <1>2 DEF ChainInv
<1>5. RowInv
  BY DEF RowInv
<1> QED
  BY <1>3, <1>4, <1>5 DEF TypeInv

(* A channel of messages of one kind is a channel of any wider kind.       *)
LEMMA SeqMono ==
  ASSUME NEW S, NEW T, S \subseteq T, NEW s \in Seq(S)
  PROVE  s \in Seq(T)
BY SMT

LEMMA AppendTyped ==
  ASSUME NEW S, NEW s \in Seq(S), NEW e \in S
  PROVE  Append(s, e) \in Seq(S)
BY SMT

LEMMA HeadTailTyped ==
  ASSUME NEW S, NEW s \in Seq(S), s # <<>>
  PROVE  Head(s) \in S /\ Tail(s) \in Seq(S)
BY SMT

LEMMA SendTyped ==
  ASSUME NEW S, NEW s \in Seq(S), NEW e \in S
  PROVE  SendUnlessEmpty(s, e) \in Seq(S)
BY AppendTyped DEF SendUnlessEmpty, Send

(* A fault is put behind the ones before it.                               *)
LEMMA FaultTyped ==
  ASSUME faults \in Seq(FaultKinds)
  PROVE  \A kind : Fault(kind) => faults' \in Seq(FaultKinds)
BY AppendTyped DEF Fault

(* What a handler of the controller may do to the storage and the other    *)
(* channels.                                                               *)
HandlerTyped ==
  /\ l1' \in [Txid -> L1Row \cup {NoRow}]
  /\ mempool' \in [Txid -> MempoolStatus]
  /\ toChecker' \in Seq(CheckerMsg)
  /\ toGraph' \in Seq(GraphMsg)
  /\ toConfirm' \in Seq(KnownConfirmMsg)
  /\ toIndexer' \in Seq(0..Height[tip])
  /\ RowInv'

(* The stored transactions of a set of mempool entries are transactions.   *)
LEMMA StoredAreTxs == ASSUME TypeInv, NEW S, S \subseteq Txid
                      PROVE  StoredTxs(Entries(S)) \subseteq Tx
BY SMT, TxAssumption DEF TypeInv, TypeOK, RowInv, StoredTxs, Entries, L1Row

(* A set of naturals that is not empty has a least member.                 *)
LEMMA LeastNatural ==
  ASSUME NEW T \in SUBSET Nat, T # {}
  PROVE  \E x \in T : \A y \in T : x <= y
<1>1. PICK x \in T : \A y \in T : <<y, x>> \notin OpToRel(<, Nat)
  BY WFMin, NatLessThanWellFounded
<1>2. \A y \in T : ~(y < x)
  BY <1>1 DEF OpToRel
<1> QED
  BY SMT, <1>2

(* handle_reorg stops at the first block of the window that the new block  *)
(* descends from, if there is one.                                         *)
LEMMA OrphansAreFewest ==
  ASSUME TypeInv, NEW b \in Block, ForkIsKnown(b)
  PROVE  /\ OrphansOf(b) \in 0..(Depth - 1)
         /\ OrphansOf(b) < Height[b]
         /\ MeetsWindowAt(b, OrphansOf(b))
<1> DEFINE T == {j \in 0..Depth : MeetsWindowAt(b, j)}
<1>1. Depth \in Nat
  BY SMT DEF TypeInv, TypeOK, Depth
<1>2. T \in SUBSET Nat /\ T # {}
  BY SMT, <1>1 DEF ForkIsKnown
<1>3. PICK j \in T : \A i \in T : j <= i
  BY <1>2, LeastNatural
<1>4. j \in 0..Depth /\ MeetsWindowAt(b, j) /\ \A i \in 0..(j - 1) : ~MeetsWindowAt(b, i)
  BY SMT, <1>1, <1>3
<1>5. OrphansOf(b) \in 0..Depth /\ MeetsWindowAt(b, OrphansOf(b))
  BY <1>4 DEF OrphansOf
<1> QED
  BY SMT, <1>1, <1>5 DEF MeetsWindowAt

(* What a step of the confirmator may do.                                  *)
ConfirmatorTyped ==
  /\ queue' \in SUBSET Txid
  /\ latest_blocks' \in Seq(known)
  /\ toConfirm' \in Seq(KnownConfirmMsg)
  /\ toController' \in Seq(KnownControllerMsg)
  /\ cancelled' \in BOOLEAN

(* A prefix of the window is a window.                                     *)
LEMMA PrefixTyped ==
  ASSUME NEW S, NEW s \in Seq(S), NEW k \in 0..Len(s)
  PROVE  /\ SubSeq(s, 1, k) \in Seq(S)
         /\ Len(SubSeq(s, 1, k)) = k
         /\ \A i \in 1..k : SubSeq(s, 1, k)[i] = s[i]
BY SMT

-----------------------------------------------------------------------------
(* What a step of the indexer may do.                                      *)
IndexerTyped ==
  /\ phase' \in {"init", "load", "run", "poll"}
  /\ confirmed_block_height' \in Nat
  /\ confirmed_block_hash' \in Block \cup {NoBlock}
  /\ indexer_last_block_height' \in Nat
  /\ load_to' \in Nat
  /\ phase' = "load" => load_to' <= Height[tip]
  /\ phase' \in {"run", "poll"} =>
       confirmed_block_hash' \in known /\ confirmed_block_height' = Height[confirmed_block_hash']
  /\ indexer_state' \in known \cup {NoBlock}
  /\ toConfirm' \in Seq(KnownConfirmMsg)

(* The block at a height of the best chain can be sent.                    *)
LEMMA TipBlock ==
  ASSUME TypeInv, NEW h \in 0..Height[tip]
  PROVE  /\ BlockAt(tip, h) \in known /\ Height[BlockAt(tip, h)] = h
         /\ Send(toConfirm, BlockMsg(BlockAt(tip, h))) \in Seq(KnownConfirmMsg)
<1>1. /\ BlockAt(tip, h) \in known /\ BlockAt(tip, h) \in Block /\ Height[BlockAt(tip, h)] = h
  BY BlockAtOnBranch DEF TypeInv, TypeOK, ChainInv
<1>2. BlockMsg(BlockAt(tip, h)) \in KnownConfirmMsg
  BY <1>1 DEF BlockMsg, KnownConfirmMsg, ConfirmMsg
<1>3. toConfirm \in Seq(KnownConfirmMsg)
  BY DEF TypeInv, ChainInv
<1> QED
  BY <1>1, <1>2, <1>3, AppendTyped DEF Send

LEMMA TypeNext == TypeInv /\ [Next]_vars => TypeInv'

(* Only the genesis block has height 0.                                    *)
<1>GenesisHeight. \A b \in Block : Height[b] = 0 => b = Genesis
  BY SMT, TreeAssumption

<1>TypeChainStep. TypeInv /\ ChainStep => TypeInv'
  <2> SUFFICES ASSUME TypeInv, ChainStep PROVE TypeInv'
    OBVIOUS
  <2>1. PICK b \in Block : NewTip(b)
    BY DEF ChainStep
  <2> USE TreeAssumption
  <2>2. /\ tip \in Block /\ known \in SUBSET Block /\ Height[tip] < Height[b]
        /\ tip' = b /\ known' = known \cup Branch[b]
    BY <2>1 DEF NewTip, TypeInv, TypeOK
  <2>3. TypeOK'
    BY <2>2 DEF TypeInv, TypeOK, ChainStep, channels, storage, confirmatorVars, indexerVars
  <2>4. ChainInv'
    <3>1. known' \in SUBSET Block /\ tip' \in known'
      BY <2>2, OnOwnBranch
    <3>2. \A c \in known' : Branch[c] \subseteq known' /\ Height[c] <= Height[tip']
      BY SMT, <2>2, BranchAssumption DEF TypeInv, ChainInv
    <3>3. toIndexer' \in Seq(0..Height[tip'])
      <4>1. 0..Height[tip] \subseteq 0..Height[tip']
        BY SMT, <2>2
      <4> QED
        BY <4>1, SeqMono DEF TypeInv, ChainInv, ChainStep, channels
    <3>4. toController' \in Seq(KnownControllerMsg')
      <4>1. KnownControllerMsg \subseteq KnownControllerMsg'
        BY SMT, <2>2 DEF KnownControllerMsg, ControllerMsg
      <4> QED
        BY <4>1, SeqMono DEF TypeInv, ChainInv, ChainStep, channels
    <3>5. toConfirm' \in Seq(KnownConfirmMsg')
      <4>1. KnownConfirmMsg \subseteq KnownConfirmMsg'
        BY <2>2 DEF KnownConfirmMsg
      <4> QED
        BY <4>1, SeqMono DEF TypeInv, ChainInv, ChainStep, channels
    <3>6. latest_blocks' \in Seq(known')
      BY <2>2, SeqMono DEF TypeInv, ChainInv, ChainStep, confirmatorVars
    <3>7. phase' = "load" => load_to' <= Height[tip']
      BY SMT, <2>2 DEF TypeInv, TypeOK, ChainInv, ChainStep, indexerVars
    <3> QED
      BY <2>2, <3>1, <3>2, <3>3, <3>4, <3>5, <3>6, <3>7
         DEF TypeInv, ChainInv, ChainStep, indexerVars
  <2>5. RowInv'
    BY DEF TypeInv, RowInv, ChainStep, storage
  <2> QED
    BY <2>3, <2>4, <2>5 DEF TypeInv

(* The environment's other steps put one message into toController.        *)
<1>TypeSubmit. ASSUME TypeInv, NEW x \in Tx, Submit(x) PROVE TypeInv'
  <2> USE <1>TypeSubmit
  <2>1. InitializeTxs({x}) \in KnownControllerMsg
    BY DEF InitializeTxs, KnownControllerMsg, ControllerMsg
  <2>2. TypeOK'
    BY SMT, <2>1 DEF TypeInv, TypeOK, Submit, Send, KnownControllerMsg, chainVars, storage,
                confirmatorVars, indexerVars
  <2>3. ChainInv'
    BY SMT, <2>1 DEF TypeInv, ChainInv, Submit, Send, KnownControllerMsg, KnownConfirmMsg,
                chainVars, confirmatorVars, indexerVars
  <2>4. RowInv'
    BY DEF TypeInv, RowInv, Submit, storage
  <2> QED
    BY <2>2, <2>3, <2>4 DEF TypeInv

<1>TypeCheckerAccepts. TypeInv /\ CheckerAccepts => TypeInv'
  <2> SUFFICES ASSUME TypeInv, CheckerAccepts PROVE TypeInv'
    OBVIOUS
  <2>1. Head(toChecker) \in CheckerMsg /\ Tail(toChecker) \in Seq(CheckerMsg)
    BY SMT DEF TypeInv, TypeOK, CheckerAccepts
  <2>2. toController' \in Seq(KnownControllerMsg) /\ toController' \in Seq(ControllerMsg)
    <3>1. FullyCheckedTxs(Head(toChecker).txs) \in KnownControllerMsg
      BY <2>1 DEF CheckerMsg, FullyCheckedTxs, KnownControllerMsg, ControllerMsg
    <3>2. PartiallyCheckedTxs(Ids(Head(toChecker).txs)) \in KnownControllerMsg
      BY SMT, <2>1, TxAssumption
         DEF CheckerMsg, PartiallyCheckedTxs, Ids, KnownControllerMsg, ControllerMsg
    <3> QED
      BY SMT, <3>1, <3>2 DEF TypeInv, TypeOK, ChainInv, CheckerAccepts, SendUnlessEmpty, Send,
                        KnownControllerMsg
  <2>3. TypeOK'
    BY <2>1, <2>2 DEF TypeInv, TypeOK, CheckerAccepts, chainVars, storage,
                      confirmatorVars, indexerVars
  <2>4. ChainInv'
    BY <2>2 DEF TypeInv, ChainInv, CheckerAccepts, KnownControllerMsg, KnownConfirmMsg,
                chainVars, confirmatorVars, indexerVars
  <2>5. RowInv'
    BY DEF TypeInv, RowInv, CheckerAccepts, storage
  <2> QED
    BY <2>3, <2>4, <2>5 DEF TypeInv

<1>TypeGraphBuilderAttaches. TypeInv /\ GraphBuilderAttaches => TypeInv'
  <2> SUFFICES ASSUME TypeInv, GraphBuilderAttaches PROVE TypeInv'
    OBVIOUS
  <2>1. Head(toGraph) \in GraphMsg /\ Tail(toGraph) \in Seq(GraphMsg)
    BY SMT DEF TypeInv, TypeOK, GraphBuilderAttaches
  <2>2. toController' \in Seq(KnownControllerMsg) /\ toController' \in Seq(ControllerMsg)
    <3>1. AttachedTxs(Ids(Head(toGraph).txs)) \in KnownControllerMsg
      BY SMT, <2>1, TxAssumption DEF GraphMsg, AttachedTxs, Ids, KnownControllerMsg, ControllerMsg
    <3> QED
      BY SMT, <3>1 DEF TypeInv, TypeOK, ChainInv, GraphBuilderAttaches, Send, KnownControllerMsg
  <2>3. TypeOK'
    BY <2>1, <2>2 DEF TypeInv, TypeOK, GraphBuilderAttaches, chainVars, storage,
                      confirmatorVars, indexerVars
  <2>4. ChainInv'
    BY <2>2 DEF TypeInv, ChainInv, GraphBuilderAttaches, KnownControllerMsg,
                KnownConfirmMsg, chainVars, confirmatorVars, indexerVars
  <2>5. RowInv'
    BY DEF TypeInv, RowInv, GraphBuilderAttaches, storage
  <2> QED
    BY <2>3, <2>4, <2>5 DEF TypeInv

(* Updating entries that are there keeps entries and rows together.        *)
<1>SetKeepsRows.
  ASSUME TypeInv, NEW S, S \subseteq Txid, NEW s \in MempoolStatus,
         Entries(S) = S \/ s = "None", mempool' = MempoolSet(S, s), UNCHANGED l1
  PROVE  mempool' \in [Txid -> MempoolStatus] /\ RowInv'
  BY <1>SetKeepsRows DEF TypeInv, TypeOK, RowInv, MempoolSet, Entries

<1>MissingKeepsRows.
  ASSUME TypeInv, NEW S, S \subseteq Txid, NEW s \in MempoolStatus, MissingEntry(S, s)
  PROVE  l1' = l1 /\ mempool' \in [Txid -> MempoolStatus] /\ RowInv'
  <2> USE <1>MissingKeepsRows
  <2>1. PICK done \in SUBSET Entries(S) : mempool' = MempoolSet(done, s)
    BY DEF MissingEntry
  <2>2. Entries(done) = done /\ done \subseteq Txid
    BY DEF Entries
  <2> QED
    BY <2>1, <2>2, <1>SetKeepsRows DEF MissingEntry

<1>TypeControllerEvent. ASSUME TypeInv, ControllerEvent PROVE HandlerTyped
  <2> USE <1>TypeControllerEvent
  <2> DEFINE m == Head(toController)
  <2>1. m \in KnownControllerMsg
    BY SMT DEF TypeInv, ChainInv, ControllerEvent
  <2>2. m \in ControllerMsg
    BY <2>1 DEF KnownControllerMsg
  <2>3. /\ toConfirm \in Seq(KnownConfirmMsg) /\ toIndexer \in Seq(0..Height[tip])
        /\ toChecker \in Seq(CheckerMsg) /\ toGraph \in Seq(GraphMsg)
        /\ l1 \in [Txid -> L1Row \cup {NoRow}] /\ mempool \in [Txid -> MempoolStatus]
        /\ RowInv
    BY DEF TypeInv, TypeOK, ChainInv
  <2>4. CASE m.type = "InitializeTxs"
    <3> DEFINE new == {x \in m.txs : IsNew(x)}
    <3>1. m.txs \subseteq Tx
      BY <2>2, <2>4 DEF ControllerMsg
    <3>2. handle_new_lrc20_txs(m.txs)
      BY <2>4 DEF ControllerEvent
    <3>3. l1' = Inserted(new) /\ mempool' = MempoolPut(Ids(new))
      BY <3>2 DEF handle_new_lrc20_txs
    <3>4. l1' \in [Txid -> L1Row \cup {NoRow}] /\ mempool' \in [Txid -> MempoolStatus]
      BY <2>3, <3>1, <3>3, TxAssumption DEF Inserted, MempoolPut, L1Row, L1TxStatus, MempoolStatus
    <3>5. RowInv'
      <4> SUFFICES ASSUME NEW t \in Txid
                   PROVE  /\ mempool'[t] # "None" => l1'[t] # NoRow
                          /\ l1'[t] # NoRow => TxidOf[l1'[t].tx] = t
        BY DEF RowInv
      <4>1. CASE \E x \in new : TxidOf[x] = t
        <5>1. PICK y \in new : TxidOf[y] = t /\ l1'[t] = [tx |-> y, status |-> "Handling"]
          BY <3>3, <4>1 DEF Inserted
        <5>2. l1'[t] # NoRow
          BY SMT, <5>1, <3>1, TxAssumption DEF L1Row, L1TxStatus
        <5> QED
          BY SMT, <5>1, <5>2
      <4>2. CASE ~\E x \in new : TxidOf[x] = t
        <5>1. l1'[t] = l1[t]
          BY <3>3, <4>2 DEF Inserted
        <5>2. mempool'[t] = mempool[t]
          BY <3>3, <4>2 DEF MempoolPut, Ids
        <5> QED
          BY <2>3, <5>1, <5>2 DEF RowInv
      <4> QED
        BY <4>1, <4>2
    <3>6. toChecker' \in Seq(CheckerMsg)
      <4>1. IsolatedCheck(new) \in CheckerMsg
        BY <3>1 DEF IsolatedCheck, CheckerMsg
      <4> QED
        BY SMT, <2>3, <3>2, <4>1 DEF handle_new_lrc20_txs, SendUnlessEmpty, Send
    <3> QED
      BY <2>3, <3>2, <3>4, <3>5, <3>6 DEF HandlerTyped, handle_new_lrc20_txs
  <2>5. CASE m.type = "PartiallyCheckedTxs"
    <3>1. m.txs \subseteq Txid
      BY <2>2, <2>5 DEF ControllerMsg
    <3>2. handle_partially_checked_txs(m.txs)
      BY <2>5 DEF ControllerEvent
    <3>3. l1' = l1 /\ mempool' \in [Txid -> MempoolStatus] /\ RowInv'
      BY <3>1, <3>2, <1>SetKeepsRows, <1>MissingKeepsRows DEF handle_partially_checked_txs, MempoolStatus
    <3>4. toConfirm' \in Seq(KnownConfirmMsg)
      <4>1. Txs(m.txs) \in KnownConfirmMsg
        BY <3>1 DEF Txs, KnownConfirmMsg, ConfirmMsg
      <4>2. toConfirm' = Append(toConfirm, Txs(m.txs)) \/ toConfirm' = toConfirm
        BY <3>2 DEF handle_partially_checked_txs, Send
      <4>3. Append(toConfirm, Txs(m.txs)) \in Seq(KnownConfirmMsg)
        BY <2>3, <4>1, AppendTyped
      <4> QED
        BY <2>3, <4>2, <4>3
    <3> QED
      BY <2>3, <3>2, <3>3, <3>4 DEF HandlerTyped, handle_partially_checked_txs
  <2>6. CASE m.type = "FullyCheckedTxs"
    <3>1. m.txs \subseteq Tx
      BY <2>2, <2>6 DEF ControllerMsg
    <3>2. handle_fully_checked_txs(m.txs)
      BY <2>6 DEF ControllerEvent
    <3> DEFINE announcements == {x \in m.txs : IsAnnouncement(x)}
               others        == m.txs \ announcements
    <3>3. Ids(others) \subseteq Txid /\ Ids(announcements) \subseteq Txid
      BY <3>1, TxAssumption DEF Ids
    <3>4. CASE /\ Entries(Ids(others)) = Ids(others)
               /\ mempool' = [t \in Txid |-> IF t \in Ids(announcements) THEN "None"
                                             ELSE IF t \in Ids(others) THEN "Attaching"
                                             ELSE mempool[t]]
               /\ l1' = WithStatus(Ids(announcements), "Attached")
               /\ toGraph' = SendUnlessEmpty(toGraph, CheckedTxs(others))
      <4>1. l1' \in [Txid -> L1Row \cup {NoRow}] /\ mempool' \in [Txid -> MempoolStatus]
        BY <2>3, <3>4 DEF WithStatus, L1Row, L1TxStatus, MempoolStatus
      <4>2. RowInv'
        BY SMT, <2>3, <3>4, TxAssumption DEF RowInv, WithStatus, Entries, L1Row, L1TxStatus
      <4>3. toGraph' \in Seq(GraphMsg)
        <5>1. CheckedTxs(others) \in GraphMsg
          BY <3>1 DEF CheckedTxs, GraphMsg
        <5> QED
          BY SMT, <2>3, <3>4, <5>1 DEF SendUnlessEmpty, Send
      <4> QED
        BY <2>3, <3>2, <4>1, <4>2, <4>3 DEF HandlerTyped, handle_fully_checked_txs
    <3>5. CASE MissingEntry(Ids(others), "Attaching") /\ UNCHANGED toGraph
      <4>1. l1' = l1 /\ mempool' \in [Txid -> MempoolStatus] /\ RowInv'
        BY <3>3, <3>5, <1>MissingKeepsRows DEF MempoolStatus
      <4> QED
        BY <2>3, <3>2, <3>5, <4>1 DEF HandlerTyped, handle_fully_checked_txs
    <3> QED
      BY <3>2, <3>4, <3>5 DEF handle_fully_checked_txs
  <2>7. CASE m.type = "MinedTxs"
    <3>1. m.txs \subseteq Txid
      BY <2>2, <2>7 DEF ControllerMsg
    <3>2. handle_mined_txs(m.txs)
      BY <2>7 DEF ControllerEvent
    <3>3. l1' = l1 /\ mempool' \in [Txid -> MempoolStatus] /\ RowInv'
      BY <3>1, <3>2, <1>SetKeepsRows, <1>MissingKeepsRows DEF handle_mined_txs, MempoolStatus
    <3> QED
      BY <2>3, <3>2, <3>3 DEF HandlerTyped, handle_mined_txs
  <2>8. CASE m.type = "ConfirmedTxs"
    <3>1. m.txs \subseteq Txid
      BY <2>2, <2>8 DEF ControllerMsg
    <3>2. handle_confirmed_txs(m.txs)
      BY <2>8 DEF ControllerEvent
    <3>3. toChecker' \in Seq(CheckerMsg)
      BY SMT, <2>3, <3>1, <3>2, StoredAreTxs DEF handle_confirmed_txs, Send, FullCheck, CheckerMsg
    <3>4. RowInv'
      BY <2>3, <3>2 DEF handle_confirmed_txs, RowInv
    <3> QED
      BY <2>3, <3>2, <3>3, <3>4 DEF HandlerTyped, handle_confirmed_txs
  <2>9. CASE m.type = "Reorganization"
    <3>1. m.txs \subseteq Txid /\ m.height \in 0..Height[tip]
      BY SMT, <2>1, <2>9, TreeAssumption DEF KnownControllerMsg, ControllerMsg, TypeInv, TypeOK
    <3>2. handle_reorganization_txs(m.txs, m.height)
      BY <2>9 DEF ControllerEvent
    <3>3. l1' = l1 /\ mempool' \in [Txid -> MempoolStatus] /\ RowInv'
      BY <3>1, <3>2, <1>SetKeepsRows, <1>MissingKeepsRows DEF handle_reorganization_txs, MempoolStatus
    <3>4. toConfirm' \in Seq(KnownConfirmMsg)
      <4>1. Txs(m.txs) \in KnownConfirmMsg
        BY <3>1 DEF Txs, KnownConfirmMsg, ConfirmMsg
      <4>2. toConfirm' = Append(toConfirm, Txs(m.txs)) \/ toConfirm' = toConfirm
        BY <3>2 DEF handle_reorganization_txs, SendUnlessEmpty, Send
      <4>3. Append(toConfirm, Txs(m.txs)) \in Seq(KnownConfirmMsg)
        BY <2>3, <4>1, AppendTyped
      <4> QED
        BY <2>3, <4>2, <4>3
    <3>5. toIndexer' \in Seq(0..Height[tip])
      BY SMT, <2>3, <3>1, <3>2 DEF handle_reorganization_txs, Send
    <3> QED
      BY <2>3, <3>2, <3>3, <3>4, <3>5 DEF HandlerTyped, handle_reorganization_txs
  <2>10. CASE m.type = "AttachedTxs"
    <3>1. m.txs \subseteq Txid
      BY <2>2, <2>10 DEF ControllerMsg
    <3>2. handle_attached_txs(m.txs)
      BY <2>10 DEF ControllerEvent
    <3>3. l1' \in [Txid -> L1Row \cup {NoRow}] /\ mempool' \in [Txid -> MempoolStatus]
      BY <2>3, <3>2 DEF handle_attached_txs, WithStatus, MempoolDelete, MempoolSet, L1Row,
                        L1TxStatus, MempoolStatus
    <3>4. RowInv'
      BY SMT, <2>3, <3>2, TxAssumption
         DEF handle_attached_txs, WithStatus, MempoolDelete, MempoolSet, RowInv, L1Row, L1TxStatus
    <3> QED
      BY <2>3, <3>2, <3>3, <3>4 DEF HandlerTyped, handle_attached_txs
  <2> QED
    BY <2>2, <2>4, <2>5, <2>6, <2>7, <2>8, <2>9, <2>10 DEF ControllerMsg

<1>TypeControllerStep. TypeInv /\ ControllerStep => TypeInv'
  <2> SUFFICES ASSUME TypeInv, ControllerStep PROVE TypeInv'
    OBVIOUS
  <2>1. HandlerTyped
    BY <1>TypeControllerEvent DEF ControllerStep
  <2>2. toController' \in Seq(KnownControllerMsg) /\ toController' \in Seq(ControllerMsg)
    BY SMT DEF TypeInv, TypeOK, ChainInv, ControllerStep, ControllerEvent
  <2>3. toConfirm' \in Seq(ConfirmMsg)
    BY <2>1, SeqMono DEF HandlerTyped, KnownConfirmMsg
  <2>4. toIndexer' \in Seq(Nat)
    BY SMT, <2>1, SeqMono, TreeAssumption DEF HandlerTyped, TypeInv, TypeOK
  <2>5. TypeOK'
    BY <2>1, <2>2, <2>3, <2>4
       DEF HandlerTyped, TypeInv, TypeOK, ControllerStep, chainVars, confirmatorVars, indexerVars
  <2>6. ChainInv'
    BY <2>1, <2>2 DEF HandlerTyped, TypeInv, ChainInv, ControllerStep, KnownControllerMsg,
                      KnownConfirmMsg, chainVars, confirmatorVars, indexerVars
  <2> QED
    BY <2>1, <2>5, <2>6 DEF HandlerTyped, TypeInv

<1>TypeHandleReorg.
  ASSUME TypeInv, NEW b \in known, handle_reorg(b)
  PROVE  /\ queue' \in SUBSET Txid
         /\ latest_blocks' \in Seq(known)
         /\ toController' \in Seq(KnownControllerMsg)
         /\ cancelled' \in BOOLEAN
  <2> USE <1>TypeHandleReorg
  <2>1. /\ b \in Block /\ Height[b] \in Nat /\ Height[b] <= Height[tip] /\ Height[tip] \in Nat
        /\ latest_blocks \in Seq(known) /\ Depth = Len(latest_blocks) /\ Depth \in Nat
        /\ queue \in SUBSET Txid /\ cancelled \in BOOLEAN
        /\ toController \in Seq(KnownControllerMsg)
    BY SMT, TreeAssumption DEF TypeInv, TypeOK, ChainInv, Depth
  <2>2. CASE ForkIsKnown(b)
    <3>1. OrphansOf(b) \in 0..(Depth - 1) /\ OrphansOf(b) < Height[b]
      BY <2>1, <2>2, OrphansAreFewest
    <3>2. Depth - OrphansOf(b) \in 0..Len(latest_blocks)
      BY SMT, <2>1, <3>1
    <3>3. WindowPrefix(Depth - OrphansOf(b)) \in Seq(known)
      BY <2>1, <3>2, PrefixTyped DEF WindowPrefix
    <3>4. Reorganization(OrphanTxs(b), Height[b] - 1 - OrphansOf(b)) \in KnownControllerMsg
      <4>1. OrphanTxs(b) \in SUBSET Txid
        BY <2>1 DEF OrphanTxs, extract_waiting_txs_from_block
      <4>2. Height[b] - 1 - OrphansOf(b) \in Nat /\ Height[b] - 1 - OrphansOf(b) <= Height[tip]
        BY SMT, <2>1, <3>1
      <4> QED
        BY <4>1, <4>2 DEF Reorganization, KnownControllerMsg, ControllerMsg
    <3>5. Send(toController, Reorganization(OrphanTxs(b), Height[b] - 1 - OrphansOf(b)))
            \in Seq(KnownControllerMsg)
      BY <2>1, <3>4, AppendTyped DEF Send
    <3> QED
      BY <2>1, <2>2, <3>3, <3>5 DEF handle_reorg
  <2>3. CASE ~ForkIsKnown(b)
    <3>1. <<>> \in Seq(known)
      BY SMT
    <3>2. Depth > Height[b] => WindowPrefix(Depth - Height[b] - 1) \in Seq(known)
      BY SMT, <2>1, PrefixTyped DEF WindowPrefix
    <3>3. /\ latest_blocks' = IF Depth <= Height[b] THEN <<>>
                                ELSE WindowPrefix(Depth - Height[b] - 1)
          /\ cancelled' = TRUE /\ queue' = queue /\ toController' = toController
      BY <2>3 DEF handle_reorg
    <3>4. latest_blocks' \in Seq(known)
      BY SMT, <2>1, <3>1, <3>2, <3>3
    <3> QED
      BY <2>1, <3>3, <3>4
  <2> QED
    BY <2>2, <2>3

<1>TypeExtendWindow.
  ASSUME TypeInv, NEW b \in known, ExtendWindow(b)
  PROVE  /\ queue' \in SUBSET Txid
         /\ latest_blocks' \in Seq(known)
         /\ toController' \in Seq(KnownControllerMsg)
         /\ cancelled' \in BOOLEAN
  <2> USE <1>TypeExtendWindow
  <2> DEFINE window == Append(latest_blocks, b)
             full   == Len(window) = confirmations_number
             mined  == extract_waiting_txs_from_block(b)
             conf   == IF full THEN extract_waiting_txs_from_block(Head(window)) ELSE {}
  <2>1. /\ b \in Block /\ latest_blocks \in Seq(known) /\ queue \in SUBSET Txid
        /\ cancelled \in BOOLEAN /\ toController \in Seq(KnownControllerMsg)
    BY DEF TypeInv, TypeOK, ChainInv
  <2>2. window \in Seq(known) /\ window # <<>> /\ Tail(window) \in Seq(known)
    BY SMT, <2>1
  <2>3. mined \in SUBSET Txid /\ conf \in SUBSET Txid
    BY <2>1 DEF extract_waiting_txs_from_block
  <2>4. MinedTxs(mined) \in KnownControllerMsg /\ ConfirmedTxs(conf) \in KnownControllerMsg
    BY <2>3 DEF MinedTxs, ConfirmedTxs, KnownControllerMsg, ControllerMsg
  <2>5. SendUnlessEmpty(toController, MinedTxs(mined)) \in Seq(KnownControllerMsg)
    BY <2>1, <2>4, AppendTyped DEF SendUnlessEmpty, Send
  <2>6. SendUnlessEmpty(SendUnlessEmpty(toController, MinedTxs(mined)), ConfirmedTxs(conf))
          \in Seq(KnownControllerMsg)
    BY <2>4, <2>5, AppendTyped DEF SendUnlessEmpty, Send
  <2>7. /\ latest_blocks' = IF full THEN Tail(window) ELSE window
        /\ queue' = queue \ conf
        /\ toController' =
             SendUnlessEmpty(SendUnlessEmpty(toController, MinedTxs(mined)), ConfirmedTxs(conf))
        /\ cancelled' = cancelled
    BY DEF ExtendWindow
  <2> QED
    BY <2>1, <2>2, <2>6, <2>7

(* What is left of a message Txs is one.                                   *)
<1>WithoutTxTyped.
  ASSUME TypeInv, Next1(toConfirm, "Txs"), NEW t
  PROVE  WithoutTx(t) \in Seq(KnownConfirmMsg) /\ Tail(toConfirm) \in Seq(KnownConfirmMsg)
  <2> USE <1>WithoutTxTyped
  <2>1. Head(toConfirm) \in KnownConfirmMsg /\ Tail(toConfirm) \in Seq(KnownConfirmMsg)
    BY SMT DEF TypeInv, ChainInv, Next1
  <2>2. Txs(Head(toConfirm).txs \ {t}) \in KnownConfirmMsg
    BY <2>1 DEF Next1, KnownConfirmMsg, ConfirmMsg, Txs
  <2>3. <<Txs(Head(toConfirm).txs \ {t})>> \o Tail(toConfirm) \in Seq(KnownConfirmMsg)
    BY SMT, <2>1, <2>2
  <2> QED
    BY <2>1, <2>3 DEF WithoutTx

<1>TypeTxToConfirm.
  ASSUME TypeInv, NEW t \in Txid, handle_tx_to_confirm(t) \/ TxLookupFails(t)
  PROVE  ConfirmatorTyped
  <2> USE <1>TypeTxToConfirm
  <2>1. /\ latest_blocks \in Seq(known) /\ queue \in SUBSET Txid
        /\ cancelled \in BOOLEAN /\ toController \in Seq(KnownControllerMsg)
    BY DEF TypeInv, TypeOK, ChainInv
  <2>2. toConfirm' \in Seq(KnownConfirmMsg)
    BY <1>WithoutTxTyped DEF handle_tx_to_confirm, TxLookupFails
  <2>3. CASE TxLookupFails(t)
    BY <2>1, <2>2, <2>3 DEF TxLookupFails, ConfirmatorTyped
  <2>4. CASE handle_tx_to_confirm(t)
    <3>1. MinedTxs({t}) \in KnownControllerMsg /\ ConfirmedTxs({t}) \in KnownControllerMsg
      BY DEF MinedTxs, ConfirmedTxs, KnownControllerMsg, ControllerMsg
    <3>2. Send(toController, MinedTxs({t})) \in Seq(KnownControllerMsg)
      BY <2>1, <3>1, AppendTyped DEF Send
    <3>3. Send(Send(toController, MinedTxs({t})), ConfirmedTxs({t})) \in Seq(KnownControllerMsg)
      BY <3>1, <3>2, AppendTyped DEF Send
    <3>4. toController' \in Seq(KnownControllerMsg) /\ queue' \in SUBSET Txid
      BY <2>1, <2>4, <3>2, <3>3 DEF handle_tx_to_confirm
    <3> QED
      BY <2>1, <2>2, <2>4, <3>4 DEF handle_tx_to_confirm, ConfirmatorTyped
  <2> QED
    BY <2>3, <2>4

<1>TypeNewBlock.
  ASSUME TypeInv, handle_new_block \/ BranchLookupFails
  PROVE  ConfirmatorTyped
  <2> USE <1>TypeNewBlock
  <2> DEFINE b == Head(toConfirm).block
  <2>1. /\ latest_blocks \in Seq(known) /\ queue \in SUBSET Txid
        /\ cancelled \in BOOLEAN /\ toController \in Seq(KnownControllerMsg)
    BY DEF TypeInv, TypeOK, ChainInv
  <2>2. Head(toConfirm) \in KnownConfirmMsg /\ Tail(toConfirm) \in Seq(KnownConfirmMsg)
    BY HeadTailTyped DEF TypeInv, ChainInv, Next1, handle_new_block, BranchLookupFails
  <2>3. b \in known
    BY <2>2 DEF KnownConfirmMsg, Next1, handle_new_block, BranchLookupFails
  <2>4. CASE handle_new_block
    <3>1. CASE IsReorg(b)
      <4>1. handle_reorg(b) /\ toConfirm' = Tail(toConfirm)
        BY <2>4, <3>1 DEF handle_new_block
      <4> QED
        BY <2>2, <2>3, <4>1, <1>TypeHandleReorg DEF ConfirmatorTyped
    <3>2. CASE ~IsReorg(b)
      <4>1. ExtendWindow(b) /\ toConfirm' = Tail(toConfirm)
        BY <2>4, <3>2 DEF handle_new_block
      <4> QED
        BY <2>2, <2>3, <4>1, <1>TypeExtendWindow DEF ConfirmatorTyped
    <3> QED
      BY <3>1, <3>2
  <2>5. CASE BranchLookupFails
    <3>1. PICK k \in 0..(Depth - 1) : latest_blocks' = WindowPrefix(k)
      BY <2>5 DEF BranchLookupFails
    <3>2. latest_blocks' \in Seq(known)
      BY SMT, <2>1, <3>1, PrefixTyped DEF WindowPrefix, Depth
    <3> QED
      BY <2>1, <2>2, <2>5, <3>2 DEF BranchLookupFails, ConfirmatorTyped
  <2> QED
    BY <2>4, <2>5

<1>TypeConfirmator.
  TypeInv /\ (ConfirmatorStep \/ CleanUp \/ ConfirmatorFault) => TypeInv'
  <2> SUFFICES ASSUME TypeInv, ConfirmatorStep \/ CleanUp \/ ConfirmatorFault PROVE TypeInv'
    OBVIOUS
  <2>1. /\ UNCHANGED <<chainVars, toChecker, toGraph, toIndexer, storage, indexerVars>>
        /\ faults' \in Seq(FaultKinds)
        /\ expired' \in SUBSET Txid
    <3>1. CASE ConfirmatorFault
      BY <3>1, FaultTyped DEF TypeInv, TypeOK, ConfirmatorFault
    <3>2. CASE ConfirmatorStep \/ CleanUp
      BY SMT, <3>2 DEF TypeInv, TypeOK, ConfirmatorStep, CleanUp
    <3> QED
      BY <3>1, <3>2
  <2>2. ConfirmatorTyped
    <3>1. CASE CleanUp
      BY <3>1 DEF CleanUp, clean_up_waiting_txs, ConfirmatorTyped, TypeInv, TypeOK, ChainInv
    <3>2. CASE ConfirmatorStep
      BY <3>2, <1>TypeNewBlock, <1>TypeTxToConfirm DEF ConfirmatorStep
    <3>3. CASE ConfirmatorFault
      BY <3>3, <1>TypeNewBlock, <1>TypeTxToConfirm DEF ConfirmatorFault
    <3> QED
      BY <3>1, <3>2, <3>3
  <2>3. /\ toConfirm' \in Seq(ConfirmMsg)
        /\ toController' \in Seq(ControllerMsg)
        /\ latest_blocks' \in Seq(Block)
    BY <2>2, SeqMono DEF ConfirmatorTyped, KnownConfirmMsg, KnownControllerMsg, TypeInv, TypeOK
  <2>4. TypeOK'
    BY <2>1, <2>2, <2>3 DEF ConfirmatorTyped, TypeInv, TypeOK, chainVars, storage, indexerVars
  <2>5. ChainInv'
    BY <2>1, <2>2 DEF ConfirmatorTyped, TypeInv, ChainInv, KnownControllerMsg, KnownConfirmMsg,
                      chainVars, indexerVars
  <2>6. RowInv'
    BY <2>1 DEF TypeInv, RowInv, storage
  <2> QED
    BY <2>4, <2>5, <2>6 DEF TypeInv

(* The genesis block is on every branch.                                   *)
<1>GenesisKnown. ASSUME TypeInv PROVE Genesis \in known
  <2> USE <1>GenesisKnown
  <2>1. PICK c \in Branch[tip] : Height[c] = 0
    BY SMT, BranchAssumption, TreeAssumption DEF TypeInv, TypeOK
  <2>2. c \in Block /\ c = Genesis
    BY <2>1, <1>GenesisHeight, TreeAssumption DEF TypeInv, TypeOK
  <2> QED
    BY <2>1, <2>2 DEF TypeInv, ChainInv

<1>InitFromTyped. ASSUME TypeInv PROVE InitFrom \in Nat
  <2> USE <1>InitFromTyped
  <2>1. get_starting_block_height \in Nat
    BY SMT, TreeAssumption, IndexerAssumption DEF TypeInv, TypeOK, get_starting_block_height
  <2> QED
    BY SMT, <2>1, ConfirmationsAssumption DEF InitFrom, saturating_sub

<1>TypeIndexer.
  ASSUME TypeInv,
         \/ InitStarts \/ init_blocks_handle \/ InitFinishes \/ handle_new_blocks
         \/ IndexerEvent \/ InitRetries \/ LoaderFails \/ UpdateStateFails
  PROVE  IndexerTyped
  <2> USE <1>TypeIndexer
  <2>1. /\ tip \in Block /\ Height[tip] \in Nat /\ known \subseteq Block
        /\ \A b \in known : Height[b] \in Nat /\ Height[b] <= Height[tip]
        /\ phase \in {"init", "load", "run", "poll"}
        /\ confirmed_block_height \in Nat /\ confirmed_block_hash \in Block \cup {NoBlock}
        /\ indexer_last_block_height \in Nat /\ load_to \in Nat
        /\ indexer_state \in known \cup {NoBlock}
        /\ toConfirm \in Seq(KnownConfirmMsg)
    BY TreeAssumption DEF TypeInv, TypeOK, ChainInv
  <2>2. /\ phase = "load" => load_to <= Height[tip]
        /\ phase \in {"run", "poll"} =>
             confirmed_block_hash \in known /\ confirmed_block_height = Height[confirmed_block_hash]
    BY DEF TypeInv, ChainInv
  <2>3. CASE InitStarts
    BY SMT, <2>1, <2>3, <1>InitFromTyped DEF InitStarts, IndexerTyped
  <2>4. CASE init_blocks_handle
    <3>1. indexer_last_block_height \in 0..Height[tip]
      BY SMT, <2>1, <2>2, <2>4 DEF init_blocks_handle
    <3> QED
      BY SMT, <2>1, <2>2, <2>4, <3>1, TipBlock DEF init_blocks_handle, index_block, IndexerTyped
  <2>5. CASE InitFinishes \/ LoaderFails
    <3>1. StartPolling
      BY <2>5 DEF InitFinishes, LoaderFails
    <3> DEFINE last == IF indexer_state = NoBlock THEN Genesis ELSE indexer_state
    <3>2. last \in known
      BY <2>1, <1>GenesisKnown
    <3>3. /\ confirmed_block_hash' = last /\ confirmed_block_height' = Height[last]
          /\ phase' = "run"
          /\ UNCHANGED <<indexer_last_block_height, load_to, indexer_state, toConfirm>>
      BY <3>1 DEF StartPolling
    <3> QED
      BY <2>1, <3>2, <3>3 DEF IndexerTyped
  <2>6. CASE InitRetries
    BY <2>1, <2>6 DEF InitRetries, IndexerTyped
  <2>7. CASE IndexerEvent
    <3>1. Head(toIndexer) \in 0..Height[tip]
      BY <2>7, HeadTailTyped DEF IndexerEvent, TypeInv, ChainInv
    <3>2. BlockAt(tip, Head(toIndexer)) \in known
          /\ Height[BlockAt(tip, Head(toIndexer))] = Head(toIndexer)
      BY <3>1, TipBlock
    <3> QED
      BY <2>1, <2>7, <3>1, <3>2 DEF IndexerEvent, handle_reorganization, IndexerTyped
  <2>8. CASE handle_new_blocks
    <3>1. CASE Height[tip] = confirmed_block_height
               \/ BlockAt(tip, confirmed_block_height + 1) = confirmed_block_hash
      BY <2>1, <2>2, <2>8, <3>1 DEF handle_new_blocks, IndexerTyped
    <3>2. CASE ~(Height[tip] = confirmed_block_height
                 \/ BlockAt(tip, confirmed_block_height + 1) = confirmed_block_hash)
      <4>1. confirmed_block_height + 1 \in 0..Height[tip]
        BY SMT, <2>1, <2>2, <2>8, <3>2 DEF handle_new_blocks
      <4> QED
        BY <2>1, <2>8, <3>2, <4>1, TipBlock DEF handle_new_blocks, index_block, IndexerTyped
    <3> QED
      BY <3>1, <3>2
  <2>9. CASE UpdateStateFails
    <3>1. confirmed_block_height + 1 \in 0..Height[tip]
      BY SMT, <2>1, <2>2, <2>9 DEF UpdateStateFails
    <3> QED
      BY <2>1, <2>2, <2>9, <3>1, TipBlock DEF UpdateStateFails, IndexerTyped
  <2> QED
    BY <2>3, <2>4, <2>5, <2>6, <2>7, <2>8, <2>9

<1>TypeIndexerStep. TypeInv /\ (IndexerStep \/ IndexerFault) => TypeInv'
  <2> SUFFICES ASSUME TypeInv, IndexerStep \/ IndexerFault PROVE TypeInv'
    OBVIOUS
  <2>1. IndexerTyped
    BY <1>TypeIndexer DEF IndexerStep, IndexerFault
  <2>2. /\ UNCHANGED <<chainVars, toController, toChecker, toGraph, cancelled, storage,
                       confirmatorVars, expired>>
        /\ faults' \in Seq(FaultKinds)
    BY FaultTyped DEF TypeInv, TypeOK, IndexerStep, IndexerFault
  <2>3. toIndexer' = toIndexer \/ (toIndexer # <<>> /\ toIndexer' = Tail(toIndexer))
    BY DEF IndexerStep, IndexerFault, IndexerEvent
  <2>4. toIndexer' \in Seq(Nat) /\ toIndexer' \in Seq(0..Height[tip])
    BY <2>3, HeadTailTyped DEF TypeInv, TypeOK, ChainInv
  <2>5. toConfirm' \in Seq(ConfirmMsg)
    BY <2>1, SeqMono DEF IndexerTyped, KnownConfirmMsg
  <2>6. indexer_state' \in Block \cup {NoBlock}
    BY <2>1 DEF IndexerTyped, TypeInv, TypeOK
  <2>7. TypeOK'
    BY <2>1, <2>2, <2>4, <2>5, <2>6
       DEF IndexerTyped, TypeInv, TypeOK, chainVars, storage, confirmatorVars
  <2>8. ChainInv'
    BY <2>1, <2>2, <2>4 DEF IndexerTyped, TypeInv, ChainInv, KnownControllerMsg,
                            KnownConfirmMsg, chainVars, confirmatorVars
  <2>9. RowInv'
    BY <2>2 DEF TypeInv, RowInv, storage
  <2> QED
    BY <2>7, <2>8, <2>9 DEF TypeInv

<1>TypeRestart. TypeInv /\ Restart => TypeInv'
  <2> SUFFICES ASSUME TypeInv, Restart PROVE TypeInv'
    OBVIOUS
  <2>1. RestartNode /\ faults' \in Seq(FaultKinds)
    BY FaultTyped DEF TypeInv, TypeOK, Restart
  <2> DEFINE With(s) == {t \in Txid : mempool[t] = s}
  <2>2. StoredTxs(With("Initialized")) \subseteq Tx /\ StoredTxs(With("Attaching")) \subseteq Tx
    <3>1. /\ Entries(With("Initialized")) = With("Initialized")
          /\ Entries(With("Attaching")) = With("Attaching")
      BY DEF Entries
    <3> QED
      BY <3>1, StoredAreTxs
  <2>3. /\ IsolatedCheck(StoredTxs(With("Initialized"))) \in CheckerMsg
        /\ CheckedTxs(StoredTxs(With("Attaching"))) \in GraphMsg
        /\ Txs(With("WaitingMined") \cup With("Mined")) \in KnownConfirmMsg
        /\ Txs(With("WaitingMined") \cup With("Mined")) \in ConfirmMsg
    BY <2>2 DEF IsolatedCheck, CheckerMsg, CheckedTxs, GraphMsg, Txs, KnownConfirmMsg, ConfirmMsg
  <2>4. /\ toChecker' = SendUnlessEmpty(<<>>, IsolatedCheck(StoredTxs(With("Initialized"))))
        /\ toGraph' = SendUnlessEmpty(<<>>, CheckedTxs(StoredTxs(With("Attaching"))))
        /\ toConfirm' = SendUnlessEmpty(<<>>, Txs(With("WaitingMined") \cup With("Mined")))
    BY <2>1 DEF RestartNode, handle_mempool_txs
  <2>5. /\ toChecker' \in Seq(CheckerMsg) /\ toGraph' \in Seq(GraphMsg)
        /\ toConfirm' \in Seq(KnownConfirmMsg) /\ toConfirm' \in Seq(ConfirmMsg)
    <3> HIDE DEF With
    <3>1. <<>> \in Seq(CheckerMsg) /\ <<>> \in Seq(GraphMsg) /\ <<>> \in Seq(KnownConfirmMsg)
          /\ <<>> \in Seq(ConfirmMsg)
      BY SMT
    <3> QED
      BY <2>3, <2>4, <3>1, SendTyped
  <2>6. TypeOK'
    <3>1. /\ tip' = tip /\ known' = known /\ l1' = l1 /\ mempool' = mempool
          /\ toController' = <<>> /\ toIndexer' = <<>> /\ cancelled' = FALSE
          /\ queue' = {} /\ latest_blocks' = <<>> /\ expired' = {}
      BY <2>1 DEF RestartNode, chainVars, storage
    <3>2. /\ phase' = "init" /\ confirmed_block_height' = 0 /\ confirmed_block_hash' = NoBlock
          /\ indexer_last_block_height' = 0 /\ load_to' = 0 /\ indexer_state' = indexer_state
      BY <2>1 DEF RestartNode, IndexerRestarts
    <3>3. <<>> \in Seq(ControllerMsg) /\ <<>> \in Seq(Nat) /\ <<>> \in Seq(Block)
      BY SMT
    <3>4. cancelled' \in BOOLEAN
      BY <3>1
    <3> HIDE DEF With
    <3> QED
      BY <2>1, <2>5, <3>1, <3>2, <3>3, <3>4 DEF TypeInv, TypeOK
  <2>7. ChainInv'
    <3> HIDE DEF With
    <3>1. /\ tip' = tip /\ known' = known /\ toController' = <<>> /\ toIndexer' = <<>>
          /\ latest_blocks' = <<>> /\ phase' = "init" /\ indexer_state' = indexer_state
      BY <2>1 DEF RestartNode, IndexerRestarts, chainVars
    <3>2. /\ toController' \in Seq(KnownControllerMsg') /\ toIndexer' \in Seq(0..Height[tip'])
          /\ latest_blocks' \in Seq(known')
      BY SMT, <3>1
    <3>3. KnownConfirmMsg' = KnownConfirmMsg
      BY <3>1 DEF KnownConfirmMsg
    <3> QED
      BY <2>5, <3>1, <3>2, <3>3 DEF TypeInv, ChainInv
  <2>8. RowInv'
    BY <2>1 DEF TypeInv, RowInv, RestartNode, storage
  <2> QED
    BY <2>6, <2>7, <2>8 DEF TypeInv

<1> SUFFICES ASSUME TypeInv, [Next]_vars PROVE TypeInv'
  OBVIOUS
<1>1. CASE UNCHANGED vars
  <2>1. TypeOK'
    BY <1>1 DEF TypeInv, TypeOK, vars, chainVars, channels, storage, confirmatorVars, indexerVars
  <2>2. ChainInv'
    BY <1>1 DEF TypeInv, ChainInv, KnownControllerMsg, KnownConfirmMsg, vars, chainVars,
                channels, storage, confirmatorVars, indexerVars
  <2>3. RowInv'
    BY <1>1 DEF TypeInv, RowInv, vars, storage
  <2> QED
    BY <2>1, <2>2, <2>3 DEF TypeInv
<1>2. CASE Next
  BY <1>2, <1>TypeChainStep, <1>TypeSubmit, <1>TypeCheckerAccepts, <1>TypeGraphBuilderAttaches,
     <1>TypeControllerStep, <1>TypeConfirmator, <1>TypeIndexerStep, <1>TypeRestart DEF Next
<1> QED
  BY <1>1, <1>2

(* The inductive invariant on types, heights and rows holds in every       *)
(* reachable state: no handler asks the Bitcoin node for a height above    *)
(* its tip, and no mempool entry is without its transaction.               *)
THEOREM TypeSafe == Spec => []TypeInv
BY TypeInit, TypeNext, PTL DEF Spec

(* Every variable keeps the type of the field or column it models.         *)
THEOREM TypeCorrect == Spec => []TypeOK
<1>1. TypeInv => TypeOK
  BY DEF TypeInv
<1> QED
  BY <1>1, TypeSafe, PTL

-----------------------------------------------------------------------------
(* Channels and messages.                                                  *)

LEMMA WindowTyped ==
  ASSUME TypeInv
  PROVE  /\ latest_blocks \in Seq(known) /\ latest_blocks \in Seq(Block)
         /\ Depth = Len(latest_blocks) /\ Depth \in Nat
<1>1. latest_blocks \in Seq(known)
  BY DEF TypeInv, ChainInv
<1>2. latest_blocks \in Seq(Block)
  BY DEF TypeInv, TypeOK
<1>3. Len(latest_blocks) \in Nat
  BY SMT, <1>1
<1> QED
  BY <1>1, <1>2, <1>3 DEF Depth

(* The places of a channel after its head is taken.                        *)
LEMMA Rest ==
  ASSUME NEW M, NEW ch \in Seq(M), ch # <<>>
  PROVE  /\ 1 \in 1..Len(ch) /\ Head(ch) = ch[1]
         /\ \A i \in 1..Len(Tail(ch)) :
              i + 1 \in 1..Len(ch) /\ i + 1 # 1 /\ 1 < i + 1 /\ Tail(ch)[i] = ch[i + 1]
         /\ \A i \in 1..Len(ch) :
              i = 1 \/ (i - 1 \in 1..Len(Tail(ch)) /\ Tail(ch)[i - 1] = ch[i] /\ i = (i - 1) + 1)
         /\ \A i, j \in 1..Len(Tail(ch)) : i + 1 = j + 1 => i = j
         /\ \A i, j \in 1..Len(Tail(ch)) : i + 1 < j + 1 <=> i < j
BY SMT

(* The channels carry the messages of their receivers.                     *)
LEMMA ChannelTypes ==
  ASSUME TypeInv
  PROVE  /\ toController \in Seq(ControllerMsg) /\ toChecker \in Seq(CheckerMsg)
         /\ toGraph \in Seq(GraphMsg) /\ toConfirm \in Seq(ConfirmMsg)
BY DEF TypeInv, TypeOK

(* What the services send is what the receivers take.                      *)
LEMMA SentMessages ==
  /\ \A S \in SUBSET Txid :
       /\ Txs(S) \in ConfirmMsg
       /\ {PartiallyCheckedTxs(S), MinedTxs(S), ConfirmedTxs(S), AttachedTxs(S)}
            \subseteq ControllerMsg
       /\ \A h \in Nat : Reorganization(S, h) \in ControllerMsg
  /\ \A X \in SUBSET Tx :
       /\ IsolatedCheck(X) \in CheckerMsg /\ FullCheck(X) \in CheckerMsg
       /\ CheckedTxs(X) \in GraphMsg /\ FullyCheckedTxs(X) \in ControllerMsg
       /\ InitializeTxs(X) \in ControllerMsg
<1>1. ASSUME NEW S \in SUBSET Txid
      PROVE  /\ Txs(S) \in ConfirmMsg
             /\ {PartiallyCheckedTxs(S), MinedTxs(S), ConfirmedTxs(S), AttachedTxs(S)}
                  \subseteq ControllerMsg
  BY SMTT(30) DEF Txs, PartiallyCheckedTxs, MinedTxs, ConfirmedTxs, AttachedTxs,
     ConfirmMsg, ControllerMsg
<1>2. ASSUME NEW S \in SUBSET Txid, NEW h \in Nat PROVE Reorganization(S, h) \in ControllerMsg
  BY SMTT(30) DEF Reorganization, ControllerMsg
<1>3. ASSUME NEW X \in SUBSET Tx
      PROVE  /\ IsolatedCheck(X) \in CheckerMsg /\ FullCheck(X) \in CheckerMsg
             /\ CheckedTxs(X) \in GraphMsg /\ FullyCheckedTxs(X) \in ControllerMsg
             /\ InitializeTxs(X) \in ControllerMsg
  BY SMTT(30) DEF IsolatedCheck, FullCheck, CheckedTxs, FullyCheckedTxs, InitializeTxs,
     CheckerMsg, GraphMsg, ControllerMsg
<1> QED BY <1>1, <1>2, <1>3

(* What the controller takes from its channel.                             *)
LEMMA HeadMessage ==
  ASSUME TypeInv, toController # <<>>
  PROVE  LET m == Head(toController)
         IN  /\ m \in ControllerMsg
             /\ m.type \in {"InitializeTxs", "FullyCheckedTxs"} => m.txs \in SUBSET Tx
             /\ m.type \notin {"InitializeTxs", "FullyCheckedTxs"} => m.txs \in SUBSET Txid
             /\ m.type \in {"InitializeTxs", "PartiallyCheckedTxs", "FullyCheckedTxs", "MinedTxs",
                            "ConfirmedTxs", "Reorganization", "AttachedTxs"}
<1>1. Head(toController) \in ControllerMsg
  BY ChannelTypes, HeadTailTyped
<1> QED
  BY <1>1 DEF ControllerMsg

(* The message Txs at the head, as the transactions that are not looked up *)
(* see it, and as the one that is.                                         *)
LEMMA HeadReplaced ==
  ASSUME NEW M, NEW ch \in Seq(M), ch # <<>>, NEW m \in M
  PROVE  LET new == <<m>> \o Tail(ch)
         IN  /\ Len(new) = Len(ch) /\ new[1] = m /\ 1 \in 1..Len(ch) /\ Head(ch) = ch[1]
             /\ \A i \in 1..Len(ch) : i # 1 => new[i] = ch[i]
BY SMT

(* A node that is shutting down does so until it starts again.             *)
LEMMA StopsForGood == ASSUME TypeInv, cancelled, Next, ~Restart PROVE cancelled'
BY DEF TypeInv, TypeOK, Next, ChainStep, Submit, CheckerAccepts, GraphBuilderAttaches,
   ControllerStep, ConfirmatorStep, handle_new_block, handle_reorg, ExtendWindow,
   handle_tx_to_confirm, CleanUp, clean_up_waiting_txs, IndexerStep, ConfirmatorFault,
   BranchLookupFails, TxLookupFails, IndexerFault

-----------------------------------------------------------------------------
(* No entry is forgotten: every transaction is with one service, or in one *)
(* message.                                                                *)

(* Different transactions have different ids.                              *)
OneTxPerId == \A x, y \in Tx : TxidOf[x] = TxidOf[y] => x = y

(* The message hands t on from one service to another.  (MinedTxs only     *)
(* tells of it; InitializeTxs may be refused.)                             *)
Names(m, t) ==
  \/ /\ m.type \in {"PartiallyCheckedTxs", "ConfirmedTxs", "Reorganization", "AttachedTxs", "Txs"}
     /\ t \in m.txs
  \/ /\ m.type \in {"IsolatedCheck", "FullCheck", "FullyCheckedTxs", "CheckedTxs"}
     /\ t \in Ids(m.txs)

On(ch, t) == \E i \in 1..Len(ch) : Names(ch[i], t)

(* The part of its way that a transaction is on, by its status and by the  *)
(* message that names it.                                                  *)
StageOf(status) ==
  CASE status = "None" -> "out"
    [] status = "Initialized" -> "check"
    [] status = "Attaching" -> "attach"
    [] OTHER -> "confirm"

StageFor(type) ==
  CASE type \in {"IsolatedCheck", "PartiallyCheckedTxs"} -> "check"
    [] type \in {"CheckedTxs", "AttachedTxs"} -> "attach"
    [] OTHER -> "confirm"

(* At most one message of ch names t, and it fits the stage of t.          *)
Once(ch, t, stage) ==
  /\ \A i, j \in 1..Len(ch) : Names(ch[i], t) /\ Names(ch[j], t) => i = j
  /\ \A i \in 1..Len(ch) : Names(ch[i], t) => StageFor(ch[i].type) = stage

Alone(a, b, c, d, e) ==
  /\ ~(a /\ (b \/ c \/ d \/ e))
  /\ ~(b /\ (c \/ d \/ e))
  /\ ~(c /\ (d \/ e))
  /\ ~(d /\ e)

Mines(m, t) == m.type = "MinedTxs" /\ t \in m.txs

(* Every MinedTxs about t comes before what takes t from the confirmator.  *)
Followed(ch, t) ==
  \A i \in 1..Len(ch) : Mines(ch[i], t) =>
    \E j \in 1..Len(ch) : i < j /\ Names(ch[j], t) /\ StageFor(ch[j].type) = "confirm"

Waits(t) == t \in queue \cup expired

(* t is with one service or in one message only.                           *)
TrackedTx(t) ==
  LET stage == StageOf(mempool[t])
  IN  /\ Once(toController, t, stage) /\ Once(toChecker, t, stage)
      /\ Once(toGraph, t, stage) /\ Once(toConfirm, t, stage)
      /\ Alone(On(toController, t), On(toChecker, t), On(toGraph, t), On(toConfirm, t), Waits(t))
      /\ ~(t \in queue /\ t \in expired)
      /\ Waits(t) => stage = "confirm"
      /\ Waits(t) \/ Followed(toController, t)
      /\ l1[t] # NoRow => l1[t].status # "InvalidIssue"

Tracked == \A t \in Txid : TrackedTx(t)

Placed(t) ==
  \/ On(toController, t) \/ On(toChecker, t) \/ On(toGraph, t) \/ On(toConfirm, t) \/ Waits(t)

Handed == ~cancelled => \A t \in Txid : mempool[t] # "None" => Placed(t)

Confirms(m, t) == m.type = "ConfirmedTxs" /\ t \in m.txs

(* Every ConfirmedTxs about t comes after a MinedTxs about it.             *)
MinedBefore(ch, t) ==
  \A j \in 1..Len(ch) : Confirms(ch[j], t) =>
    \E i \in 1..Len(ch) : i < j /\ Mines(ch[i], t)

SaidMined(ch, t) == \E i \in 1..Len(ch) : Mines(ch[i], t)

(* The full check of t is asked for, or answered.                          *)
FullyChecks(m, t) == m.type \in {"FullCheck", "FullyCheckedTxs"} /\ t \in Ids(m.txs)

InFullCheck(ch, t) == \E i \in 1..Len(ch) : FullyChecks(ch[i], t)

InWindow(window, t) == \E i \in 1..Len(window) : t \in BlockTxs[window[i]]

(* The entry says mined, or a reorg is the reason that it does not.        *)
SaysMined(t) == mempool[t] = "Mined" \/ DroppedByReorg(t)

(* What the window or the RPC took for confirmed has been reported as      *)
(* mined before, unless a reorg dropped it.                                *)
ReportedTx(t) ==
  /\ SaysMined(t) \/ MinedBefore(toController, t)
  /\ InFullCheck(toChecker, t) \/ InFullCheck(toController, t) => SaysMined(t)
  /\ t \in queue /\ InWindow(latest_blocks, t) => SaysMined(t) \/ SaidMined(toController, t)

Reported == ~cancelled => \A t \in Txid : ReportedTx(t)

-----------------------------------------------------------------------------
(* Channels, as one transaction sees them.                                 *)

(* The two channels are the same to t.                                     *)
Alike(old, new, t) ==
  /\ On(new, t) <=> On(old, t)
  /\ \A s : Once(old, t, s) => Once(new, t, s)

LEMMA Appended ==
  ASSUME NEW M, NEW ch \in Seq(M), NEW m \in M
  PROVE  /\ Append(ch, m) \in Seq(M)
         /\ Len(ch) + 1 \in 1..Len(Append(ch, m)) /\ Append(ch, m)[Len(ch) + 1] = m
         /\ \A i \in 1..Len(ch) :
              i \in 1..Len(Append(ch, m)) /\ Append(ch, m)[i] = ch[i] /\ i < Len(ch) + 1
         /\ \A i \in 1..Len(Append(ch, m)) : i \in 1..Len(ch) \/ i = Len(ch) + 1
BY SMT

LEMMA PutOnce ==
  ASSUME NEW M, NEW ch \in Seq(M), NEW m \in M, NEW t
  PROVE  /\ On(Append(ch, m), t) <=> On(ch, t) \/ Names(m, t)
         /\ \A s : /\ Once(ch, t, s)
                   /\ ~(On(ch, t) /\ Names(m, t))
                   /\ Names(m, t) => StageFor(m.type) = s
                   => Once(Append(ch, m), t, s)
<1> DEFINE new == Append(ch, m)
           n == Len(ch) + 1
<1>1. /\ n \in 1..Len(new) /\ new[n] = m
      /\ \A i \in 1..Len(ch) : i \in 1..Len(new) /\ new[i] = ch[i] /\ i < n
      /\ \A i \in 1..Len(new) : i \in 1..Len(ch) \/ i = n
  BY Appended
<1> HIDE DEF new, n
<1>2. On(new, t) <=> On(ch, t) \/ Names(m, t)
  BY <1>1 DEF On
<1>3. ASSUME NEW s, Once(ch, t, s), ~(On(ch, t) /\ Names(m, t)),
             Names(m, t) => StageFor(m.type) = s
      PROVE  Once(new, t, s)
  <2>1. \A i \in 1..Len(new) : Names(new[i], t) => StageFor(new[i].type) = s
    BY <1>1, <1>3 DEF Once
  <2>2. \A i, j \in 1..Len(new) : Names(new[i], t) /\ Names(new[j], t) => i = j
    BY <1>1, <1>3 DEF Once, On
  <2> QED
    BY <2>1, <2>2 DEF Once
<1> QED
  BY <1>2, <1>3 DEF new

LEMMA PutAlike ==
  ASSUME NEW M, NEW ch \in Seq(M), NEW m \in M, NEW t, ~Names(m, t)
  PROVE  Alike(ch, Append(ch, m), t)
BY PutOnce DEF Alike

LEMMA NothingNamed == ASSUME NEW m, NEW t, m.txs = {} PROVE ~Names(m, t)
BY DEF Names, Ids

LEMMA TakeOnce ==
  ASSUME NEW M, NEW ch \in Seq(M), ch # <<>>, NEW t
  PROVE  /\ On(ch, t) <=> Names(Head(ch), t) \/ On(Tail(ch), t)
         /\ \A s : Once(ch, t, s) =>
              /\ Once(Tail(ch), t, s)
              /\ ~(Names(Head(ch), t) /\ On(Tail(ch), t))
              /\ Names(Head(ch), t) => StageFor(Head(ch).type) = s
<1> DEFINE rest == Tail(ch)
           m == Head(ch)
<1>1. /\ 1 \in 1..Len(ch) /\ m = ch[1]
      /\ \A i \in 1..Len(rest) : i + 1 \in 1..Len(ch) /\ i + 1 # 1 /\ rest[i] = ch[i + 1]
      /\ \A i \in 1..Len(ch) : i = 1 \/ (i - 1 \in 1..Len(rest) /\ rest[i - 1] = ch[i])
      /\ \A i, j \in 1..Len(rest) : i + 1 = j + 1 => i = j
  BY SMT, Rest
<1> HIDE DEF rest, m
<1>2. On(ch, t) <=> Names(m, t) \/ On(rest, t)
  <2>1. On(ch, t) => Names(m, t) \/ On(rest, t)
    BY <1>1 DEF On
  <2>2. Names(m, t) => On(ch, t)
    BY <1>1 DEF On
  <2>3. On(rest, t) => On(ch, t)
    BY <1>1 DEF On
  <2> QED
    BY <2>1, <2>2, <2>3
<1>3. ASSUME NEW s, Once(ch, t, s)
      PROVE  /\ Once(rest, t, s) /\ ~(Names(m, t) /\ On(rest, t))
             /\ Names(m, t) => StageFor(m.type) = s
  <2>1. Names(m, t) => StageFor(m.type) = s
    BY <1>1, <1>3 DEF Once
  <2>2. ~(Names(m, t) /\ On(rest, t))
    BY <1>1, <1>3 DEF Once, On
  <2>3. \A i \in 1..Len(rest) : Names(rest[i], t) => StageFor(rest[i].type) = s
    BY SMT, <1>1, <1>3 DEF Once
  <2>4. \A i, j \in 1..Len(rest) : Names(rest[i], t) /\ Names(rest[j], t) => i = j
    BY <1>1, <1>3 DEF Once
  <2> QED
    BY <2>1, <2>2, <2>3, <2>4 DEF Once
<1> QED
  BY <1>2, <1>3 DEF rest, m

LEMMA TakeAlike ==
  ASSUME NEW M, NEW ch \in Seq(M), ch # <<>>, NEW t, ~Names(Head(ch), t)
  PROVE  Alike(ch, Tail(ch), t)
BY TakeOnce DEF Alike

LEMMA NotOn == ASSUME NEW ch, NEW t, ~On(ch, t) PROVE \A s : Once(ch, t, s)
BY DEF On, Once

LEMMA EmptyOnce == \A t : ~On(<<>>, t) /\ Followed(<<>>, t)
BY SMT DEF On, Followed

LEMMA PutFollowed ==
  ASSUME NEW M, NEW ch \in Seq(M), NEW m \in M, NEW t, ~Mines(m, t),
         Followed(ch, t) \/ (Names(m, t) /\ StageFor(m.type) = "confirm")
  PROVE  Followed(Append(ch, m), t)
<1> DEFINE new == Append(ch, m)
           n == Len(ch) + 1
<1>1. /\ n \in 1..Len(new) /\ new[n] = m
      /\ \A i \in 1..Len(ch) : i \in 1..Len(new) /\ new[i] = ch[i] /\ i < n
      /\ \A i \in 1..Len(new) : i \in 1..Len(ch) \/ i = n
  BY Appended
<1> HIDE DEF new, n
<1>2. Followed(new, t)
  <2>1. CASE Followed(ch, t)
    BY <1>1, <2>1 DEF Followed
  <2>2. CASE Names(m, t) /\ StageFor(m.type) = "confirm"
    BY <1>1, <2>2 DEF Followed
  <2> QED
    BY <2>1, <2>2
<1> QED
  BY <1>2 DEF new

LEMMA TakeFollowed ==
  ASSUME NEW M, NEW ch \in Seq(M), ch # <<>>, NEW t, Followed(ch, t)
  PROVE  /\ Followed(Tail(ch), t)
         /\ Mines(Head(ch), t) => On(Tail(ch), t)
<1> DEFINE rest == Tail(ch)
           m == Head(ch)
<1>1. /\ 1 \in 1..Len(ch) /\ m = ch[1]
      /\ \A i \in 1..Len(rest) : i + 1 \in 1..Len(ch) /\ 1 < i + 1 /\ rest[i] = ch[i + 1]
      /\ \A i \in 1..Len(ch) :
           i = 1 \/ (i - 1 \in 1..Len(rest) /\ rest[i - 1] = ch[i] /\ i = (i - 1) + 1)
      /\ \A i, j \in 1..Len(rest) : i + 1 < j + 1 <=> i < j
  BY SMT, Rest
<1>3. \A i, j \in 1..Len(ch) : i < j => j # 1
  BY SMT
<1> HIDE DEF rest, m
<1>4. Followed(rest, t)
  <2> SUFFICES ASSUME NEW i \in 1..Len(rest), Mines(rest[i], t)
               PROVE  \E j \in 1..Len(rest) : i < j /\ Names(rest[j], t)
                                              /\ StageFor(rest[j].type) = "confirm"
    BY DEF Followed
  <2>1. PICK j \in 1..Len(ch) : i + 1 < j /\ Names(ch[j], t) /\ StageFor(ch[j].type) = "confirm"
    BY <1>1 DEF Followed
  <2>2. j # 1
    BY <1>1, <1>3, <2>1
  <2>3. j - 1 \in 1..Len(rest) /\ rest[j - 1] = ch[j] /\ j = (j - 1) + 1
    BY <1>1, <2>2
  <2>4. i < j - 1
    BY <1>1, <2>1, <2>3
  <2> QED
    BY <2>1, <2>3, <2>4
<1>5. ASSUME Mines(m, t) PROVE On(rest, t)
  <2>1. PICK j \in 1..Len(ch) : 1 < j /\ Names(ch[j], t)
    BY <1>1, <1>5 DEF Followed
  <2>2. j # 1
    BY <1>1, <1>3, <2>1
  <2> QED
    BY <1>1, <2>1, <2>2 DEF On
<1> QED
  BY <1>4, <1>5 DEF rest, m

-----------------------------------------------------------------------------
(* What a step does to one transaction.                                    *)

HandedTx(t) == mempool[t] # "None" => Placed(t)

(* t is still in one place, and still in one if it was.                    *)
StaysTracked(t) == TrackedTx(t)' /\ (HandedTx(t) => HandedTx(t)')

LEMMA Stages ==
  /\ \A s : StageOf(s) = "out" <=> s = "None"
  /\ StageOf("Initialized") = "check" /\ StageOf("Attaching") = "attach"
  /\ StageOf("WaitingMined") = "confirm" /\ StageOf("Mined") = "confirm"
  /\ \A type : StageFor(type) # "out"
  /\ StageFor("IsolatedCheck") = "check" /\ StageFor("PartiallyCheckedTxs") = "check"
  /\ StageFor("CheckedTxs") = "attach" /\ StageFor("AttachedTxs") = "attach"
  /\ \A type \in {"Txs", "Reorganization", "ConfirmedTxs", "FullCheck", "FullyCheckedTxs"} :
       StageFor(type) = "confirm"
BY DEF StageOf, StageFor

LEMMA StatusOfStage ==
  ASSUME NEW s \in MempoolStatus
  PROVE  /\ StageOf(s) = "check" => s = "Initialized"
         /\ StageOf(s) = "confirm" => s \in {"WaitingMined", "Mined"}
         /\ StageOf(s) = "attach" => s = "Attaching"
BY DEF StageOf, MempoolStatus

LEMMA SameAlike == ASSUME NEW ch, NEW t PROVE Alike(ch, ch, t)
BY DEF Alike

LEMMA Keeps ==
  ASSUME NEW t, TrackedTx(t), StageOf(mempool'[t]) = StageOf(mempool[t]),
         l1'[t] # NoRow => l1'[t].status # "InvalidIssue",
         Alike(toController, toController', t), Alike(toChecker, toChecker', t),
         Alike(toGraph, toGraph', t), Alike(toConfirm, toConfirm', t),
         t \in queue' <=> t \in queue, t \in expired' <=> t \in expired,
         Waits(t) \/ Followed(toController', t)
  PROVE  StaysTracked(t)
<1>1. Waits(t)' <=> Waits(t)
  BY DEF Waits
<1>2. Placed(t)' <=> Placed(t)
  BY <1>1 DEF Placed, Alike
<1>3. mempool'[t] = "None" <=> mempool[t] = "None"
  BY Stages
<1>4. TrackedTx(t)'
  BY <1>1 DEF TrackedTx, Alike, Alone
<1> QED
  BY <1>2, <1>3, <1>4 DEF StaysTracked, HandedTx

(* t is where the next message of the controller has it.                   *)
LEMMA Leaves ==
  ASSUME TypeInv, NEW t, TrackedTx(t), toController # <<>>, Names(Head(toController), t),
         toController' = Tail(toController)
  PROVE  /\ \A s : /\ Once(toController', t, s) /\ Once(toChecker, t, s)
                   /\ Once(toGraph, t, s) /\ Once(toConfirm, t, s)
         /\ ~On(toController', t) /\ ~On(toChecker, t) /\ ~On(toGraph, t) /\ ~On(toConfirm, t)
         /\ ~Waits(t) /\ Followed(toController', t)
         /\ StageOf(mempool[t]) = StageFor(Head(toController).type)
<1>1. toController \in Seq(ControllerMsg)
  BY ChannelTypes
<1>2. /\ On(toController, t) /\ ~On(toController', t)
      /\ StageFor(Head(toController).type) = StageOf(mempool[t])
  BY <1>1, TakeOnce DEF TrackedTx
<1>3. ~On(toChecker, t) /\ ~On(toGraph, t) /\ ~On(toConfirm, t) /\ ~Waits(t)
  BY <1>2 DEF TrackedTx, Alone
<1>4. Followed(toController', t)
  BY <1>1, <1>3, TakeFollowed DEF TrackedTx
<1> QED
  BY <1>2, <1>3, <1>4, NotOn

(* Sending a message that does not name t changes nothing for it.          *)
LEMMA SendAlike ==
  ASSUME NEW M, NEW ch \in Seq(M), NEW m \in M, NEW t, ~Names(m, t)
  PROVE  Alike(ch, Send(ch, m), t) /\ Alike(ch, SendUnlessEmpty(ch, m), t)
BY PutAlike, SameAlike DEF Send, SendUnlessEmpty

(* Sending one that names t puts t there.                                  *)
LEMMA SendNamed ==
  ASSUME NEW M, NEW ch \in Seq(M), NEW m \in M, NEW t, Names(m, t), ~On(ch, t)
  PROVE  /\ On(Send(ch, m), t) /\ Once(Send(ch, m), t, StageFor(m.type))
         /\ On(SendUnlessEmpty(ch, m), t) /\ Once(SendUnlessEmpty(ch, m), t, StageFor(m.type))
<1>1. On(Append(ch, m), t) /\ Once(Append(ch, m), t, StageFor(m.type))
  BY PutOnce, NotOn
<1>2. m.txs # {}
  BY NothingNamed
<1> QED
  BY <1>1, <1>2 DEF Send, SendUnlessEmpty

LEMMA Messages ==
  ASSUME NEW S, NEW t
  PROVE  /\ ~Names(InitializeTxs(S), t) /\ ~Names(MinedTxs(S), t)
         /\ Names(PartiallyCheckedTxs(S), t) <=> t \in S
         /\ Names(ConfirmedTxs(S), t) <=> t \in S
         /\ Names(AttachedTxs(S), t) <=> t \in S
         /\ Names(Txs(S), t) <=> t \in S
         /\ \A h : Names(Reorganization(S, h), t) <=> t \in S
         /\ Names(FullyCheckedTxs(S), t) <=> t \in Ids(S)
         /\ Names(IsolatedCheck(S), t) <=> t \in Ids(S)
         /\ Names(FullCheck(S), t) <=> t \in Ids(S)
         /\ Names(CheckedTxs(S), t) <=> t \in Ids(S)
BY DEF InitializeTxs, PartiallyCheckedTxs, FullyCheckedTxs, MinedTxs, ConfirmedTxs, AttachedTxs,
       IsolatedCheck, FullCheck, CheckedTxs, Txs, Reorganization, Names

-----------------------------------------------------------------------------
(* The handlers of the controller.                                         *)

(* A transaction that a message hands to the controller has an entry.      *)
LEMMA HasEntry ==
  ASSUME TypeInv, Tracked, toController # <<>>, NEW t \in Txid, Names(Head(toController), t)
  PROVE  /\ StageOf(mempool[t]) = StageFor(Head(toController).type)
         /\ mempool[t] # "None" /\ l1[t] # NoRow
<1>1. toController \in Seq(ControllerMsg)
  BY ChannelTypes
<1>2. StageOf(mempool[t]) = StageFor(Head(toController).type)
  BY <1>1, TakeOnce DEF Tracked, TrackedTx
<1> QED
  BY <1>2, Stages DEF TypeInv, RowInv

(* So does one that the controller is told is mined: it is still with the  *)
(* confirmator, or in a message that left it later.                        *)
LEMMA MinedHasEntry ==
  ASSUME TypeInv, Tracked, toController # <<>>, NEW t \in Txid, Mines(Head(toController), t)
  PROVE  StageOf(mempool[t]) = "confirm" /\ mempool[t] # "None"
<1>1. toController \in Seq(ControllerMsg)
  BY ChannelTypes
<1>2. TrackedTx(t)
  BY DEF Tracked
<1>3. CASE Waits(t)
  BY <1>2, <1>3, Stages DEF TrackedTx
<1>4. CASE Followed(toController, t)
  <2>1. 1 \in 1..Len(toController) /\ Head(toController) = toController[1]
    BY <1>1, Rest
  <2>2. PICK j \in 1..Len(toController) :
          Names(toController[j], t) /\ StageFor(toController[j].type) = "confirm"
    BY <1>4, <2>1 DEF Followed
  <2>3. StageOf(mempool[t]) = "confirm"
    BY <1>2, <2>2 DEF TrackedTx, Once
  <2> QED
    BY <2>3, Stages
<1> QED
  BY <1>2, <1>3, <1>4 DEF TrackedTx

LEMMA SetStatus ==
  ASSUME TypeInv, NEW S, NEW s, mempool' = MempoolSet(S, s), NEW t \in Txid
  PROVE  mempool'[t] = IF t \in S THEN s ELSE mempool[t]
BY DEF MempoolSet

(* The stored transactions of some ids have these ids.                     *)
LEMMA StoredIds ==
  ASSUME TypeInv, NEW S \in SUBSET Txid, \A u \in S : l1[u] # NoRow
  PROVE  StoredTxs(S) \in SUBSET Tx /\ Ids(StoredTxs(S)) = S
<1>1. \A u \in S : TxidOf[l1[u].tx] = u /\ l1[u].tx \in Tx
  BY DEF TypeInv, TypeOK, RowInv, L1Row
<1>2. StoredTxs(S) \in SUBSET Tx
  BY <1>1 DEF StoredTxs
<1>3. \A u : u \in Ids(StoredTxs(S)) <=> u \in S
  BY SMT, <1>1 DEF Ids, StoredTxs
<1> QED
  BY <1>2, <1>3

(* A transaction that is taken for new has no row.                         *)
LEMMA NewHasNoRow ==
  ASSUME OneTxPerId, TypeInv, Tracked, NEW x \in Tx, IsNew(x)
  PROVE  TxidOf[x] \in Txid /\ l1[TxidOf[x]] = NoRow
<1> DEFINE t == TxidOf[x]
<1>1. t \in Txid
  BY TxAssumption
<1> HIDE DEF t
<1>2. SUFFICES ASSUME l1[t] # NoRow PROVE FALSE
  BY <1>1 DEF t
<1>3. Kind[x] = "Issue" /\ Kind[l1[t].tx] = "IssueAnnouncement"
  BY <1>1, <1>2 DEF IsNew, IsStoredIssueAnnouncement, Tracked, TrackedTx, t
<1>4. l1[t].tx \in Tx /\ TxidOf[l1[t].tx] = t
  BY <1>1, <1>2 DEF TypeInv, TypeOK, RowInv, L1Row
<1>5. l1[t].tx = x
  BY <1>4 DEF OneTxPerId, t
<1> QED
  BY <1>3, <1>5

-----------------------------------------------------------------------------
(* The other services.                                                     *)

LEMMA SendFollowed ==
  ASSUME NEW M, NEW ch \in Seq(M), NEW m \in M, NEW t, Followed(ch, t), ~Mines(m, t)
  PROVE  Followed(Send(ch, m), t) /\ Followed(SendUnlessEmpty(ch, m), t)
BY PutFollowed DEF Send, SendUnlessEmpty

LEMMA NotMined ==
  ASSUME NEW S, NEW t
  PROVE  /\ ~Mines(InitializeTxs(S), t) /\ ~Mines(PartiallyCheckedTxs(S), t)
         /\ ~Mines(FullyCheckedTxs(S), t) /\ ~Mines(ConfirmedTxs(S), t) /\ ~Mines(AttachedTxs(S), t)
         /\ \A h : ~Mines(Reorganization(S, h), t)
         /\ Mines(MinedTxs(S), t) <=> t \in S
BY DEF InitializeTxs, PartiallyCheckedTxs, FullyCheckedTxs, MinedTxs, ConfirmedTxs, AttachedTxs,
       Reorganization, Mines

-----------------------------------------------------------------------------
(* The confirmator.                                                        *)

(* The next message for the confirmator is a block.                        *)
LEMMA BlockTaken ==
  ASSUME TypeInv, Next1(toConfirm, "Block"), toConfirm' = Tail(toConfirm), NEW t
  PROVE  Head(toConfirm).block \in known /\ Alike(toConfirm, toConfirm', t)
<1>1. toConfirm # <<>> /\ Head(toConfirm).type = "Block" /\ toConfirm \in Seq(ConfirmMsg)
  BY ChannelTypes DEF Next1
<1>2. ~Names(Head(toConfirm), t)
  BY <1>1 DEF Names
<1>3. Head(toConfirm) \in KnownConfirmMsg
  BY <1>1, HeadTailTyped DEF TypeInv, ChainInv
<1>4. Head(toConfirm).block \in known
  BY <1>1, <1>3 DEF KnownConfirmMsg
<1> QED
  BY <1>1, <1>2, <1>4, TakeAlike

LEMMA FirstMessage ==
  ASSUME NEW M, NEW m \in M, NEW t
  PROVE  /\ On(SendUnlessEmpty(<<>>, m), t) <=> Names(m, t)
         /\ Once(SendUnlessEmpty(<<>>, m), t, StageFor(m.type))
<1> DEFINE e == <<>>
<1>1. e \in Seq(M)
  BY SMT
<1>2. ~On(e, t)
  BY EmptyOnce
<1> HIDE DEF e
<1>3. CASE Names(m, t)
  BY <1>1, <1>2, <1>3, SendNamed DEF e
<1>4. CASE ~Names(m, t)
  <2>1. ~On(SendUnlessEmpty(e, m), t)
    BY <1>1, <1>2, <1>4, SendAlike DEF Alike
  <2> QED
    BY <1>4, <2>1, NotOn DEF e
<1> QED
  BY <1>3, <1>4

LEMMA TrackRestart ==
  ASSUME TypeInv, Tracked, RestartNode, NEW t \in Txid
  PROVE  /\ TrackedTx(t)' /\ HandedTx(t)'
         /\ StageOf(mempool[t]) = "confirm" => On(toConfirm', t)
<1> DEFINE With(s) == {u \in Txid : mempool[u] = s}
           m1 == IsolatedCheck(StoredTxs(With("Initialized")))
           m2 == CheckedTxs(StoredTxs(With("Attaching")))
           m3 == Txs(With("WaitingMined") \cup With("Mined"))
<1>1. /\ toController' = <<>> /\ queue' = {} /\ expired' = {} /\ UNCHANGED <<l1, mempool>>
      /\ toChecker' = SendUnlessEmpty(<<>>, m1)
      /\ toGraph' = SendUnlessEmpty(<<>>, m2)
      /\ toConfirm' = SendUnlessEmpty(<<>>, m3)
  BY DEF RestartNode, handle_mempool_txs, storage
<1>2. mempool[t] \in MempoolStatus /\ TrackedTx(t)
  BY DEF TypeInv, TypeOK, Tracked
<1>3. /\ With("Initialized") \in SUBSET Txid /\ \A u \in With("Initialized") : l1[u] # NoRow
      /\ With("Attaching") \in SUBSET Txid /\ \A u \in With("Attaching") : l1[u] # NoRow
  BY DEF TypeInv, RowInv
<1>4. /\ StoredTxs(With("Initialized")) \in SUBSET Tx
      /\ Ids(StoredTxs(With("Initialized"))) = With("Initialized")
      /\ StoredTxs(With("Attaching")) \in SUBSET Tx
      /\ Ids(StoredTxs(With("Attaching"))) = With("Attaching")
  BY <1>3, StoredIds
<1>5. With("WaitingMined") \cup With("Mined") \in SUBSET Txid
  OBVIOUS
<1>6. m1 \in CheckerMsg /\ m2 \in GraphMsg /\ m3 \in ConfirmMsg
  BY <1>4, <1>5, SentMessages
<1>7. /\ Names(m1, t) <=> mempool[t] = "Initialized"
      /\ Names(m2, t) <=> mempool[t] = "Attaching"
      /\ Names(m3, t) <=> mempool[t] = "WaitingMined" \/ mempool[t] = "Mined"
  <2>1. Names(m1, t) <=> t \in Ids(StoredTxs(With("Initialized")))
    BY Messages
  <2>2. Names(m2, t) <=> t \in Ids(StoredTxs(With("Attaching")))
    BY Messages
  <2>3. Names(m3, t) <=> t \in With("WaitingMined") \cup With("Mined")
    BY SMT, Messages
  <2>4. /\ Names(m1, t) <=> t \in With("Initialized")
        /\ Names(m2, t) <=> t \in With("Attaching")
    BY <1>4, <2>1, <2>2
  <2> QED
    BY <2>3, <2>4
<1>8. StageFor(m1.type) = "check" /\ StageFor(m2.type) = "attach" /\ StageFor(m3.type) = "confirm"
  BY DEF IsolatedCheck, CheckedTxs, Txs, StageFor
<1> HIDE DEF m1, m2, m3
<1>9. /\ (On(toChecker', t) <=> Names(m1, t)) /\ Once(toChecker', t, "check")
      /\ (On(toGraph', t) <=> Names(m2, t)) /\ Once(toGraph', t, "attach")
      /\ (On(toConfirm', t) <=> Names(m3, t)) /\ Once(toConfirm', t, "confirm")
  BY <1>1, <1>6, <1>8, FirstMessage
<1>10. ~On(toController', t) /\ Followed(toController', t)
  BY <1>1, EmptyOnce
<1>11. ~Waits(t)' /\ ~(t \in queue' /\ t \in expired')
  BY <1>1 DEF Waits
<1>12. /\ mempool[t] = "Initialized" => StageOf(mempool[t]) = "check"
       /\ mempool[t] = "Attaching" => StageOf(mempool[t]) = "attach"
       /\ mempool[t] = "WaitingMined" \/ mempool[t] = "Mined" => StageOf(mempool[t]) = "confirm"
  BY Stages
<1>13. /\ Once(toChecker', t, StageOf(mempool[t])) /\ Once(toGraph', t, StageOf(mempool[t]))
       /\ Once(toConfirm', t, StageOf(mempool[t])) /\ Once(toController', t, StageOf(mempool[t]))
  BY <1>7, <1>9, <1>10, <1>12, NotOn
<1>14. Alone(On(toController', t), On(toChecker', t), On(toGraph', t), On(toConfirm', t), Waits(t)')
  BY <1>7, <1>9, <1>10, <1>11 DEF Alone
<1>15. TrackedTx(t)'
  BY <1>1, <1>2, <1>10, <1>11, <1>13, <1>14 DEF TrackedTx
<1>16. mempool[t] = "None" \/ On(toChecker', t) \/ On(toGraph', t) \/ On(toConfirm', t)
  BY <1>2, <1>7, <1>9 DEF MempoolStatus
<1>17. HandedTx(t)'
  BY <1>1, <1>16 DEF HandedTx, Placed
<1>18. StageOf(mempool[t]) = "confirm" => On(toConfirm', t)
  BY <1>2, <1>7, <1>9, StatusOfStage
<1> QED
  BY <1>15, <1>17, <1>18

-----------------------------------------------------------------------------
LEMMA TrackNext ==
  \A t \in Txid :
    /\ OneTxPerId
    /\ TypeInv
    /\ Tracked
    /\ [Next]_vars
    => (TrackedTx(t)' /\ (cancelled' \/ StaysTracked(t) \/ HandedTx(t)'))

<1>Unmoved.
  ASSUME NEW t, TrackedTx(t),
         UNCHANGED <<toController, toChecker, toGraph, toConfirm, queue, expired, l1, mempool>>
  PROVE  StaysTracked(t)
  <2> USE <1>Unmoved
  <2>1. Waits(t) \/ Followed(toController', t)
    BY DEF TrackedTx
  <2> QED
    BY <2>1, SameAlike, Keeps DEF TrackedTx

(* The next message of the controller does not have t.                     *)
<1>Ignores.
  ASSUME TypeInv, NEW t, TrackedTx(t), toController # <<>>, ~Names(Head(toController), t),
         toController' = Tail(toController)
  PROVE  Alike(toController, toController', t) /\ (Waits(t) \/ Followed(toController', t))
  <2> USE <1>Ignores
  <2>1. toController \in Seq(ControllerMsg)
    BY ChannelTypes
  <2>2. Alike(toController, toController', t)
    BY <2>1, TakeAlike
  <2>3. Followed(toController, t) => Followed(toController', t)
    BY <2>1, TakeFollowed
  <2> QED
    BY <2>2, <2>3 DEF TrackedTx

(* t leaves the controller for one of the other services, or is done.      *)
<1>MovesOn.
  ASSUME TypeInv, NEW t, TrackedTx(t), toController # <<>>, Names(Head(toController), t),
         toController' = Tail(toController), UNCHANGED <<queue, expired>>,
         l1'[t] # NoRow => l1'[t].status # "InvalidIssue",
         \/ /\ UNCHANGED <<toGraph, toConfirm>>
            /\ On(toChecker', t) /\ Once(toChecker', t, StageOf(mempool'[t]))
         \/ /\ UNCHANGED <<toChecker, toConfirm>>
            /\ On(toGraph', t) /\ Once(toGraph', t, StageOf(mempool'[t]))
         \/ /\ UNCHANGED <<toChecker, toGraph>>
            /\ On(toConfirm', t) /\ Once(toConfirm', t, StageOf(mempool'[t]))
         \/ /\ UNCHANGED <<toChecker, toConfirm>>
            /\ Alike(toGraph, toGraph', t)
            /\ mempool'[t] = "None"
  PROVE  StaysTracked(t)
  <2> USE <1>MovesOn
  <2>1. /\ \A s : /\ Once(toController', t, s) /\ Once(toChecker, t, s)
                  /\ Once(toGraph, t, s) /\ Once(toConfirm, t, s)
        /\ ~On(toController', t) /\ ~On(toChecker, t) /\ ~On(toGraph, t) /\ ~On(toConfirm, t)
        /\ ~Waits(t) /\ Followed(toController', t)
    BY Leaves
  <2>2. ~Waits(t)' /\ ~(t \in queue' /\ t \in expired')
    BY <2>1 DEF Waits
  <2>3. TrackedTx(t)'
    BY <2>1, <2>2 DEF TrackedTx, Alone, Alike
  <2>4. HandedTx(t)'
    BY <2>1 DEF HandedTx, Placed
  <2> QED
    BY <2>3, <2>4 DEF StaysTracked

(* t is not touched by the message that the controller handles.            *)
<1>NotHandled.
  ASSUME TypeInv, NEW t, TrackedTx(t), toController # <<>>, ~Names(Head(toController), t),
         toController' = Tail(toController), UNCHANGED <<queue, expired>>,
         StageOf(mempool'[t]) = StageOf(mempool[t]),
         l1'[t] # NoRow => l1'[t].status # "InvalidIssue",
         Alike(toChecker, toChecker', t), Alike(toGraph, toGraph', t),
         Alike(toConfirm, toConfirm', t)
  PROVE  StaysTracked(t)
  <2> USE <1>NotHandled
  <2>1. Alike(toController, toController', t) /\ (Waits(t) \/ Followed(toController', t))
    BY <1>Ignores
  <2> QED
    BY <2>1, Keeps

<1>TrackPartiallyChecked.
  ASSUME TypeInv, Tracked, toController # <<>>, toController' = Tail(toController),
         Head(toController).type = "PartiallyCheckedTxs",
         handle_partially_checked_txs(Head(toController).txs), UNCHANGED <<queue, expired>>,
         NEW t \in Txid
  PROVE  StaysTracked(t)
  <2> USE <1>TrackPartiallyChecked
  <2> DEFINE S == Head(toController).txs
  <2>1. S \in SUBSET Txid
    BY HeadMessage
  <2>2. \A u \in Txid : Names(Head(toController), u) <=> u \in S
    BY DEF Names
  <2>3. Entries(S) = S
    BY <2>1, <2>2, HasEntry DEF Entries
  <2>4. /\ mempool' = MempoolSet(S, "WaitingMined") /\ toConfirm' = Send(toConfirm, Txs(S))
        /\ UNCHANGED <<l1, toChecker, toGraph>>
    BY <2>3 DEF handle_partially_checked_txs, MissingEntry
  <2>5. TrackedTx(t) /\ (l1'[t] # NoRow => l1'[t].status # "InvalidIssue")
    BY <2>4 DEF Tracked, TrackedTx
  <2>6. toConfirm \in Seq(ConfirmMsg) /\ Txs(S) \in ConfirmMsg
    BY <2>1, ChannelTypes, SentMessages
  <2>7. CASE t \in S
    <3>1. mempool'[t] = "WaitingMined"
      BY <2>4, <2>7, SetStatus
    <3>2. ~On(toConfirm, t)
      BY <2>2, <2>5, <2>7, Leaves
    <3>3. On(toConfirm', t) /\ Once(toConfirm', t, StageFor(Txs(S).type))
      BY <2>4, <2>6, <2>7, <3>2, SendNamed, Messages
    <3>4. StageFor(Txs(S).type) = StageOf(mempool'[t])
      BY <3>1 DEF Txs, StageFor, StageOf
    <3> QED
      BY <2>2, <2>4, <2>5, <2>7, <3>3, <3>4, <1>MovesOn
  <2>8. CASE t \notin S
    <3>1. mempool'[t] = mempool[t]
      BY <2>4, <2>8, SetStatus
    <3>2. Alike(toConfirm, toConfirm', t)
      BY <2>4, <2>6, <2>8, SendAlike, Messages
    <3> QED
      BY <2>2, <2>4, <2>5, <2>8, <3>1, <3>2, SameAlike, <1>NotHandled
  <2> QED
    BY <2>7, <2>8

<1>AttachedRow.
  ASSUME TypeInv, NEW S, l1' = WithStatus(S, "Attached"), NEW t \in Txid,
         l1[t] # NoRow => l1[t].status # "InvalidIssue"
  PROVE  l1'[t] # NoRow => l1'[t].status # "InvalidIssue"
  BY <1>AttachedRow DEF TypeInv, TypeOK, WithStatus, L1Row

<1>TrackAttached.
  ASSUME TypeInv, Tracked, toController # <<>>, toController' = Tail(toController),
         Head(toController).type = "AttachedTxs",
         handle_attached_txs(Head(toController).txs), UNCHANGED <<queue, expired>>,
         NEW t \in Txid
  PROVE  StaysTracked(t)
  <2> USE <1>TrackAttached
  <2> DEFINE S == Head(toController).txs
  <2>1. Names(Head(toController), t) <=> t \in S
    BY DEF Names
  <2>2. /\ mempool' = MempoolSet(S, "None") /\ l1' = WithStatus(S, "Attached")
        /\ UNCHANGED <<toChecker, toGraph, toConfirm>>
    BY DEF handle_attached_txs, MempoolDelete
  <2>3. TrackedTx(t) /\ (l1'[t] # NoRow => l1'[t].status # "InvalidIssue")
    BY <2>2, <1>AttachedRow DEF Tracked, TrackedTx
  <2>4. CASE t \in S
    <3>1. mempool'[t] = "None"
      BY <2>2, <2>4, SetStatus
    <3> QED
      BY <2>1, <2>2, <2>3, <2>4, <3>1, SameAlike, <1>MovesOn
  <2>5. CASE t \notin S
    <3>1. mempool'[t] = mempool[t]
      BY <2>2, <2>5, SetStatus
    <3> QED
      BY <2>1, <2>2, <2>3, <2>5, <3>1, SameAlike, <1>NotHandled
  <2> QED
    BY <2>4, <2>5

<1>TrackMined.
  ASSUME TypeInv, Tracked, toController # <<>>, toController' = Tail(toController),
         Head(toController).type = "MinedTxs",
         handle_mined_txs(Head(toController).txs), UNCHANGED <<queue, expired>>,
         NEW t \in Txid
  PROVE  StaysTracked(t)
  <2> USE <1>TrackMined
  <2> DEFINE S == Head(toController).txs
  <2>1. S \in SUBSET Txid /\ ~Names(Head(toController), t)
    <3>1. "MinedTxs" \notin {"InitializeTxs", "FullyCheckedTxs"}
      OBVIOUS
    <3>2. ~Names(Head(toController), t)
      BY DEF Names
    <3> QED
      BY <3>1, <3>2, HeadMessage
  <2>2. \A u \in S : StageOf(mempool[u]) = "confirm" /\ mempool[u] # "None"
    BY <2>1, MinedHasEntry DEF Mines
  <2>3. Entries(S) = S
    BY <2>2 DEF Entries
  <2>4. mempool' = MempoolSet(S, "Mined") /\ UNCHANGED <<l1, toChecker, toGraph, toConfirm>>
    BY <2>3 DEF handle_mined_txs, MissingEntry
  <2>5. StageOf(mempool'[t]) = StageOf(mempool[t])
    <3>1. CASE t \in S
      <4>1. mempool'[t] = "Mined"
        BY <2>4, <3>1, SetStatus
      <4> QED
        BY <2>2, <3>1, <4>1, Stages
    <3>2. CASE t \notin S
      <4>1. mempool'[t] = mempool[t]
        BY <2>4, <3>2, SetStatus
      <4> QED
        BY <4>1
    <3> QED
      BY <3>1, <3>2
  <2>6. TrackedTx(t) /\ (l1'[t] # NoRow => l1'[t].status # "InvalidIssue")
    BY <2>4 DEF Tracked, TrackedTx
  <2> QED
    BY <2>1, <2>4, <2>5, <2>6, SameAlike, <1>NotHandled

<1>TrackConfirmed.
  ASSUME TypeInv, Tracked, toController # <<>>, toController' = Tail(toController),
         Head(toController).type = "ConfirmedTxs",
         handle_confirmed_txs(Head(toController).txs), UNCHANGED <<queue, expired>>,
         NEW t \in Txid
  PROVE  StaysTracked(t)
  <2> USE <1>TrackConfirmed
  <2> DEFINE S == Head(toController).txs
             X == StoredTxs(Entries(S))
  <2>1. S \in SUBSET Txid
    <3>1. "ConfirmedTxs" \notin {"InitializeTxs", "FullyCheckedTxs"}
      OBVIOUS
    <3> QED
      BY <3>1, HeadMessage
  <2>2. \A u \in Txid : Names(Head(toController), u) <=> u \in S
    BY DEF Names
  <2>3. Entries(S) = S
    BY <2>1, <2>2, HasEntry DEF Entries
  <2>4. \A u \in S : l1[u] # NoRow /\ TxidOf[l1[u].tx] = u
    BY <2>1, <2>2, HasEntry DEF TypeInv, RowInv
  <2>5. X \in SUBSET Tx
    BY <2>1, StoredAreTxs
  <2>6. Ids(X) = S
    BY <2>1, <2>3, <2>4, StoredIds
  <2> HIDE DEF X
  <2>7. toChecker' = Send(toChecker, FullCheck(X)) /\ UNCHANGED <<l1, mempool, toGraph, toConfirm>>
    BY DEF handle_confirmed_txs, X
  <2>8. TrackedTx(t) /\ (l1'[t] # NoRow => l1'[t].status # "InvalidIssue")
    BY <2>7 DEF Tracked, TrackedTx
  <2>9. toChecker \in Seq(CheckerMsg) /\ FullCheck(X) \in CheckerMsg
    BY <2>5, ChannelTypes, SentMessages
  <2>10. Names(FullCheck(X), t) <=> t \in S
    BY <2>6, Messages
  <2>11. CASE t \in S
    <3>1. ~On(toChecker, t) /\ StageOf(mempool[t]) = StageFor("ConfirmedTxs")
      BY <2>2, <2>8, <2>11, Leaves
    <3>2. On(toChecker', t) /\ Once(toChecker', t, StageFor(FullCheck(X).type))
      BY <2>7, <2>9, <2>10, <2>11, <3>1, SendNamed
    <3>3. StageFor(FullCheck(X).type) = StageFor("ConfirmedTxs")
      BY DEF FullCheck, StageFor
    <3>4. StageFor(FullCheck(X).type) = StageOf(mempool'[t])
      BY <2>7, <3>1, <3>3
    <3> QED
      BY <2>2, <2>7, <2>8, <2>11, <3>2, <3>4, <1>MovesOn
  <2>12. CASE t \notin S
    <3>1. Alike(toChecker, toChecker', t)
      BY <2>7, <2>9, <2>10, <2>12, SendAlike
    <3> QED
      BY <2>2, <2>7, <2>8, <2>12, <3>1, SameAlike, <1>NotHandled
  <2> QED
    BY <2>11, <2>12

<1>TrackReorganization.
  ASSUME TypeInv, Tracked, toController # <<>>, toController' = Tail(toController),
         Head(toController).type = "Reorganization",
         handle_reorganization_txs(Head(toController).txs, Head(toController).height),
         UNCHANGED <<queue, expired>>, NEW t \in Txid
  PROVE  StaysTracked(t)
  <2> USE <1>TrackReorganization
  <2> DEFINE S == Head(toController).txs
  <2>1. S \in SUBSET Txid
    <3>1. "Reorganization" \notin {"InitializeTxs", "FullyCheckedTxs"}
      OBVIOUS
    <3> QED
      BY <3>1, HeadMessage
  <2>2. \A u \in Txid : Names(Head(toController), u) <=> u \in S
    BY DEF Names
  <2>3. Entries(S) = S
    BY <2>1, <2>2, HasEntry DEF Entries
  <2>4. /\ mempool' = MempoolSet(S, "WaitingMined")
        /\ toConfirm' = SendUnlessEmpty(toConfirm, Txs(S))
        /\ UNCHANGED <<l1, toChecker, toGraph>>
    BY <2>3 DEF handle_reorganization_txs, MissingEntry
  <2>5. TrackedTx(t) /\ (l1'[t] # NoRow => l1'[t].status # "InvalidIssue")
    BY <2>4 DEF Tracked, TrackedTx
  <2>6. toConfirm \in Seq(ConfirmMsg) /\ Txs(S) \in ConfirmMsg
    BY <2>1, ChannelTypes, SentMessages
  <2>7. CASE t \in S
    <3>1. mempool'[t] = "WaitingMined"
      BY <2>4, <2>7, SetStatus
    <3>2. ~On(toConfirm, t)
      BY <2>2, <2>5, <2>7, Leaves
    <3>3. On(toConfirm', t) /\ Once(toConfirm', t, StageFor(Txs(S).type))
      BY <2>4, <2>6, <2>7, <3>2, SendNamed, Messages
    <3>4. StageFor(Txs(S).type) = StageOf(mempool'[t])
      BY <3>1 DEF Txs, StageFor, StageOf
    <3> QED
      BY <2>2, <2>4, <2>5, <2>7, <3>3, <3>4, <1>MovesOn
  <2>8. CASE t \notin S
    <3>1. mempool'[t] = mempool[t]
      BY <2>4, <2>8, SetStatus
    <3>2. Alike(toConfirm, toConfirm', t)
      BY <2>4, <2>6, <2>8, SendAlike, Messages
    <3> QED
      BY <2>2, <2>4, <2>5, <2>8, <3>1, <3>2, SameAlike, <1>NotHandled
  <2> QED
    BY <2>7, <2>8

<1>TrackFullyChecked.
  ASSUME OneTxPerId, TypeInv, Tracked, toController # <<>>, toController' = Tail(toController),
         Head(toController).type = "FullyCheckedTxs",
         handle_fully_checked_txs(Head(toController).txs), UNCHANGED <<queue, expired>>,
         NEW t \in Txid
  PROVE  StaysTracked(t)
  <2> USE <1>TrackFullyChecked
  <2> DEFINE X == Head(toController).txs
             announcements == {x \in X : IsAnnouncement(x)}
             others == X \ announcements
  <2>1. X \in SUBSET Tx
    BY HeadMessage
  <2>2. \A u \in Txid : Names(Head(toController), u) <=> u \in Ids(X)
    BY DEF Names
  <2>3. /\ \A x \in X : TxidOf[x] \in Txid
        /\ \A u : u \in Ids(X) <=> u \in Ids(announcements) \/ u \in Ids(others)
        /\ \A u : ~(u \in Ids(announcements) /\ u \in Ids(others))
    <3>1. \A x \in X : TxidOf[x] \in Txid
      BY <2>1, TxAssumption
    <3>2. \A u : u \in Ids(X) <=> u \in Ids(announcements) \/ u \in Ids(others)
      BY DEF Ids
    <3>3. \A u : ~(u \in Ids(announcements) /\ u \in Ids(others))
      BY <2>1 DEF Ids, OneTxPerId
    <3> QED
      BY <3>1, <3>2, <3>3
  <2>4. \A u \in Ids(others) : u \in Txid /\ mempool[u] # "None"
    BY <2>2, <2>3, HasEntry DEF Ids
  <2>5. Entries(Ids(others)) = Ids(others)
    BY <2>4 DEF Entries
  <2>6. /\ mempool' = [u \in Txid |-> IF u \in Ids(announcements) THEN "None"
                                      ELSE IF u \in Ids(others) THEN "Attaching"
                                      ELSE mempool[u]]
        /\ l1' = WithStatus(Ids(announcements), "Attached")
        /\ toGraph' = SendUnlessEmpty(toGraph, CheckedTxs(others))
        /\ UNCHANGED <<toChecker, toConfirm>>
    BY <2>5 DEF handle_fully_checked_txs, MissingEntry
  <2>7. TrackedTx(t) /\ (l1'[t] # NoRow => l1'[t].status # "InvalidIssue")
    BY <2>6, <1>AttachedRow DEF Tracked, TrackedTx
  <2>8. toGraph \in Seq(GraphMsg) /\ CheckedTxs(others) \in GraphMsg
    <3>1. others \in SUBSET Tx
      BY <2>1
    <3> QED
      BY <3>1, ChannelTypes, SentMessages
  <2>9. Names(CheckedTxs(others), t) <=> t \in Ids(others)
    BY Messages
  <2> HIDE DEF announcements, others, X
  <2>10. CASE t \in Ids(announcements)
    <3>1. mempool'[t] = "None"
      BY <2>6, <2>10
    <3>2. Alike(toGraph, toGraph', t)
      BY <2>3, <2>6, <2>8, <2>9, <2>10, SendAlike
    <3> QED
      BY <2>2, <2>3, <2>6, <2>7, <2>10, <3>1, <3>2, <1>MovesOn
  <2>11. CASE t \in Ids(others)
    <3>1. mempool'[t] = "Attaching"
      BY <2>3, <2>6, <2>11
    <3>2. ~On(toGraph, t)
      BY <2>2, <2>3, <2>7, <2>11, Leaves
    <3>3. On(toGraph', t) /\ Once(toGraph', t, StageFor(CheckedTxs(others).type))
      BY <2>6, <2>8, <2>9, <2>11, <3>2, SendNamed
    <3>4. StageFor(CheckedTxs(others).type) = StageOf(mempool'[t])
      BY <3>1 DEF CheckedTxs, StageFor, StageOf
    <3> QED
      BY <2>2, <2>3, <2>6, <2>7, <2>11, <3>3, <3>4, <1>MovesOn
  <2>12. CASE t \notin Ids(X)
    <3>1. mempool'[t] = mempool[t]
      BY <2>3, <2>6, <2>12
    <3>2. Alike(toGraph, toGraph', t)
      BY <2>3, <2>6, <2>8, <2>9, <2>12, SendAlike
    <3> QED
      BY <2>2, <2>6, <2>7, <2>12, <3>1, <3>2, SameAlike, <1>NotHandled
  <2> QED
    BY <2>3, <2>10, <2>11, <2>12

(* A transaction without an entry is nowhere.                              *)
<1>OutIsNowhere.
  ASSUME NEW t, TrackedTx(t), mempool[t] = "None"
  PROVE  ~Placed(t)
  <2> USE <1>OutIsNowhere
  <2>1. StageOf(mempool[t]) = "out"
    BY Stages
  <2>2. "out" # "confirm"
    OBVIOUS
  <2> QED
    BY <2>1, <2>2, Stages DEF TrackedTx, Once, On, Placed

<1>TrackNew.
  ASSUME OneTxPerId, TypeInv, Tracked, toController # <<>>, toController' = Tail(toController),
         Head(toController).type = "InitializeTxs",
         handle_new_lrc20_txs(Head(toController).txs), UNCHANGED <<queue, expired>>,
         NEW t \in Txid
  PROVE  StaysTracked(t)
  <2> USE <1>TrackNew
  <2> DEFINE X == Head(toController).txs
             new == {x \in X : IsNew(x)}
  <2>1. X \in SUBSET Tx /\ ~Names(Head(toController), t)
    <3>1. ~Names(Head(toController), t)
      BY DEF Names
    <3> QED
      BY <3>1, HeadMessage
  <2>2. /\ l1' = Inserted(new) /\ mempool' = MempoolPut(Ids(new))
        /\ toChecker' = SendUnlessEmpty(toChecker, IsolatedCheck(new))
        /\ UNCHANGED <<toGraph, toConfirm>>
    BY DEF handle_new_lrc20_txs
  <2>3. new \in SUBSET Tx /\ \A x \in new : TxidOf[x] \in Txid /\ l1[TxidOf[x]] = NoRow
    BY <2>1, NewHasNoRow
  <2> HIDE DEF new, X
  <2>4. toChecker \in Seq(CheckerMsg) /\ IsolatedCheck(new) \in CheckerMsg
    BY <2>3, ChannelTypes, SentMessages
  <2>5. Names(IsolatedCheck(new), t) <=> t \in Ids(new)
    BY Messages
  <2>6. /\ l1'[t] # NoRow => l1'[t].status # "InvalidIssue"
        /\ t \notin Ids(new) => mempool'[t] = mempool[t]
        /\ t \in Ids(new) /\ mempool[t] = "None" => mempool'[t] = "Initialized"
    <3>1. l1[t] # NoRow => l1[t].status # "InvalidIssue"
      BY DEF Tracked, TrackedTx
    <3>2. l1'[t] # NoRow => l1'[t].status # "InvalidIssue"
      BY <2>2, <3>1 DEF Inserted
    <3>3. /\ t \notin Ids(new) => mempool'[t] = mempool[t]
          /\ t \in Ids(new) /\ mempool[t] = "None" => mempool'[t] = "Initialized"
      BY <2>2 DEF MempoolPut
    <3> QED
      BY <3>2, <3>3
  <2>7. TrackedTx(t)
    BY DEF Tracked
  <2>8. CASE t \in Ids(new)
    <3>1. mempool[t] = "None" /\ mempool'[t] = "Initialized"
      BY <2>3, <2>6, <2>8 DEF Ids, TypeInv, RowInv
    <3>2. ~Placed(t)
      BY <2>7, <3>1, <1>OutIsNowhere
    <3>3. Alike(toController, toController', t) /\ Followed(toController', t)
      BY <2>1, <2>7, <3>2, <1>Ignores DEF Placed
    <3>4. On(toChecker', t) /\ Once(toChecker', t, StageFor(IsolatedCheck(new).type))
      BY <2>2, <2>4, <2>5, <2>8, <3>2, SendNamed DEF Placed
    <3>5. StageFor(IsolatedCheck(new).type) = StageOf(mempool'[t])
      BY <3>1 DEF IsolatedCheck, StageFor, StageOf
    <3>6. ~On(toController', t) /\ ~On(toGraph', t) /\ ~On(toConfirm', t)
      BY <2>2, <3>2, <3>3 DEF Placed, Alike
    <3>7. ~Waits(t)' /\ ~(t \in queue' /\ t \in expired')
      BY <3>2 DEF Placed, Waits
    <3>8. TrackedTx(t)'
      BY <2>6, <3>3, <3>4, <3>5, <3>6, <3>7, NotOn DEF TrackedTx, Alone
    <3>9. HandedTx(t)'
      BY <3>4 DEF HandedTx, Placed
    <3> QED
      BY <3>8, <3>9 DEF StaysTracked
  <2>9. CASE t \notin Ids(new)
    <3>1. Alike(toChecker, toChecker', t)
      BY <2>2, <2>4, <2>5, <2>9, SendAlike
    <3> QED
      BY <2>1, <2>2, <2>6, <2>7, <2>9, <3>1, SameAlike, <1>NotHandled
  <2> QED
    BY <2>8, <2>9

<1>TrackControllerStep.
  ASSUME OneTxPerId, TypeInv, Tracked, ControllerStep, NEW t \in Txid
  PROVE  StaysTracked(t)
  <2> USE <1>TrackControllerStep
  <2>1. toController # <<>> /\ toController' = Tail(toController) /\ UNCHANGED <<queue, expired>>
    BY DEF ControllerStep, ControllerEvent, confirmatorVars
  <2>2. Head(toController).type \in
          {"InitializeTxs", "PartiallyCheckedTxs", "FullyCheckedTxs", "MinedTxs",
           "ConfirmedTxs", "Reorganization", "AttachedTxs"}
    BY <2>1, HeadMessage
  <2> USE DEF ControllerStep, ControllerEvent
  <2>3. CASE Head(toController).type = "InitializeTxs"
    <3>1. handle_new_lrc20_txs(Head(toController).txs)
      BY <2>3
    <3> QED
      BY <2>1, <2>3, <3>1, <1>TrackNew
  <2>4. CASE Head(toController).type = "PartiallyCheckedTxs"
    <3>1. handle_partially_checked_txs(Head(toController).txs)
      BY <2>4
    <3> QED
      BY <2>1, <2>4, <3>1, <1>TrackPartiallyChecked
  <2>5. CASE Head(toController).type = "FullyCheckedTxs"
    <3>1. handle_fully_checked_txs(Head(toController).txs)
      BY <2>5
    <3> QED
      BY <2>1, <2>5, <3>1, <1>TrackFullyChecked
  <2>6. CASE Head(toController).type = "MinedTxs"
    <3>1. handle_mined_txs(Head(toController).txs)
      BY <2>6
    <3> QED
      BY <2>1, <2>6, <3>1, <1>TrackMined
  <2>7. CASE Head(toController).type = "ConfirmedTxs"
    <3>1. handle_confirmed_txs(Head(toController).txs)
      BY <2>7
    <3> QED
      BY <2>1, <2>7, <3>1, <1>TrackConfirmed
  <2>8. CASE Head(toController).type = "Reorganization"
    <3>1. handle_reorganization_txs(Head(toController).txs, Head(toController).height)
      BY <2>8
    <3> QED
      BY <2>1, <2>8, <3>1, <1>TrackReorganization
  <2>9. CASE Head(toController).type = "AttachedTxs"
    <3>1. handle_attached_txs(Head(toController).txs)
      BY <2>9
    <3> QED
      BY <2>1, <2>9, <3>1, <1>TrackAttached
  <2> QED
    BY <2>2, <2>3, <2>4, <2>5, <2>6, <2>7, <2>8, <2>9

<1>TrackSubmit.
  ASSUME TypeInv, Tracked, NEW x \in Tx, Submit(x), NEW t \in Txid
  PROVE  StaysTracked(t)
  <2> USE <1>TrackSubmit
  <2>1. /\ toController \in Seq(ControllerMsg) /\ InitializeTxs({x}) \in ControllerMsg
        /\ toController' = Send(toController, InitializeTxs({x}))
    BY ChannelTypes, SentMessages DEF Submit
  <2>2. UNCHANGED <<toChecker, toGraph, toConfirm, queue, expired, l1, mempool>> /\ TrackedTx(t)
    BY DEF Submit, storage, confirmatorVars, Tracked
  <2>3. Alike(toController, toController', t)
    BY <2>1, Messages, SendAlike
  <2>4. Waits(t) \/ Followed(toController', t)
    BY <2>1, <2>2, NotMined, SendFollowed DEF TrackedTx
  <2> QED
    BY <2>2, <2>3, <2>4, SameAlike, Keeps DEF TrackedTx

(* A service hands t back to the controller.                               *)
<1>HandsBack.
  ASSUME TypeInv, NEW t, TrackedTx(t), UNCHANGED <<l1, mempool, queue, expired, toConfirm>>,
         NEW m \in ControllerMsg, ~Mines(m, t),
         toController' \in {Send(toController, m), SendUnlessEmpty(toController, m)},
         NEW M, NEW ch \in Seq(M), ch # <<>>,
         \/ ch = toChecker /\ toChecker' = Tail(ch) /\ UNCHANGED toGraph
         \/ ch = toGraph /\ toGraph' = Tail(ch) /\ UNCHANGED toChecker,
         Names(m, t) <=> Names(Head(ch), t), StageFor(m.type) = StageFor(Head(ch).type)
  PROVE  StaysTracked(t)
  <2> USE <1>HandsBack
  <2>1. toController \in Seq(ControllerMsg)
    BY ChannelTypes
  <2>2. Waits(t)' <=> Waits(t)
    BY DEF Waits
  <2>3. CASE Names(m, t)
    <3>1. On(ch, t) /\ ~On(Tail(ch), t) /\ StageFor(m.type) = StageOf(mempool[t])
      BY <2>3, TakeOnce DEF TrackedTx
    <3>2. /\ ~On(toController, t) /\ ~Waits(t) /\ ~On(toConfirm, t)
          /\ ~On(toChecker', t) /\ ~On(toGraph', t)
      BY <3>1 DEF TrackedTx, Alone
    <3>3. On(toController', t) /\ Once(toController', t, StageOf(mempool[t]))
      BY <2>1, <2>3, <3>1, <3>2, SendNamed
    <3>4. Followed(toController', t)
      BY <2>1, <3>2, SendFollowed DEF TrackedTx
    <3>5. TrackedTx(t)'
      BY <2>2, <3>2, <3>3, <3>4, NotOn DEF TrackedTx, Alone
    <3>6. HandedTx(t)'
      BY <3>3 DEF HandedTx, Placed
    <3> QED
      BY <3>5, <3>6 DEF StaysTracked
  <2>4. CASE ~Names(m, t)
    <3>1. Alike(toController, toController', t) /\ Alike(ch, Tail(ch), t)
      BY <2>1, <2>4, SendAlike, TakeAlike
    <3>2. Waits(t) \/ Followed(toController', t)
      BY <2>1, SendFollowed DEF TrackedTx
    <3>3. Alike(toChecker, toChecker', t) /\ Alike(toGraph, toGraph', t) /\ Alike(toConfirm, toConfirm', t)
      BY <3>1, SameAlike
    <3> QED
      BY <3>1, <3>2, <3>3, Keeps DEF TrackedTx
  <2> QED
    BY <2>3, <2>4

<1>TrackCheckerAccepts.
  ASSUME TypeInv, Tracked, CheckerAccepts, NEW t \in Txid
  PROVE  StaysTracked(t)
  <2> USE <1>TrackCheckerAccepts
  <2> DEFINE m == Head(toChecker)
             answer == IF m.type = "FullCheck" THEN FullyCheckedTxs(m.txs)
                       ELSE PartiallyCheckedTxs(Ids(m.txs))
  <2>1. /\ toChecker # <<>> /\ toController' = SendUnlessEmpty(toController, answer)
        /\ toChecker' = Tail(toChecker) /\ toChecker \in Seq(CheckerMsg)
        /\ UNCHANGED <<l1, mempool, queue, expired, toConfirm, toGraph>> /\ TrackedTx(t)
    BY ChannelTypes DEF CheckerAccepts, storage, confirmatorVars, Tracked
  <2>2. m \in CheckerMsg
    BY <2>1, HeadTailTyped
  <2>3. m.type \in {"IsolatedCheck", "FullCheck"} /\ m.txs \in SUBSET Tx
    BY <2>2 DEF CheckerMsg
  <2>4. Ids(m.txs) \in SUBSET Txid
    BY <2>3, TxAssumption DEF Ids
  <2>5. answer \in ControllerMsg /\ ~Mines(answer, t)
    BY <2>3, <2>4, SentMessages, NotMined
  <2>6. Names(answer, t) <=> Names(m, t)
    BY <2>3 DEF Names, FullyCheckedTxs, PartiallyCheckedTxs
  <2>7. StageFor(answer.type) = StageFor(m.type)
    BY <2>3 DEF StageFor, FullyCheckedTxs, PartiallyCheckedTxs
  <2> HIDE DEF answer
  <2> QED
    BY <2>1, <2>5, <2>6, <2>7, <1>HandsBack

<1>TrackGraphBuilderAttaches.
  ASSUME TypeInv, Tracked, GraphBuilderAttaches, NEW t \in Txid
  PROVE  StaysTracked(t)
  <2> USE <1>TrackGraphBuilderAttaches
  <2> DEFINE m == Head(toGraph)
             answer == AttachedTxs(Ids(m.txs))
  <2>1. /\ toGraph # <<>> /\ toController' = Send(toController, answer)
        /\ toGraph' = Tail(toGraph) /\ toGraph \in Seq(GraphMsg)
        /\ UNCHANGED <<l1, mempool, queue, expired, toConfirm, toChecker>> /\ TrackedTx(t)
    BY ChannelTypes DEF GraphBuilderAttaches, storage, confirmatorVars, Tracked
  <2>2. m \in GraphMsg
    BY <2>1, HeadTailTyped
  <2>3. m.type = "CheckedTxs" /\ m.txs \in SUBSET Tx
    BY <2>2 DEF GraphMsg
  <2>4. Ids(m.txs) \in SUBSET Txid
    BY <2>3, TxAssumption DEF Ids
  <2>5. answer \in ControllerMsg /\ ~Mines(answer, t)
    BY <2>4, SentMessages, NotMined
  <2>6. Names(answer, t) <=> Names(m, t)
    BY <2>3 DEF Names, AttachedTxs
  <2>7. StageFor(answer.type) = StageFor(m.type)
    BY <2>3 DEF StageFor, AttachedTxs
  <2> HIDE DEF answer
  <2> QED
    BY <2>1, <2>5, <2>6, <2>7, <1>HandsBack

<1>TrackIndexer.
  ASSUME TypeInv, Tracked, IndexerStep \/ IndexerFault, NEW t \in Txid
  PROVE  StaysTracked(t)
  <2> USE <1>TrackIndexer
  <2>1. UNCHANGED <<toController, toChecker, toGraph, l1, mempool, queue, expired>> /\ TrackedTx(t)
    BY DEF IndexerStep, IndexerFault, storage, confirmatorVars, Tracked
  <2>2. toConfirm' = toConfirm \/ \E b : toConfirm' = Append(toConfirm, BlockMsg(b))
    BY DEF IndexerStep, IndexerFault, InitStarts, init_blocks_handle, InitFinishes,
                 handle_new_blocks, IndexerEvent, handle_reorganization, InitRetries, LoaderFails,
                 StartPolling, UpdateStateFails, index_block, Send
  <2>3. Alike(toConfirm, toConfirm', t)
    <3>1. CASE toConfirm' = toConfirm
      BY <3>1, SameAlike
    <3>2. ASSUME NEW b, toConfirm' = Append(toConfirm, BlockMsg(b)) PROVE Alike(toConfirm, toConfirm', t)
      <4> DEFINE M == ConfirmMsg \cup {BlockMsg(b)}
      <4>1. toConfirm \in Seq(ConfirmMsg)
        BY ChannelTypes
      <4>2. toConfirm \in Seq(M) /\ BlockMsg(b) \in M
        BY <4>1, SeqMono
      <4>3. ~Names(BlockMsg(b), t)
        BY DEF Names, BlockMsg
      <4> QED
        BY <3>2, <4>2, <4>3, PutAlike
    <3> QED
      BY <2>2, <3>1, <3>2
  <2> QED
    BY <2>1, <2>3, SameAlike, Keeps DEF TrackedTx

(* It hands a transaction of its queue to the controller.                  *)
<1>LeavesQueue.
  ASSUME TypeInv, NEW t, TrackedTx(t), t \in queue, t \notin queue',
         UNCHANGED <<l1, mempool, expired, toChecker, toGraph>>,
         Alike(toConfirm, toConfirm', t),
         NEW ch \in Seq(ControllerMsg), Alike(toController, ch, t),
         NEW m \in ControllerMsg, Names(m, t), ~Mines(m, t), StageFor(m.type) = "confirm",
         toController' = Append(ch, m)
  PROVE  StaysTracked(t)
  <2> USE <1>LeavesQueue
  <2>1. /\ Waits(t) /\ t \notin expired /\ StageOf(mempool[t]) = "confirm"
        /\ ~On(toController, t) /\ ~On(toChecker, t) /\ ~On(toGraph, t) /\ ~On(toConfirm, t)
    BY DEF TrackedTx, Alone, Waits
  <2>2. ~Waits(t)'
    BY <2>1 DEF Waits
  <2>3. ~On(ch, t) /\ ~On(toConfirm', t)
    BY <2>1 DEF Alike
  <2>4. On(toController', t) /\ Once(toController', t, "confirm")
    BY <2>3, SendNamed DEF Send
  <2>5. Followed(toController', t)
    BY PutFollowed
  <2>6. TrackedTx(t)'
    BY <2>1, <2>2, <2>3, <2>4, <2>5, NotOn DEF TrackedTx, Alone
  <2>7. HandedTx(t)'
    BY <2>4 DEF HandedTx, Placed
  <2> QED
    BY <2>6, <2>7 DEF StaysTracked

<1>TrackExtendWindow.
  ASSUME TypeInv, Tracked, NEW b, ExtendWindow(b), NEW t \in Txid,
         UNCHANGED <<l1, mempool, expired, toChecker, toGraph>>,
         Alike(toConfirm, toConfirm', t)
  PROVE  StaysTracked(t)
  <2> USE <1>TrackExtendWindow
  <2> DEFINE window == Append(latest_blocks, b)
             mined  == extract_waiting_txs_from_block(b)
             conf   == IF Len(window) = confirmations_number
                       THEN extract_waiting_txs_from_block(Head(window)) ELSE {}
             ch     == SendUnlessEmpty(toController, MinedTxs(mined))
  <2>1. queue' = queue \ conf /\ toController' = SendUnlessEmpty(ch, ConfirmedTxs(conf))
    BY DEF ExtendWindow
  <2>2. queue \in SUBSET Txid /\ toController \in Seq(ControllerMsg) /\ TrackedTx(t)
    BY DEF TypeInv, TypeOK, Tracked
  <2>3. mined \subseteq queue /\ conf \subseteq queue
    BY DEF extract_waiting_txs_from_block
  <2>4. MinedTxs(mined) \in ControllerMsg /\ ConfirmedTxs(conf) \in ControllerMsg
    BY <2>2, <2>3, SentMessages
  <2> HIDE DEF window, mined, conf
  <2>5. ch \in Seq(ControllerMsg) /\ Alike(toController, ch, t)
    BY <2>2, <2>4, SendTyped, SendAlike, Messages
  <2>6. Waits(t) \/ Followed(ch, t)
    <3>1. CASE t \in queue
      BY <3>1 DEF Waits
    <3>2. CASE t \notin queue
      BY <2>2, <2>3, <2>4, <3>2, NotMined, SendFollowed DEF TrackedTx
    <3> QED
      BY <3>1, <3>2
  <2> HIDE DEF ch
  <2>7. CASE t \in conf
    <3>1. Names(ConfirmedTxs(conf), t) /\ ~Mines(ConfirmedTxs(conf), t)
      BY <2>7, Messages, NotMined
    <3>2. ConfirmedTxs(conf).txs # {} /\ StageFor(ConfirmedTxs(conf).type) = "confirm"
      BY <2>7 DEF ConfirmedTxs, StageFor
    <3>3. toController' = Append(ch, ConfirmedTxs(conf))
      BY <2>1, <3>2 DEF SendUnlessEmpty, Send
    <3>4. t \in queue /\ t \notin queue'
      BY <2>1, <2>3, <2>7
    <3> QED
      BY <2>2, <2>4, <2>5, <3>1, <3>2, <3>3, <3>4, <1>LeavesQueue
  <2>8. CASE t \notin conf
    <3>1. Alike(ch, toController', t)
      BY <2>1, <2>4, <2>5, <2>8, Messages, SendAlike
    <3>2. Alike(toController, toController', t)
      BY <2>5, <3>1 DEF Alike
    <3>3. Waits(t) \/ Followed(toController', t)
      BY <2>1, <2>4, <2>5, <2>6, NotMined, SendFollowed
    <3>4. t \in queue' <=> t \in queue
      BY <2>1, <2>8
    <3> QED
      BY <2>2, <3>2, <3>3, <3>4, SameAlike, Keeps DEF TrackedTx
  <2> QED
    BY <2>7, <2>8

<1>TrackReorg.
  ASSUME TypeInv, Tracked, NEW b \in Block, handle_reorg(b), NEW t \in Txid,
         UNCHANGED <<l1, mempool, expired, toChecker, toGraph>>,
         Alike(toConfirm, toConfirm', t)
  PROVE  StaysTracked(t)
  <2> USE <1>TrackReorg
  <2>1. queue \in SUBSET Txid /\ toController \in Seq(ControllerMsg) /\ TrackedTx(t)
    BY DEF TypeInv, TypeOK, Tracked
  <2>2. CASE ForkIsKnown(b)
    <3> DEFINE S == OrphanTxs(b)
               h == Height[b] - 1 - OrphansOf(b)
               m == Reorganization(S, h)
    <3>1. queue' = queue \ S /\ toController' = Append(toController, m)
      BY <2>2 DEF handle_reorg, Send
    <3>2. S \subseteq queue
      BY DEF OrphanTxs, extract_waiting_txs_from_block
    <3>3. h \in Nat
      <4>1. OrphansOf(b) \in 0..(Depth - 1) /\ OrphansOf(b) < Height[b]
        BY <2>2, OrphansAreFewest
      <4>2. Height[b] \in Nat
        BY TreeAssumption
      <4> QED
        BY SMT, <4>1, <4>2
    <3>4. m \in ControllerMsg
      BY <2>1, <3>2, <3>3, SentMessages
    <3> HIDE DEF S, h
    <3>5. ~Mines(m, t) /\ (Names(m, t) <=> t \in S)
      BY Messages, NotMined
    <3>6. StageFor(m.type) = "confirm"
      BY DEF Reorganization, StageFor
    <3> HIDE DEF m
    <3>7. CASE t \in S
      <4>1. t \in queue /\ t \notin queue'
        BY <3>1, <3>2, <3>7
      <4> QED
        BY <2>1, <3>1, <3>4, <3>5, <3>6, <3>7, <4>1, SameAlike, <1>LeavesQueue
    <3>8. CASE t \notin S
      <4>1. Alike(toController, toController', t)
        BY <2>1, <3>1, <3>4, <3>5, <3>8, PutAlike
      <4>2. Waits(t) \/ Followed(toController', t)
        BY <2>1, <3>1, <3>4, <3>5, PutFollowed DEF TrackedTx
      <4>3. t \in queue' <=> t \in queue
        BY <3>1, <3>8
      <4> QED
        BY <2>1, <4>1, <4>2, <4>3, SameAlike, Keeps DEF TrackedTx
    <3> QED
      BY <3>7, <3>8
  <2>3. CASE ~ForkIsKnown(b)
    <3>1. UNCHANGED <<queue, toController>>
      BY <2>3 DEF handle_reorg
    <3> QED
      BY <2>1, <3>1, SameAlike, Keeps DEF TrackedTx
  <2> QED
    BY <2>2, <2>3

<1>TrackNewBlock.
  ASSUME TypeInv, Tracked, handle_new_block \/ BranchLookupFails, NEW t \in Txid,
         UNCHANGED <<l1, mempool, expired, toChecker, toGraph>>
  PROVE  StaysTracked(t)
  <2> USE <1>TrackNewBlock
  <2> DEFINE b == Head(toConfirm).block
  <2>1. Next1(toConfirm, "Block") /\ toConfirm' = Tail(toConfirm)
    BY DEF handle_new_block, BranchLookupFails
  <2>2. b \in known /\ Alike(toConfirm, toConfirm', t)
    BY <2>1, BlockTaken
  <2>3. b \in Block /\ TrackedTx(t)
    BY <2>2 DEF TypeInv, TypeOK, Tracked
  <2>4. CASE handle_new_block
    <3>1. handle_reorg(b) \/ ExtendWindow(b)
      BY <2>4 DEF handle_new_block
    <3> QED
      BY <2>2, <2>3, <3>1, <1>TrackReorg, <1>TrackExtendWindow
  <2>5. CASE BranchLookupFails
    <3>1. UNCHANGED <<queue, toController>>
      BY <2>5 DEF BranchLookupFails
    <3> QED
      BY <2>2, <2>3, <3>1, SameAlike, Keeps DEF TrackedTx
  <2> QED
    BY <2>4, <2>5

<1>TrackCleanUp.
  ASSUME TypeInv, Tracked, CleanUp, NEW t \in Txid
  PROVE  StaysTracked(t)
  <2> USE <1>TrackCleanUp
  <2>1. PICK old \in SUBSET queue : clean_up_waiting_txs(old) /\ expired' = expired \cup old
    BY DEF CleanUp
  <2>2. /\ UNCHANGED <<toController, toChecker, toGraph, toConfirm, l1, mempool>>
        /\ queue' = queue \ old /\ TrackedTx(t)
    BY <2>1 DEF CleanUp, clean_up_waiting_txs, storage, Tracked
  <2>3. (Waits(t)' <=> Waits(t)) /\ ~(t \in queue' /\ t \in expired')
    BY <2>1, <2>2 DEF Waits, TrackedTx
  <2>4. TrackedTx(t)' /\ (Placed(t)' <=> Placed(t))
    BY <2>2, <2>3 DEF TrackedTx, Placed, Alone
  <2> QED
    BY <2>2, <2>4 DEF StaysTracked, HandedTx

<1>OthersKeptInTxs.
  ASSUME TypeInv, Next1(toConfirm, "Txs"), NEW u \in Head(toConfirm).txs, NEW t, t # u
  PROVE  Alike(toConfirm, WithoutTx(u), t)
  <2> USE <1>OthersKeptInTxs
  <2> DEFINE rest == Head(toConfirm).txs \ {u}
             new  == <<Txs(rest)>> \o Tail(toConfirm)
  <2>1. toConfirm # <<>> /\ Head(toConfirm).type = "Txs" /\ toConfirm \in Seq(ConfirmMsg)
    BY ChannelTypes DEF Next1
  <2>2. Head(toConfirm) \in ConfirmMsg
    BY <2>1, HeadTailTyped
  <2>3. rest \in SUBSET Txid
    BY <2>1, <2>2 DEF ConfirmMsg
  <2>4. /\ Names(Head(toConfirm), t) <=> t \in rest
        /\ Names(Txs(rest), t) <=> t \in rest
        /\ Txs(rest).type = Head(toConfirm).type
    BY <2>1 DEF Names, Txs
  <2>5. Txs(rest) \in ConfirmMsg
    BY <2>3, SentMessages
  <2> HIDE DEF rest
  <2>6. CASE rest = {}
    <3>1. Alike(toConfirm, Tail(toConfirm), t)
      BY <2>1, <2>4, <2>6, TakeAlike
    <3> QED
      BY <2>6, <3>1 DEF WithoutTx, rest
  <2>7. CASE rest # {}
    <3>1. /\ Len(new) = Len(toConfirm) /\ new[1] = Txs(rest) /\ 1 \in 1..Len(toConfirm)
          /\ Head(toConfirm) = toConfirm[1]
          /\ \A i \in 1..Len(toConfirm) : i # 1 => new[i] = toConfirm[i]
      BY SMT, <2>1, <2>5, HeadReplaced
    <3> HIDE DEF new
    <3>2. \A i \in 1..Len(toConfirm) : /\ Names(new[i], t) <=> Names(toConfirm[i], t)
                                       /\ new[i].type = toConfirm[i].type
      BY <2>4, <3>1
    <3>3. Alike(toConfirm, new, t)
      BY <3>1, <3>2 DEF Alike, On, Once
    <3> QED
      BY <2>7, <3>3 DEF WithoutTx, rest, new
  <2> QED
    BY <2>6, <2>7

<1>TakenFromTxs.
  ASSUME TypeInv, Next1(toConfirm, "Txs"), NEW u \in Head(toConfirm).txs, TrackedTx(u)
  PROVE  /\ ~On(toController, u) /\ ~On(toChecker, u) /\ ~On(toGraph, u) /\ ~Waits(u)
         /\ ~On(WithoutTx(u), u) /\ ~On(Tail(toConfirm), u)
         /\ StageOf(mempool[u]) = "confirm"
  <2> USE <1>TakenFromTxs
  <2> DEFINE rest == Head(toConfirm).txs \ {u}
             new  == <<Txs(rest)>> \o Tail(toConfirm)
  <2>1. toConfirm # <<>> /\ Head(toConfirm).type = "Txs" /\ toConfirm \in Seq(ConfirmMsg)
    BY ChannelTypes DEF Next1
  <2>2. Head(toConfirm) \in ConfirmMsg
    BY <2>1, HeadTailTyped
  <2>3. rest \in SUBSET Txid
    BY <2>1, <2>2 DEF ConfirmMsg
  <2>4. Names(Head(toConfirm), u)
    BY <2>1 DEF Names
  <2>5. On(toConfirm, u) /\ ~On(Tail(toConfirm), u) /\ StageFor("Txs") = StageOf(mempool[u])
    BY <2>1, <2>4, TakeOnce DEF TrackedTx
  <2>6. ~On(toController, u) /\ ~On(toChecker, u) /\ ~On(toGraph, u) /\ ~Waits(u)
    BY <2>5 DEF TrackedTx, Alone
  <2>7. StageOf(mempool[u]) = "confirm"
    BY <2>5 DEF StageFor
  <2>8. u \notin rest
    OBVIOUS
  <2> HIDE DEF rest
  <2>9. ~Names(Txs(rest), u) /\ Txs(rest) \in ConfirmMsg
    BY <2>3, <2>8, Messages, SentMessages
  <2>10. ~On(new, u)
    <3>1. new \in Seq(ConfirmMsg) /\ new # <<>> /\ Head(new) = Txs(rest) /\ Tail(new) = Tail(toConfirm)
      BY SMT, <2>1, <2>9
    <3> HIDE DEF new
    <3> QED
      BY <2>5, <2>9, <3>1, TakeOnce
  <2>11. ~On(WithoutTx(u), u)
    BY <2>5, <2>10 DEF WithoutTx, rest, new
  <2> QED
    BY <2>5, <2>6, <2>7, <2>11

<1>SendUndisturbed.
  ASSUME NEW ch \in Seq(ControllerMsg), NEW u \in Txid
  PROVE  LET one == Send(ch, MinedTxs({u}))
             two == Send(one, ConfirmedTxs({u}))
         IN  /\ one \in Seq(ControllerMsg) /\ two \in Seq(ControllerMsg)
             /\ \A t : Alike(ch, one, t)
             /\ \A t : t # u => /\ Alike(ch, two, t)
                                /\ Followed(ch, t) => Followed(one, t) /\ Followed(two, t)
             /\ Followed(two, u)
             /\ ~On(ch, u) => On(two, u) /\ Once(two, u, "confirm")
  <2> USE <1>SendUndisturbed
  <2> DEFINE m1 == MinedTxs({u})
             m2 == ConfirmedTxs({u})
             one == Send(ch, m1)
             two == Send(one, m2)
  <2>1. m1 \in ControllerMsg /\ m2 \in ControllerMsg
    BY SentMessages
  <2>2. /\ \A t : ~Names(m1, t) /\ (Names(m2, t) <=> t = u)
        /\ \A t : (Mines(m1, t) <=> t = u) /\ ~Mines(m2, t)
        /\ StageFor(m2.type) = "confirm"
    BY DEF Names, Mines, MinedTxs, ConfirmedTxs, StageFor
  <2> HIDE DEF m1, m2
  <2>3. one \in Seq(ControllerMsg) /\ \A t : Alike(ch, one, t)
    BY <2>1, <2>2, SendAlike, AppendTyped DEF Send
  <2>4. \A t : t # u => (Followed(ch, t) => Followed(one, t))
    BY <2>1, <2>2, SendFollowed
  <2> HIDE DEF one
  <2>5. two \in Seq(ControllerMsg)
    BY <2>1, <2>3, AppendTyped DEF Send
  <2>6. \A t : t # u => Alike(one, two, t)
    BY <2>1, <2>2, <2>3, SendAlike
  <2>7. \A t : t # u => Alike(ch, two, t)
    BY <2>3, <2>6 DEF Alike
  <2>8. \A t : t # u => (Followed(one, t) => Followed(two, t))
    BY <2>1, <2>2, <2>3, SendFollowed
  <2>9. Followed(two, u)
    BY <2>1, <2>2, <2>3, PutFollowed DEF Send
  <2>10. ~On(ch, u) => On(two, u) /\ Once(two, u, "confirm")
    BY <2>1, <2>2, <2>3, SendNamed DEF Alike
  <2> QED
    BY <2>3, <2>4, <2>5, <2>7, <2>8, <2>9, <2>10 DEF one, m1, m2

<1>TrackTxToConfirm.
  ASSUME TypeInv, Tracked, NEW u \in Txid, handle_tx_to_confirm(u), NEW t \in Txid,
         UNCHANGED <<l1, mempool, expired, toChecker, toGraph>>
  PROVE  StaysTracked(t)
  <2> USE <1>TrackTxToConfirm
  <2> DEFINE n == Confirmations(u)
             conf == n >= confirmations_number
             one == Send(toController, MinedTxs({u}))
             two == Send(one, ConfirmedTxs({u}))
  <2>1. /\ Next1(toConfirm, "Txs") /\ u \in Head(toConfirm).txs /\ toConfirm' = WithoutTx(u)
        /\ toController \in Seq(ControllerMsg) /\ TrackedTx(t) /\ TrackedTx(u)
    BY DEF handle_tx_to_confirm, TypeInv, TypeOK, Tracked
  <2>2. \/ /\ toController' = two /\ queue' = queue \ {u}
        \/ /\ toController' \in {toController, one} /\ queue' = queue \cup {u}
    BY SMT, ConfirmationsAssumption DEF handle_tx_to_confirm
  <2>3. /\ one \in Seq(ControllerMsg) /\ two \in Seq(ControllerMsg)
        /\ \A v : Alike(toController, one, v)
        /\ \A v : v # u => /\ Alike(toController, two, v)
                           /\ Followed(toController, v) => Followed(one, v) /\ Followed(two, v)
        /\ Followed(two, u)
        /\ ~On(toController, u) => On(two, u) /\ Once(two, u, "confirm")
    BY <2>1, <1>SendUndisturbed
  <2> HIDE DEF one, two
  <2>4. CASE t = u
    <3>1. /\ ~On(toController, t) /\ ~On(toChecker, t) /\ ~On(toGraph, t) /\ ~Waits(t)
          /\ ~On(toConfirm', t) /\ StageOf(mempool[t]) = "confirm"
      BY <2>1, <2>4, <1>TakenFromTxs
    <3>2. CASE toController' = two /\ queue' = queue \ {u}
      <4>1. ~Waits(t)' /\ ~(t \in queue' /\ t \in expired')
        BY <2>4, <3>1, <3>2 DEF Waits
      <4>2. On(toController', t) /\ Once(toController', t, "confirm") /\ Followed(toController', t)
        BY <2>3, <2>4, <3>1, <3>2
      <4>3. TrackedTx(t)'
        BY <2>1, <3>1, <4>1, <4>2, NotOn DEF TrackedTx, Alone
      <4>4. HandedTx(t)'
        BY <4>2 DEF HandedTx, Placed
      <4> QED
        BY <4>3, <4>4 DEF StaysTracked
    <3>3. CASE toController' \in {toController, one} /\ queue' = queue \cup {u}
      <4>1. Waits(t)' /\ ~(t \in queue' /\ t \in expired')
        BY <2>4, <3>1, <3>3 DEF Waits
      <4>2. ~On(toController', t)
        BY <2>3, <3>1, <3>3 DEF Alike
      <4>3. TrackedTx(t)'
        BY <2>1, <3>1, <4>1, <4>2, NotOn DEF TrackedTx, Alone
      <4>4. HandedTx(t)'
        BY <4>1 DEF HandedTx, Placed
      <4> QED
        BY <4>3, <4>4 DEF StaysTracked
    <3> QED
      BY <2>2, <3>2, <3>3
  <2>5. CASE t # u
    <3>1. Alike(toConfirm, toConfirm', t)
      BY <2>1, <2>5, <1>OthersKeptInTxs
    <3>2. Alike(toController, toController', t)
      BY <2>2, <2>3, <2>5, SameAlike
    <3>3. Waits(t) \/ Followed(toController', t)
      BY <2>1, <2>2, <2>3, <2>5 DEF TrackedTx
    <3>4. t \in queue' <=> t \in queue
      BY <2>2, <2>5
    <3> QED
      BY <2>1, <3>1, <3>2, <3>3, <3>4, SameAlike, Keeps DEF TrackedTx
  <2> QED
    BY <2>4, <2>5

(* After a failed lookup the rest of the message is lost.                  *)
<1>TrackLookupFails.
  ASSUME TypeInv, Tracked, NEW u \in Txid, TxLookupFails(u), NEW t \in Txid,
         UNCHANGED <<l1, mempool, expired, toChecker, toGraph>>
  PROVE  TrackedTx(t)'
  <2> USE <1>TrackLookupFails
  <2>1. /\ Next1(toConfirm, "Txs") /\ u \in Head(toConfirm).txs /\ toConfirm' = Tail(toConfirm)
        /\ queue' = queue \cup {u} /\ UNCHANGED toController
        /\ toConfirm \in Seq(ConfirmMsg) /\ TrackedTx(t) /\ TrackedTx(u)
    BY ChannelTypes DEF TxLookupFails, Tracked
  <2>2. CASE t = u
    <3>1. /\ ~On(toController, t) /\ ~On(toChecker, t) /\ ~On(toGraph, t) /\ ~Waits(t)
          /\ ~On(toConfirm', t) /\ StageOf(mempool[t]) = "confirm"
      BY <2>1, <2>2, <1>TakenFromTxs
    <3>2. Waits(t)' /\ ~(t \in queue' /\ t \in expired')
      BY <2>1, <2>2, <3>1 DEF Waits
    <3> QED
      BY <2>1, <3>1, <3>2, NotOn DEF TrackedTx, Alone
  <2>3. CASE t # u
    <3>1. toConfirm # <<>>
      BY <2>1 DEF Next1
    <3>2. /\ On(toConfirm', t) => On(toConfirm, t)
          /\ \A s : Once(toConfirm, t, s) => Once(toConfirm', t, s)
      BY <2>1, <3>1, TakeOnce
    <3>3. (Waits(t)' <=> Waits(t)) /\ (t \in queue' <=> t \in queue)
      BY <2>1, <2>3 DEF Waits
    <3> QED
      BY <2>1, <3>2, <3>3 DEF TrackedTx, Alone
  <2> QED
    BY <2>2, <2>3

<1> SUFFICES ASSUME NEW t \in Txid, OneTxPerId, TypeInv, Tracked, [Next]_vars
             PROVE  TrackedTx(t)' /\ (cancelled' \/ StaysTracked(t) \/ HandedTx(t)')
  OBVIOUS
<1>0. TrackedTx(t)
  BY DEF Tracked
<1>1. CASE UNCHANGED vars \/ ChainStep
  <2>1. UNCHANGED <<toController, toChecker, toGraph, toConfirm, queue, expired, l1, mempool>>
    BY <1>1 DEF vars, ChainStep, channels, storage, confirmatorVars
  <2> QED
    BY <1>0, <2>1, <1>Unmoved DEF StaysTracked
<1>2. CASE \E x \in Tx : Submit(x)
  BY <1>2, <1>TrackSubmit DEF StaysTracked
<1>3. CASE CheckerAccepts
  BY <1>3, <1>TrackCheckerAccepts DEF StaysTracked
<1>4. CASE GraphBuilderAttaches
  BY <1>4, <1>TrackGraphBuilderAttaches DEF StaysTracked
<1>5. CASE ControllerStep
  BY <1>5, <1>TrackControllerStep DEF StaysTracked
<1>6. CASE ConfirmatorStep
  <2>1. UNCHANGED <<l1, mempool, expired, toChecker, toGraph>>
    BY <1>6 DEF ConfirmatorStep, storage
  <2>2. handle_new_block \/ \E u \in Txid : handle_tx_to_confirm(u)
    BY <1>6 DEF ConfirmatorStep
  <2> QED
    BY <2>1, <2>2, <1>TrackNewBlock, <1>TrackTxToConfirm DEF StaysTracked
<1>7. CASE CleanUp
  BY <1>7, <1>TrackCleanUp DEF StaysTracked
<1>8. CASE IndexerStep \/ IndexerFault
  BY <1>8, <1>TrackIndexer DEF StaysTracked
<1>9. CASE Restart
  <2>1. RestartNode
    BY <1>9 DEF Restart
  <2> QED
    BY <2>1, TrackRestart
<1>10. CASE ConfirmatorFault
  <2>1. UNCHANGED <<l1, mempool, expired, toChecker, toGraph>>
    BY <1>10 DEF ConfirmatorFault, storage
  <2>2. BranchLookupFails \/ \E u \in Txid : TxLookupFails(u)
    BY <1>10 DEF ConfirmatorFault
  <2>3. cancelled'
    BY <2>2 DEF BranchLookupFails, TxLookupFails
  <2> QED
    BY <2>1, <2>2, <2>3, <1>TrackNewBlock, <1>TrackLookupFails DEF StaysTracked
<1> QED
  BY <1>1, <1>2, <1>3, <1>4, <1>5, <1>6, <1>7, <1>8, <1>9, <1>10 DEF Next

TrackInv == TypeInv /\ Tracked /\ Handed

LEMMA TrackInit == Init => Tracked /\ Handed
<1> SUFFICES ASSUME Init PROVE Tracked /\ Handed
  OBVIOUS
<1>1. /\ toController = <<>> /\ toChecker = <<>> /\ toGraph = <<>> /\ toConfirm = <<>>
      /\ queue = {} /\ expired = {} /\ \A t \in Txid : l1[t] = NoRow /\ mempool[t] = "None"
  BY DEF Init, ChannelsInit, ConfirmatorInit, StorageInit
<1>2. \A t \in Txid : TrackedTx(t)
  BY <1>1, EmptyOnce, NotOn DEF TrackedTx, Alone, Waits
<1> QED
  BY <1>1, <1>2 DEF Tracked, Handed

LEMMA TrackInvNext == OneTxPerId /\ TrackInv /\ [Next]_vars => TrackInv'
<1> SUFFICES ASSUME OneTxPerId, TrackInv, [Next]_vars PROVE TrackInv'
  OBVIOUS
<1>1. TypeInv /\ Tracked /\ Handed
  BY DEF TrackInv
<1>2. TypeInv'
  BY <1>1, TypeNext
<1>3. Tracked'
  BY <1>1, TrackNext DEF Tracked
<1>4. Handed'
  <2> SUFFICES ASSUME ~cancelled', NEW t \in Txid PROVE HandedTx(t)'
    BY DEF Handed, HandedTx
  <2>1. StaysTracked(t) \/ HandedTx(t)'
    BY <1>1, TrackNext
  <2>2. CASE ~cancelled
    BY <1>1, <2>1, <2>2 DEF Handed, HandedTx, StaysTracked
  <2>3. CASE cancelled
    <3>1. Restart
      BY <1>1, <2>3, StopsForGood DEF vars
    <3>2. RestartNode
      BY <3>1 DEF Restart
    <3> QED
      BY <1>1, <3>2, TrackRestart
  <2> QED
    BY <2>2, <2>3
<1> QED
  BY <1>2, <1>3, <1>4 DEF TrackInv

LEMMA InChannel ==
  ASSUME NEW ch, NEW i \in 1..Len(ch), NEW t
  PROVE  /\ t \in ch[i].txs => t \in In(ch, ch[i].type)
         /\ t \in Ids(ch[i].txs) => t \in Ids(In(ch, ch[i].type))
<1>1. \A x \in ch[i].txs : x \in In(ch, ch[i].type)
  BY DEF In
<1> QED
  BY <1>1 DEF Ids

(* A transaction that is somewhere is with the service whose turn it is.   *)
LEMMA PlacedInHand ==
  ASSUME TypeInv, NEW t \in Txid, TrackedTx(t), HandedTx(t)
  PROVE  InHand(t)
<1>1. mempool[t] \in MempoolStatus
  BY DEF TypeInv, TypeOK
<1>2. CASE mempool[t] = "None"
  BY <1>2 DEF InHand
<1>3. CASE Waits(t)
  <2>1. mempool[t] \in {"WaitingMined", "Mined"}
    BY <1>1, <1>3, StatusOfStage DEF TrackedTx
  <2> QED
    BY <1>3, <2>1 DEF InHand, Waits
<1>4. CASE On(toController, t)
  <2>1. PICK i \in 1..Len(toController) : Names(toController[i], t)
    BY <1>4 DEF On
  <2> DEFINE m == toController[i]
  <2>2. StageOf(mempool[t]) = StageFor(m.type)
    BY <2>1 DEF TrackedTx, Once
  <2>3. m \in ControllerMsg
    BY SMT, ChannelTypes
  <2>4. m.type \notin {"Txs", "IsolatedCheck", "FullCheck", "CheckedTxs"}
    BY <2>3 DEF ControllerMsg
  <2>5. \/ /\ m.type \in {"PartiallyCheckedTxs", "ConfirmedTxs", "Reorganization", "AttachedTxs"}
           /\ t \in m.txs
        \/ m.type = "FullyCheckedTxs" /\ t \in Ids(m.txs)
    BY <2>1, <2>4 DEF Names
  <2>6. \/ /\ m.type \in {"PartiallyCheckedTxs", "ConfirmedTxs", "Reorganization", "AttachedTxs"}
           /\ t \in In(toController, m.type)
        \/ m.type = "FullyCheckedTxs" /\ t \in Ids(In(toController, m.type))
    BY <2>5, InChannel
  <2> HIDE DEF m
  <2> QED
    BY <1>1, <2>2, <2>6 DEF InHand, StageOf, StageFor, MempoolStatus
<1>5. CASE On(toChecker, t)
  <2>1. PICK i \in 1..Len(toChecker) : Names(toChecker[i], t)
    BY <1>5 DEF On
  <2> DEFINE m == toChecker[i]
  <2>2. StageOf(mempool[t]) = StageFor(m.type)
    BY <2>1 DEF TrackedTx, Once
  <2>3. m \in CheckerMsg
    BY SMT, ChannelTypes
  <2>4. m.type \in {"IsolatedCheck", "FullCheck"}
    BY <2>3 DEF CheckerMsg
  <2>5. t \in Ids(In(toChecker, m.type))
    BY <2>1, <2>4, InChannel DEF Names
  <2> HIDE DEF m
  <2> QED
    BY <1>1, <2>2, <2>4, <2>5 DEF InHand, StageOf, StageFor, MempoolStatus
<1>6. CASE On(toGraph, t)
  <2>1. PICK i \in 1..Len(toGraph) : Names(toGraph[i], t)
    BY <1>6 DEF On
  <2> DEFINE m == toGraph[i]
  <2>2. StageOf(mempool[t]) = StageFor(m.type)
    BY <2>1 DEF TrackedTx, Once
  <2>3. m \in GraphMsg
    BY SMT, ChannelTypes
  <2>4. m.type = "CheckedTxs"
    BY <2>3 DEF GraphMsg
  <2>5. t \in Ids(In(toGraph, m.type))
    BY <2>1, <2>4, InChannel DEF Names
  <2> HIDE DEF m
  <2> QED
    BY <1>1, <2>2, <2>4, <2>5 DEF InHand, StageOf, StageFor, MempoolStatus
<1>7. CASE On(toConfirm, t)
  <2>1. PICK i \in 1..Len(toConfirm) : Names(toConfirm[i], t)
    BY <1>7 DEF On
  <2> DEFINE m == toConfirm[i]
  <2>2. StageOf(mempool[t]) = StageFor(m.type)
    BY <2>1 DEF TrackedTx, Once
  <2>3. m \in ConfirmMsg
    BY SMT, ChannelTypes
  <2>4. m.type \in {"Txs", "Block"}
    BY <2>3 DEF ConfirmMsg
  <2>5. m.type = "Txs" /\ t \in In(toConfirm, m.type)
    BY <2>1, <2>4, InChannel DEF Names
  <2> HIDE DEF m
  <2> QED
    BY <1>1, <2>2, <2>5 DEF InHand, StageOf, StageFor, MempoolStatus
<1> QED
  BY <1>2, <1>3, <1>4, <1>5, <1>6, <1>7 DEF HandedTx, Placed

(* As long as every transaction has its own id, no mempool entry is        *)
(* forgotten while the node runs: across reorgs, restarts, timeouts and    *)
(* failed lookups it is with the service whose turn it is, or in a message *)
(* on its way to it.                                                       *)
THEOREM EveryEntryInHand ==
  ASSUME OneTxPerId
  PROVE  Spec => []NoEntryForgotten
<1>1. Init => TrackInv
  BY TypeInit, TrackInit DEF TrackInv
<1>2. TrackInv /\ [Next]_vars => TrackInv'
  BY TrackInvNext
<1>3. TrackInv => NoEntryForgotten
  BY PlacedInHand DEF TrackInv, Tracked, Handed, HandedTx, NoEntryForgotten
<1> QED
  BY <1>1, <1>2, <1>3, PTL DEF Spec

-----------------------------------------------------------------------------
(* The statuses of an entry.                                               *)

LEMMA EmptyReport == \A t : MinedBefore(<<>>, t) /\ ~InFullCheck(<<>>, t) /\ ~InWindow(<<>>, t)
BY SMT DEF MinedBefore, InFullCheck, InWindow

LEMMA ReportNames ==
  ASSUME NEW m, NEW t, Confirms(m, t) \/ FullyChecks(m, t)
  PROVE  Names(m, t) /\ StageFor(m.type) = "confirm"
BY DEF Confirms, FullyChecks, Names, StageFor

-----------------------------------------------------------------------------
(* A transaction that is not on its way from the confirmator to the graph  *)
(* builder is of no concern.                                               *)
LEMMA ElsewhereReported ==
  ASSUME NEW t, TrackedTx(t)', StageOf(mempool'[t]) # "confirm" \/ On(toConfirm', t)
  PROVE  ReportedTx(t)'
<1>1. \A i \in 1..Len(toController') :
        ~Confirms(toController'[i], t) /\ ~FullyChecks(toController'[i], t)
  BY ReportNames DEF TrackedTx, Once, Alone, On
<1>2. \A i \in 1..Len(toChecker') : ~FullyChecks(toChecker'[i], t)
  BY ReportNames DEF TrackedTx, Once, Alone, On
<1>3. t \notin queue'
  BY DEF TrackedTx, Alone, Waits
<1> QED
  BY <1>1, <1>2, <1>3 DEF ReportedTx, MinedBefore, InFullCheck

LEMMA ReportNext ==
  \A t \in Txid :
    /\ OneTxPerId
    /\ TypeInv
    /\ Tracked
    /\ [Next]_vars
    /\ TrackedTx(t)'
    /\ ReportedTx(t)
    => ((cancelled' \/ ReportedTx(t)') /\ StatusStep(t))

(* The channel of the controller when a message is sent.                   *)
<1>PutReport.
  ASSUME NEW M, NEW ch \in Seq(M), NEW m \in M, NEW t
  PROVE  /\ MinedBefore(ch, t) /\ (Confirms(m, t) => SaidMined(ch, t))
              => MinedBefore(Append(ch, m), t)
         /\ SaidMined(Append(ch, m), t) <=> SaidMined(ch, t) \/ Mines(m, t)
         /\ InFullCheck(Append(ch, m), t) <=> InFullCheck(ch, t) \/ FullyChecks(m, t)
  <2> USE <1>PutReport
  <2> DEFINE new == Append(ch, m)
             n == Len(ch) + 1
  <2>1. /\ n \in 1..Len(new) /\ new[n] = m
        /\ \A i \in 1..Len(ch) : i \in 1..Len(new) /\ new[i] = ch[i] /\ i < n
        /\ \A i \in 1..Len(new) : i \in 1..Len(ch) \/ i = n
    BY Appended
  <2> HIDE DEF new, n
  <2>2. SaidMined(new, t) <=> SaidMined(ch, t) \/ Mines(m, t)
    BY <2>1 DEF SaidMined
  <2>3. InFullCheck(new, t) <=> InFullCheck(ch, t) \/ FullyChecks(m, t)
    BY <2>1 DEF InFullCheck
  <2>4. ASSUME MinedBefore(ch, t), Confirms(m, t) => SaidMined(ch, t)
        PROVE  MinedBefore(new, t)
    <3> SUFFICES ASSUME NEW j \in 1..Len(new), Confirms(new[j], t)
                 PROVE  \E i \in 1..Len(new) : i < j /\ Mines(new[i], t)
      BY DEF MinedBefore
    <3>1. CASE j = n
      <4>1. PICK i \in 1..Len(ch) : Mines(ch[i], t)
        BY <2>1, <2>4, <3>1 DEF SaidMined
      <4> QED
        BY <2>1, <3>1, <4>1
    <3>2. CASE j \in 1..Len(ch)
      <4>1. PICK i \in 1..Len(ch) : i < j /\ Mines(ch[i], t)
        BY <2>1, <2>4, <3>2 DEF MinedBefore
      <4> QED
        BY <2>1, <4>1
    <3> QED
      BY <2>1, <3>1, <3>2
  <2> QED
    BY <2>2, <2>3, <2>4 DEF new

<1>TakeReport.
  ASSUME NEW M, NEW ch \in Seq(M), ch # <<>>, NEW t
  PROVE  /\ MinedBefore(ch, t) => ~Confirms(Head(ch), t)
         /\ MinedBefore(ch, t) /\ ~Mines(Head(ch), t) => MinedBefore(Tail(ch), t)
         /\ SaidMined(ch, t) /\ ~Mines(Head(ch), t) => SaidMined(Tail(ch), t)
         /\ InFullCheck(Tail(ch), t) => InFullCheck(ch, t)
         /\ FullyChecks(Head(ch), t) => InFullCheck(ch, t)
  <2> USE <1>TakeReport
  <2> DEFINE rest == Tail(ch)
             m == Head(ch)
  <2>1. /\ 1 \in 1..Len(ch) /\ m = ch[1]
        /\ \A i \in 1..Len(rest) : i + 1 \in 1..Len(ch) /\ rest[i] = ch[i + 1]
        /\ \A i \in 1..Len(ch) :
             i = 1 \/ (i - 1 \in 1..Len(rest) /\ rest[i - 1] = ch[i] /\ i = (i - 1) + 1)
        /\ \A i, j \in 1..Len(rest) : i + 1 < j + 1 <=> i < j
    BY SMT, Rest
  <2>2. \A i \in 1..Len(ch) : ~(i < 1)
    BY SMT
  <2> HIDE DEF rest, m
  <2>3. MinedBefore(ch, t) => ~Confirms(m, t)
    BY <2>1, <2>2 DEF MinedBefore
  <2>4. ASSUME MinedBefore(ch, t), ~Mines(m, t) PROVE MinedBefore(rest, t)
    <3> SUFFICES ASSUME NEW j \in 1..Len(rest), Confirms(rest[j], t)
                 PROVE  \E i \in 1..Len(rest) : i < j /\ Mines(rest[i], t)
      BY DEF MinedBefore
    <3>1. PICK i \in 1..Len(ch) : i < j + 1 /\ Mines(ch[i], t)
      BY <2>1, <2>4 DEF MinedBefore
    <3>2. i # 1
      BY <2>1, <2>4, <3>1
    <3>3. i - 1 \in 1..Len(rest) /\ rest[i - 1] = ch[i] /\ i = (i - 1) + 1
      BY <2>1, <3>2
    <3>4. i - 1 < j
      BY <2>1, <3>1, <3>3
    <3> QED
      BY <3>1, <3>3, <3>4
  <2>5. SaidMined(ch, t) /\ ~Mines(m, t) => SaidMined(rest, t)
    BY <2>1 DEF SaidMined
  <2>6. InFullCheck(rest, t) => InFullCheck(ch, t)
    BY <2>1 DEF InFullCheck
  <2>7. FullyChecks(m, t) => InFullCheck(ch, t)
    BY <2>1 DEF InFullCheck
  <2> QED
    BY <2>3, <2>4, <2>5, <2>6, <2>7 DEF rest, m

<1>SendReport.
  ASSUME NEW M, NEW ch \in Seq(M), NEW m \in M, NEW t, NEW new,
         new \in {Send(ch, m), SendUnlessEmpty(ch, m)}
  PROVE  /\ MinedBefore(ch, t) /\ (Confirms(m, t) => SaidMined(ch, t)) => MinedBefore(new, t)
         /\ SaidMined(ch, t) => SaidMined(new, t)
         /\ Mines(m, t) => SaidMined(new, t)
         /\ InFullCheck(new, t) => InFullCheck(ch, t) \/ FullyChecks(m, t)
  <2> USE <1>SendReport
  <2>1. new = Append(ch, m) \/ (new = ch /\ m.txs = {})
    BY DEF Send, SendUnlessEmpty
  <2>2. CASE new = Append(ch, m)
    BY <2>2, <1>PutReport
  <2>3. CASE new = ch /\ m.txs = {}
    BY <2>3 DEF Mines
  <2> QED
    BY <2>1, <2>2, <2>3

<1>ReportMessages.
  ASSUME NEW S, NEW t
  PROVE  /\ ~Confirms(InitializeTxs(S), t) /\ ~Confirms(MinedTxs(S), t)
         /\ ~Confirms(PartiallyCheckedTxs(S), t) /\ ~Confirms(AttachedTxs(S), t)
         /\ ~Confirms(FullyCheckedTxs(S), t) /\ \A h : ~Confirms(Reorganization(S, h), t)
         /\ Confirms(ConfirmedTxs(S), t) <=> t \in S
         /\ ~FullyChecks(InitializeTxs(S), t) /\ ~FullyChecks(MinedTxs(S), t)
         /\ ~FullyChecks(PartiallyCheckedTxs(S), t) /\ ~FullyChecks(AttachedTxs(S), t)
         /\ ~FullyChecks(ConfirmedTxs(S), t) /\ \A h : ~FullyChecks(Reorganization(S, h), t)
         /\ ~FullyChecks(IsolatedCheck(S), t)
         /\ FullyChecks(FullyCheckedTxs(S), t) <=> t \in Ids(S)
         /\ FullyChecks(FullCheck(S), t) <=> t \in Ids(S)
  BY <1>ReportMessages DEF InitializeTxs, PartiallyCheckedTxs, FullyCheckedTxs, MinedTxs, ConfirmedTxs, AttachedTxs,
         Reorganization, IsolatedCheck, FullCheck, Confirms, FullyChecks

<1>DroppedStays.
  ASSUME NEW t, DroppedByReorg(t), known \subseteq known'
  PROVE  DroppedByReorg(t)'
  BY <1>DroppedStays DEF DroppedByReorg

<1>SaysMinedStays.
  ASSUME NEW t, known \subseteq known', mempool[t] = "Mined" => mempool'[t] = "Mined"
  PROVE  SaysMined(t) => SaysMined(t)'
  BY <1>SaysMinedStays, <1>DroppedStays DEF SaysMined

<1>ReportKeeps.
  ASSUME NEW t, ReportedTx(t), SaysMined(t) => SaysMined(t)',
         MinedBefore(toController, t) => SaysMined(t)' \/ MinedBefore(toController', t),
         InFullCheck(toChecker', t) =>
           SaysMined(t)' \/ InFullCheck(toChecker, t) \/ InFullCheck(toController, t),
         InFullCheck(toController', t) =>
           SaysMined(t)' \/ InFullCheck(toChecker, t) \/ InFullCheck(toController, t),
         SaidMined(toController, t) => SaysMined(t)' \/ SaidMined(toController', t),
         t \in queue' /\ InWindow(latest_blocks', t) =>
           \/ SaysMined(t)' \/ SaidMined(toController', t)
           \/ t \in queue /\ InWindow(latest_blocks, t)
  PROVE  ReportedTx(t)'
  BY <1>ReportKeeps DEF ReportedTx

<1>MinedIsReported. ASSUME NEW t, SaysMined(t)' PROVE ReportedTx(t)'
  BY <1>MinedIsReported DEF ReportedTx

<1>ReportIgnored.
  ASSUME TypeInv, NEW t, ReportedTx(t), toController # <<>>, toController' = Tail(toController),
         ~Mines(Head(toController), t), mempool'[t] = mempool[t],
         InFullCheck(toChecker', t) => InFullCheck(toChecker, t),
         UNCHANGED <<known, queue, latest_blocks>>
  PROVE  ReportedTx(t)' /\ StatusStep(t)
  <2> USE <1>ReportIgnored
  <2>1. toController \in Seq(ControllerMsg)
    BY ChannelTypes
  <2>2. SaysMined(t) => SaysMined(t)'
    BY <1>SaysMinedStays
  <2>3. /\ MinedBefore(toController, t) => MinedBefore(toController', t)
        /\ SaidMined(toController, t) => SaidMined(toController', t)
        /\ InFullCheck(toController', t) => InFullCheck(toController, t)
    BY <2>1, <1>TakeReport
  <2> QED
    BY <2>2, <2>3, <1>ReportKeeps DEF StatusStep

(* The entries of what the controller is handed are there.                 *)
<1>HandedEntries.
  ASSUME TypeInv, Tracked, toController # <<>>,
         Head(toController).type \in {"PartiallyCheckedTxs", "Reorganization", "MinedTxs",
                                      "ConfirmedTxs", "AttachedTxs"}
  PROVE  /\ Head(toController).txs \in SUBSET Txid
         /\ Entries(Head(toController).txs) = Head(toController).txs
  <2> USE <1>HandedEntries
  <2> DEFINE S == Head(toController).txs
  <2>1. Head(toController).type \notin {"InitializeTxs", "FullyCheckedTxs"}
    OBVIOUS
  <2>2. S \in SUBSET Txid
    BY <2>1, HeadMessage
  <2>3. \A u \in S : Names(Head(toController), u) \/ Mines(Head(toController), u)
    BY DEF Names, Mines
  <2>4. \A u \in S : mempool[u] # "None"
    BY <2>2, <2>3, HasEntry, MinedHasEntry
  <2> QED
    BY <2>2, <2>4 DEF Entries

(* PartiallyCheckedTxs and Reorganization: on to the confirmator.          *)
<1>ReportToConfirm.
  ASSUME TypeInv, Tracked, NEW t \in Txid, TrackedTx(t)', ReportedTx(t),
         toController # <<>>, toController' = Tail(toController),
         UNCHANGED <<known, queue, latest_blocks>>,
         \/ /\ Head(toController).type = "PartiallyCheckedTxs"
            /\ handle_partially_checked_txs(Head(toController).txs)
         \/ /\ Head(toController).type = "Reorganization"
            /\ handle_reorganization_txs(Head(toController).txs, Head(toController).height)
  PROVE  ReportedTx(t)' /\ StatusStep(t)
  <2> USE <1>ReportToConfirm
  <2> DEFINE m == Head(toController)
             S == m.txs
  <2>1. S \in SUBSET Txid /\ Entries(S) = S
    BY <1>HandedEntries
  <2>2. /\ mempool' = MempoolSet(S, "WaitingMined") /\ UNCHANGED toChecker
        /\ toConfirm' \in {Send(toConfirm, Txs(S)), SendUnlessEmpty(toConfirm, Txs(S))}
    BY <2>1 DEF handle_partially_checked_txs, handle_reorganization_txs, MissingEntry
  <2>3. (Names(m, t) <=> t \in S) /\ ~Mines(m, t)
    BY DEF Names, Mines
  <2>4. toConfirm \in Seq(ConfirmMsg) /\ Txs(S) \in ConfirmMsg /\ mempool[t] \in MempoolStatus
    BY <2>1, ChannelTypes, SentMessages DEF TypeInv, TypeOK
  <2>5. CASE t \in S
    <3>1. mempool'[t] = "WaitingMined"
      BY <2>2, <2>5, SetStatus
    <3>2. ~On(toConfirm, t)
      BY <2>3, <2>5, Leaves DEF Tracked
    <3>3. On(toConfirm', t)
      <4>1. Names(Txs(S), t)
        BY <2>5, Messages
      <4>2. On(Send(toConfirm, Txs(S)), t) /\ On(SendUnlessEmpty(toConfirm, Txs(S)), t)
        BY <2>4, <3>2, <4>1, SendNamed
      <4> QED
        BY <2>2, <4>2
    <3>4. ReportedTx(t)'
      BY <3>3, ElsewhereReported
    <3>5. StageOf(mempool[t]) = StageFor(m.type)
      BY <2>3, <2>5, HasEntry
    <3>6. mempool[t] \in {"Initialized", "WaitingMined", "Mined"}
      BY <2>4, <3>5 DEF StageOf, StageFor, MempoolStatus
    <3>7. StatusStep(t)
      BY <3>1, <3>6 DEF StatusStep
    <3> QED
      BY <3>4, <3>7
  <2>6. CASE t \notin S
    <3>1. mempool'[t] = mempool[t]
      BY <2>2, <2>6, SetStatus
    <3> QED
      BY <2>2, <2>3, <3>1, <1>ReportIgnored
  <2> QED
    BY <2>5, <2>6

<1>ReportAttached.
  ASSUME TypeInv, Tracked, NEW t \in Txid, TrackedTx(t)', ReportedTx(t),
         toController # <<>>, toController' = Tail(toController),
         UNCHANGED <<known, queue, latest_blocks>>,
         Head(toController).type = "AttachedTxs",
         handle_attached_txs(Head(toController).txs)
  PROVE  ReportedTx(t)' /\ StatusStep(t)
  <2> USE <1>ReportAttached
  <2> DEFINE m == Head(toController)
             S == m.txs
  <2>1. mempool' = MempoolSet(S, "None") /\ UNCHANGED toChecker
    BY DEF handle_attached_txs, MempoolDelete
  <2>2. (Names(m, t) <=> t \in S) /\ ~Mines(m, t)
    BY DEF Names, Mines
  <2>3. mempool[t] \in MempoolStatus
    BY DEF TypeInv, TypeOK
  <2>4. CASE t \in S
    <3>1. mempool'[t] = "None"
      BY <2>1, <2>4, SetStatus
    <3>2. StageOf(mempool'[t]) # "confirm"
      BY <3>1 DEF StageOf
    <3>3. ReportedTx(t)'
      BY <3>2, ElsewhereReported
    <3>4. StageOf(mempool[t]) = "attach"
      BY <2>2, <2>4, HasEntry, Stages
    <3>5. mempool[t] = "Attaching"
      BY <2>3, <3>4, StatusOfStage
    <3>6. StatusStep(t)
      BY <3>1, <3>5 DEF StatusStep
    <3> QED
      BY <3>3, <3>6
  <2>5. CASE t \notin S
    <3>1. mempool'[t] = mempool[t]
      BY <2>1, <2>5, SetStatus
    <3> QED
      BY <2>1, <2>2, <3>1, <1>ReportIgnored
  <2> QED
    BY <2>4, <2>5

<1>ReportMinedTxs.
  ASSUME TypeInv, Tracked, NEW t \in Txid, TrackedTx(t)', ReportedTx(t),
         toController # <<>>, toController' = Tail(toController),
         UNCHANGED <<known, queue, latest_blocks>>,
         Head(toController).type = "MinedTxs",
         handle_mined_txs(Head(toController).txs)
  PROVE  ReportedTx(t)' /\ StatusStep(t)
  <2> USE <1>ReportMinedTxs
  <2> DEFINE m == Head(toController)
             S == m.txs
  <2>1. S \in SUBSET Txid /\ Entries(S) = S
    BY <1>HandedEntries
  <2>2. mempool' = MempoolSet(S, "Mined") /\ UNCHANGED toChecker
    BY <2>1 DEF handle_mined_txs, MissingEntry
  <2>3. Mines(m, t) <=> t \in S
    BY DEF Mines
  <2>4. mempool[t] \in MempoolStatus
    BY DEF TypeInv, TypeOK
  <2>5. CASE t \in S
    <3>1. mempool'[t] = "Mined"
      BY <2>2, <2>5, SetStatus
    <3>2. SaysMined(t)'
      BY <3>1 DEF SaysMined
    <3>3. ReportedTx(t)'
      BY <3>2, <1>MinedIsReported
    <3>4. StageOf(mempool[t]) = "confirm"
      BY <2>3, <2>5, MinedHasEntry
    <3>5. mempool[t] \in {"WaitingMined", "Mined"}
      BY <2>4, <3>4, StatusOfStage
    <3>6. StatusStep(t)
      BY <3>1, <3>5 DEF StatusStep
    <3> QED
      BY <3>3, <3>6
  <2>6. CASE t \notin S
    <3>1. mempool'[t] = mempool[t]
      BY <2>2, <2>6, SetStatus
    <3> QED
      BY <2>2, <2>3, <2>6, <3>1, <1>ReportIgnored
  <2> QED
    BY <2>5, <2>6

<1>ReportConfirmed.
  ASSUME TypeInv, Tracked, NEW t \in Txid, TrackedTx(t)', ReportedTx(t),
         toController # <<>>, toController' = Tail(toController),
         UNCHANGED <<known, queue, latest_blocks>>,
         Head(toController).type = "ConfirmedTxs",
         handle_confirmed_txs(Head(toController).txs)
  PROVE  ReportedTx(t)' /\ StatusStep(t)
  <2> USE <1>ReportConfirmed
  <2> DEFINE m == Head(toController)
             S == m.txs
             X == StoredTxs(S)
  <2>1. S \in SUBSET Txid /\ Entries(S) = S
    BY <1>HandedEntries
  <2>2. \A u \in S : l1[u] # NoRow
    BY <2>1 DEF TypeInv, RowInv, Entries
  <2>3. X \in SUBSET Tx /\ Ids(X) = S
    BY <2>1, <2>2, StoredIds
  <2>4. toChecker' = Send(toChecker, FullCheck(X)) /\ UNCHANGED mempool
    BY <2>1 DEF handle_confirmed_txs
  <2>5. (Confirms(m, t) <=> t \in S) /\ ~Mines(m, t)
    BY DEF Confirms, Mines
  <2>6. toChecker \in Seq(CheckerMsg) /\ FullCheck(X) \in CheckerMsg /\ toController \in Seq(ControllerMsg)
    BY <2>3, ChannelTypes, SentMessages
  <2> HIDE DEF X
  <2>7. CASE t \in S
    <3>1. SaysMined(t)
      BY <2>5, <2>6, <2>7, <1>TakeReport DEF ReportedTx
    <3>2. SaysMined(t)'
      BY <2>4, <3>1, <1>SaysMinedStays
    <3> QED
      BY <2>4, <3>2, <1>MinedIsReported DEF StatusStep
  <2>8. CASE t \notin S
    <3>1. InFullCheck(toChecker', t) => InFullCheck(toChecker, t)
      <4>1. ~FullyChecks(FullCheck(X), t)
        BY <2>3, <2>8, <1>ReportMessages
      <4> QED
        BY <2>4, <2>6, <4>1, <1>SendReport
    <3> QED
      BY <2>4, <2>5, <3>1, <1>ReportIgnored
  <2> QED
    BY <2>7, <2>8

<1>ReportNew.
  ASSUME OneTxPerId, TypeInv, Tracked, NEW t \in Txid, TrackedTx(t)', ReportedTx(t),
         toController # <<>>, toController' = Tail(toController),
         UNCHANGED <<known, queue, latest_blocks>>,
         Head(toController).type = "InitializeTxs",
         handle_new_lrc20_txs(Head(toController).txs)
  PROVE  ReportedTx(t)' /\ StatusStep(t)
  <2> USE <1>ReportNew
  <2> DEFINE m == Head(toController)
             new == {x \in m.txs : IsNew(x)}
  <2>1. m.txs \in SUBSET Tx /\ ~Mines(m, t)
    <3>1. ~Mines(m, t)
      BY DEF Mines
    <3> QED
      BY <3>1, HeadMessage
  <2>2. /\ mempool' = MempoolPut(Ids(new))
        /\ toChecker' = SendUnlessEmpty(toChecker, IsolatedCheck(new))
    BY DEF handle_new_lrc20_txs
  <2>3. new \in SUBSET Tx /\ \A x \in new : TxidOf[x] \in Txid /\ l1[TxidOf[x]] = NoRow
    BY <2>1, NewHasNoRow
  <2>4. toChecker \in Seq(CheckerMsg) /\ IsolatedCheck(new) \in CheckerMsg
    BY <2>3, ChannelTypes, SentMessages
  <2> HIDE DEF new
  <2>5. CASE t \in Ids(new)
    <3>1. mempool[t] = "None" /\ mempool'[t] = "Initialized"
      <4>1. l1[t] = NoRow
        BY <2>3, <2>5 DEF Ids
      <4>2. mempool[t] = "None"
        BY <4>1 DEF TypeInv, RowInv
      <4> QED
        BY <2>2, <2>5, <4>2 DEF MempoolPut
    <3>2. StageOf(mempool'[t]) # "confirm"
      BY <3>1 DEF StageOf
    <3>3. ReportedTx(t)'
      BY <3>2, ElsewhereReported
    <3>4. StatusStep(t)
      BY <3>1 DEF StatusStep
    <3> QED
      BY <3>3, <3>4
  <2>6. CASE t \notin Ids(new)
    <3>1. mempool'[t] = mempool[t]
      BY <2>2, <2>6 DEF MempoolPut
    <3>2. InFullCheck(toChecker', t) => InFullCheck(toChecker, t)
      <4>1. ~FullyChecks(IsolatedCheck(new), t)
        BY <1>ReportMessages
      <4> QED
        BY <2>2, <2>4, <4>1, <1>SendReport
    <3> QED
      BY <2>1, <3>1, <3>2, <1>ReportIgnored
  <2> QED
    BY <2>5, <2>6

<1>ReportFullyChecked.
  ASSUME OneTxPerId, TypeInv, Tracked, NEW t \in Txid, TrackedTx(t)', ReportedTx(t),
         toController # <<>>, toController' = Tail(toController),
         UNCHANGED <<known, queue, latest_blocks>>,
         Head(toController).type = "FullyCheckedTxs",
         handle_fully_checked_txs(Head(toController).txs)
  PROVE  ReportedTx(t)' /\ StatusStep(t)
  <2> USE <1>ReportFullyChecked
  <2> DEFINE m == Head(toController)
             X == m.txs
             announcements == {x \in X : IsAnnouncement(x)}
             others == X \ announcements
  <2>1. X \in SUBSET Tx /\ toController \in Seq(ControllerMsg) /\ mempool[t] \in MempoolStatus
    BY HeadMessage DEF TypeInv, TypeOK
  <2>2. (\A u : Names(m, u) <=> u \in Ids(X)) /\ (FullyChecks(m, t) <=> t \in Ids(X)) /\ ~Mines(m, t)
    BY DEF Names, FullyChecks, Mines
  <2>3. \A u \in Ids(others) : u \in Ids(X) /\ u \in Txid /\ mempool[u] # "None"
    <3>1. \A x \in X : TxidOf[x] \in Txid
      BY <2>1, TxAssumption
    <3> QED
      BY <2>2, <3>1, HasEntry DEF Ids
  <2>4. Entries(Ids(others)) = Ids(others)
    BY <2>3 DEF Entries
  <2>5. /\ mempool' = [u \in Txid |-> IF u \in Ids(announcements) THEN "None"
                                      ELSE IF u \in Ids(others) THEN "Attaching"
                                      ELSE mempool[u]]
        /\ UNCHANGED toChecker
    BY <2>4 DEF handle_fully_checked_txs, MissingEntry
  <2>6. CASE t \in Ids(X)
    <3>1. PICK x \in X : TxidOf[x] = t
      BY <2>6 DEF Ids
    <3>2. l1[t].tx = x
      <4>1. l1[t] # NoRow
        BY <2>2, <2>6, HasEntry
      <4>2. l1[t].tx \in Tx /\ TxidOf[l1[t].tx] = t
        BY <4>1 DEF TypeInv, TypeOK, RowInv, L1Row
      <4> QED
        BY <2>1, <3>1, <4>2 DEF OneTxPerId
    <3>3. mempool'[t] = IF IsAnnouncement(x) THEN "None" ELSE "Attaching"
      <4>1. CASE IsAnnouncement(x)
        <5>1. t \in Ids(announcements)
          BY <3>1, <4>1 DEF Ids
        <5> HIDE DEF announcements, others
        <5> QED
          BY <2>5, <4>1, <5>1
      <4>2. CASE ~IsAnnouncement(x)
        <5>1. t \in Ids(others)
          BY <3>1, <4>2 DEF Ids
        <5>2. t \notin Ids(announcements)
          BY <2>1, <3>1, <4>2 DEF Ids, OneTxPerId
        <5> HIDE DEF announcements, others
        <5> QED
          BY <2>5, <4>2, <5>1, <5>2
      <4> QED
        BY <4>1, <4>2
    <3>4. StageOf(mempool'[t]) # "confirm"
      BY <3>3 DEF StageOf
    <3>5. ReportedTx(t)'
      BY <3>4, ElsewhereReported
    <3>6. SaysMined(t)
      BY <2>1, <2>2, <2>6, <1>TakeReport DEF ReportedTx
    <3>7. StageOf(mempool[t]) = "confirm"
      BY <2>2, <2>6, HasEntry, Stages
    <3>8. mempool[t] \in {"WaitingMined", "Mined"}
      BY <2>1, <3>7, StatusOfStage
    <3>9. StatusStep(t)
      BY <3>2, <3>3, <3>6, <3>8 DEF StatusStep, SaysMined
    <3> QED
      BY <3>5, <3>9
  <2>7. CASE t \notin Ids(X)
    <3>1. t \notin Ids(announcements) /\ t \notin Ids(others)
      BY <2>7 DEF Ids
    <3> HIDE DEF announcements, others
    <3>2. mempool'[t] = mempool[t]
      BY <2>5, <3>1
    <3> QED
      BY <2>2, <2>5, <3>2, <1>ReportIgnored
  <2> QED
    BY <2>6, <2>7

<1>ReportController.
  ASSUME OneTxPerId, TypeInv, Tracked, ControllerStep, NEW t \in Txid, TrackedTx(t)', ReportedTx(t)
  PROVE  ReportedTx(t)' /\ StatusStep(t)
  <2> USE <1>ReportController
  <2>1. /\ toController # <<>> /\ toController' = Tail(toController)
        /\ UNCHANGED <<known, queue, latest_blocks>>
    BY DEF ControllerStep, ControllerEvent, confirmatorVars, chainVars
  <2>2. Head(toController).type \in
          {"InitializeTxs", "PartiallyCheckedTxs", "FullyCheckedTxs", "MinedTxs",
           "ConfirmedTxs", "Reorganization", "AttachedTxs"}
    BY <2>1, HeadMessage
  <2> DEFINE m == Head(toController)
  <2>3. \/ m.type = "InitializeTxs" /\ handle_new_lrc20_txs(m.txs)
        \/ m.type = "PartiallyCheckedTxs" /\ handle_partially_checked_txs(m.txs)
        \/ m.type = "FullyCheckedTxs" /\ handle_fully_checked_txs(m.txs)
        \/ m.type = "MinedTxs" /\ handle_mined_txs(m.txs)
        \/ m.type = "ConfirmedTxs" /\ handle_confirmed_txs(m.txs)
        \/ m.type = "Reorganization" /\ handle_reorganization_txs(m.txs, m.height)
        \/ m.type = "AttachedTxs" /\ handle_attached_txs(m.txs)
    BY <2>2 DEF ControllerStep, ControllerEvent
  <2> QED
    BY <2>1, <2>3, <1>ReportNew, <1>ReportToConfirm, <1>ReportFullyChecked, <1>ReportMinedTxs,
       <1>ReportConfirmed, <1>ReportAttached

(* Messages to the controller that tell of no confirmation.                *)
<1>ReportSent.
  ASSUME TypeInv, NEW t, ReportedTx(t), UNCHANGED <<known, mempool>>,
         InWindow(latest_blocks', t) => InWindow(latest_blocks, t),
         NEW m \in ControllerMsg, ~Confirms(m, t),
         toController' \in {Send(toController, m), SendUnlessEmpty(toController, m)},
         InFullCheck(toChecker', t) => InFullCheck(toChecker, t),
         FullyChecks(m, t) => InFullCheck(toChecker, t),
         t \in queue' => t \in queue
  PROVE  ReportedTx(t)'
  <2> USE <1>ReportSent
  <2>1. toController \in Seq(ControllerMsg)
    BY ChannelTypes
  <2>2. SaysMined(t) => SaysMined(t)'
    BY <1>SaysMinedStays
  <2>3. /\ MinedBefore(toController, t) => MinedBefore(toController', t)
        /\ SaidMined(toController, t) => SaidMined(toController', t)
        /\ InFullCheck(toController', t) => InFullCheck(toController, t) \/ FullyChecks(m, t)
    BY <2>1, <1>SendReport
  <2> QED
    BY <2>2, <2>3, <1>ReportKeeps

<1>ReportServices.
  ASSUME TypeInv, NEW t, ReportedTx(t),
         (\E x \in Tx : Submit(x)) \/ CheckerAccepts \/ GraphBuilderAttaches
  PROVE  ReportedTx(t)' /\ UNCHANGED mempool
  <2> USE <1>ReportServices
  <2>1. UNCHANGED <<known, mempool, latest_blocks, queue>>
    BY DEF Submit, CheckerAccepts, GraphBuilderAttaches, chainVars, storage, confirmatorVars
  <2>2. ASSUME NEW x \in Tx, Submit(x) PROVE ReportedTx(t)'
    <3>1. InitializeTxs({x}) \in ControllerMsg
      BY SentMessages
    <3>2. toController' = Send(toController, InitializeTxs({x})) /\ UNCHANGED toChecker
      BY <2>2 DEF Submit
    <3> QED
      BY <2>1, <3>1, <3>2, <1>ReportMessages, <1>ReportSent
  <2>3. CASE CheckerAccepts
    <3> DEFINE m == Head(toChecker)
               answer == IF m.type = "FullCheck" THEN FullyCheckedTxs(m.txs)
                         ELSE PartiallyCheckedTxs(Ids(m.txs))
    <3>1. /\ toChecker # <<>> /\ toController' = SendUnlessEmpty(toController, answer)
          /\ toChecker' = Tail(toChecker) /\ toChecker \in Seq(CheckerMsg)
      BY <2>3, ChannelTypes DEF CheckerAccepts
    <3>2. m \in CheckerMsg
      BY <3>1, HeadTailTyped
    <3>3. m.type \in {"IsolatedCheck", "FullCheck"} /\ m.txs \in SUBSET Tx
      BY <3>2 DEF CheckerMsg
    <3>4. Ids(m.txs) \in SUBSET Txid
      BY <3>3, TxAssumption DEF Ids
    <3>5. answer \in ControllerMsg
      BY <3>3, <3>4, SentMessages
    <3>6. ~Confirms(answer, t) /\ (FullyChecks(answer, t) => FullyChecks(m, t))
      BY DEF Confirms, FullyChecks, FullyCheckedTxs, PartiallyCheckedTxs
    <3>7. /\ InFullCheck(toChecker', t) => InFullCheck(toChecker, t)
          /\ FullyChecks(answer, t) => InFullCheck(toChecker, t)
      BY <3>1, <3>6, <1>TakeReport
    <3> HIDE DEF answer
    <3> QED
      BY <2>1, <3>1, <3>5, <3>6, <3>7, <1>ReportSent
  <2>4. CASE GraphBuilderAttaches
    <3> DEFINE m == Head(toGraph)
    <3>1. /\ toGraph # <<>> /\ toController' = Send(toController, AttachedTxs(Ids(m.txs)))
          /\ UNCHANGED toChecker /\ toGraph \in Seq(GraphMsg)
      BY <2>4, ChannelTypes DEF GraphBuilderAttaches
    <3>2. m \in GraphMsg
      BY <3>1, HeadTailTyped
    <3>3. Ids(m.txs) \in SUBSET Txid
      BY SMT, <3>2, TxAssumption DEF Ids, GraphMsg
    <3>4. AttachedTxs(Ids(m.txs)) \in ControllerMsg
      BY <3>3, SentMessages
    <3>5. ~Confirms(AttachedTxs(Ids(m.txs)), t) /\ ~FullyChecks(AttachedTxs(Ids(m.txs)), t)
      BY <1>ReportMessages
    <3> QED
      BY <2>1, <3>1, <3>4, <3>5, <1>ReportSent
  <2> QED
    BY <2>1, <2>2, <2>3, <2>4

<1>WindowBlocks.
  ASSUME TypeInv, NEW b \in known, NEW t
  PROVE  LET window == Append(latest_blocks, b)
         IN  /\ InWindow(window, t) => InWindow(latest_blocks, t) \/ t \in BlockTxs[b]
             /\ InWindow(Tail(window), t) => InWindow(window, t)
             /\ t \in BlockTxs[Head(window)] => InWindow(window, t)
  <2> USE <1>WindowBlocks
  <2> DEFINE window == Append(latest_blocks, b)
             n == Len(latest_blocks) + 1
  <2>1. latest_blocks \in Seq(known)
    BY WindowTyped
  <2>2. /\ window \in Seq(known) /\ n \in 1..Len(window) /\ window[n] = b
        /\ \A i \in 1..Len(latest_blocks) :
             i \in 1..Len(window) /\ window[i] = latest_blocks[i] /\ i < n
        /\ \A i \in 1..Len(window) : i \in 1..Len(latest_blocks) \/ i = n
    BY <2>1, Appended
  <2>3. window # <<>>
    BY SMT, <2>2
  <2> HIDE DEF window, n
  <2>4. /\ 1 \in 1..Len(window) /\ Head(window) = window[1]
        /\ \A i \in 1..Len(Tail(window)) :
             /\ i + 1 \in 1..Len(window) /\ i + 1 # 1 /\ 1 < i + 1
             /\ Tail(window)[i] = window[i + 1]
    BY <2>2, <2>3, Rest
  <2>5. InWindow(window, t) => InWindow(latest_blocks, t) \/ t \in BlockTxs[b]
    BY <2>2 DEF InWindow
  <2>6. InWindow(Tail(window), t) => InWindow(window, t)
    BY <2>4 DEF InWindow
  <2>7. t \in BlockTxs[Head(window)] => InWindow(window, t)
    BY <2>4 DEF InWindow
  <2> QED
    BY <2>5, <2>6, <2>7 DEF window

<1>ReportExtend.
  ASSUME TypeInv, NEW t \in Txid, ReportedTx(t), NEW b \in known, ExtendWindow(b),
         UNCHANGED <<known, mempool, toChecker>>
  PROVE  ReportedTx(t)'
  <2> USE <1>ReportExtend
  <2> DEFINE window == Append(latest_blocks, b)
             mined  == extract_waiting_txs_from_block(b)
             conf   == IF Len(window) = confirmations_number
                       THEN extract_waiting_txs_from_block(Head(window)) ELSE {}
             ch     == SendUnlessEmpty(toController, MinedTxs(mined))
  <2>1. /\ queue' = queue \ conf /\ toController' = SendUnlessEmpty(ch, ConfirmedTxs(conf))
        /\ latest_blocks' = window \/ latest_blocks' = Tail(window)
    BY DEF ExtendWindow
  <2>2. queue \in SUBSET Txid /\ toController \in Seq(ControllerMsg)
    BY DEF TypeInv, TypeOK
  <2>3. /\ mined \subseteq queue /\ conf \subseteq queue
        /\ t \in queue /\ t \in BlockTxs[b] => t \in mined
        /\ t \in conf => t \in BlockTxs[Head(window)]
    BY DEF extract_waiting_txs_from_block
  <2>4. /\ InWindow(window, t) => InWindow(latest_blocks, t) \/ t \in BlockTxs[b]
        /\ InWindow(Tail(window), t) => InWindow(window, t)
        /\ t \in BlockTxs[Head(window)] => InWindow(window, t)
    BY <1>WindowBlocks
  <2> HIDE DEF window, mined, conf
  <2>5. MinedTxs(mined) \in ControllerMsg /\ ConfirmedTxs(conf) \in ControllerMsg
    BY <2>2, <2>3, SentMessages
  <2>6. /\ ~Confirms(MinedTxs(mined), t) /\ ~FullyChecks(MinedTxs(mined), t)
        /\ Confirms(ConfirmedTxs(conf), t) <=> t \in conf
        /\ ~FullyChecks(ConfirmedTxs(conf), t) /\ (Mines(MinedTxs(mined), t) <=> t \in mined)
    BY <1>ReportMessages, NotMined
  <2>7. /\ ch \in Seq(ControllerMsg)
        /\ MinedBefore(toController, t) => MinedBefore(ch, t)
        /\ SaidMined(toController, t) => SaidMined(ch, t)
        /\ t \in mined => SaidMined(ch, t)
        /\ InFullCheck(ch, t) => InFullCheck(toController, t)
    BY <2>2, <2>5, <2>6, SendTyped, <1>SendReport
  <2> HIDE DEF ch
  <2>8. /\ MinedBefore(ch, t) /\ (t \in conf => SaidMined(ch, t)) => MinedBefore(toController', t)
        /\ SaidMined(ch, t) => SaidMined(toController', t)
        /\ InFullCheck(toController', t) => InFullCheck(ch, t)
    BY <2>1, <2>5, <2>6, <2>7, <1>SendReport
  <2>9. SaysMined(t) => SaysMined(t)'
    BY <1>SaysMinedStays
  <2>10. t \in queue /\ InWindow(window, t) => SaysMined(t) \/ SaidMined(ch, t)
    BY <2>3, <2>4, <2>7 DEF ReportedTx
  <2>11. MinedBefore(toController, t) => SaysMined(t)' \/ MinedBefore(toController', t)
    BY <2>3, <2>4, <2>7, <2>8, <2>9, <2>10
  <2>12. t \in queue' /\ InWindow(latest_blocks', t) => SaysMined(t)' \/ SaidMined(toController', t)
    BY <2>1, <2>4, <2>8, <2>9, <2>10
  <2> QED
    BY <2>7, <2>8, <2>9, <2>11, <2>12, <1>ReportKeeps

<1>ReportReorg.
  ASSUME TypeInv, NEW t \in Txid, ReportedTx(t), NEW b \in Block, handle_reorg(b),
         ForkIsKnown(b), UNCHANGED <<known, mempool, toChecker>>
  PROVE  ReportedTx(t)'
  <2> USE <1>ReportReorg
  <2> DEFINE S == OrphanTxs(b)
             j == OrphansOf(b)
             h == Height[b] - 1 - j
             m == Reorganization(S, h)
  <2>1. /\ queue' = queue \ S /\ toController' = Send(toController, m)
        /\ latest_blocks' = SubSeq(latest_blocks, 1, Depth - j)
    BY DEF handle_reorg, WindowPrefix
  <2>2. S \subseteq queue /\ queue \in SUBSET Txid
    BY DEF OrphanTxs, extract_waiting_txs_from_block, TypeInv, TypeOK
  <2>3. j \in 0..(Depth - 1) /\ j < Height[b] /\ Height[b] \in Nat
    <3>1. Height[b] \in Nat
      BY TreeAssumption
    <3> QED
      BY <3>1, OrphansAreFewest
  <2>4. latest_blocks \in Seq(known) /\ Depth = Len(latest_blocks) /\ Depth \in Nat
    BY WindowTyped
  <2> HIDE DEF S, j
  <2>5. h \in Nat /\ Depth - j \in 0..Len(latest_blocks)
    BY SMT, <2>3, <2>4
  <2> HIDE DEF h
  <2>6. m \in ControllerMsg /\ ~Confirms(m, t) /\ ~FullyChecks(m, t)
    BY <2>2, <2>5, SentMessages, <1>ReportMessages
  <2>7. InWindow(latest_blocks', t) => InWindow(latest_blocks, t)
    <3> DEFINE k == Depth - j
    <3>1. k \in 0..Len(latest_blocks) /\ latest_blocks' = SubSeq(latest_blocks, 1, k)
      BY <2>1, <2>5
    <3> HIDE DEF k
    <3>2. Len(latest_blocks') = k /\ \A i \in 1..k : latest_blocks'[i] = latest_blocks[i]
      BY <2>4, <3>1, PrefixTyped
    <3>3. \A i \in 1..k : i \in 1..Len(latest_blocks)
      BY SMT, <2>4, <3>1
    <3> QED
      BY <3>2, <3>3 DEF InWindow
  <2> HIDE DEF m
  <2> QED
    BY <2>1, <2>6, <2>7, <1>ReportSent

(* A transaction of a known block that the lookup does not find has been   *)
(* dropped from the best chain.                                            *)
<1>NotFoundDropped.
  ASSUME TypeInv, NEW t, InWindow(latest_blocks, t), Confirmations(t) = 0
  PROVE  DroppedByReorg(t)
  <2> USE <1>NotFoundDropped
  <2>1. PICK i \in 1..Len(latest_blocks) : t \in BlockTxs[latest_blocks[i]]
    BY DEF InWindow
  <2> DEFINE c == latest_blocks[i]
  <2>2. c \in known
    BY SMT, WindowTyped
  <2>3. tip \in known /\ Height[c] <= Height[tip] /\ tip \in Block
    BY <2>2 DEF TypeInv, ChainInv, TypeOK
  <2>4. ASSUME NEW d \in Branch[tip], t \in BlockTxs[d] PROVE FALSE
    <3> DEFINE e == CHOOSE x \in Branch[tip] : t \in BlockTxs[x]
    <3>1. e \in Branch[tip]
      BY <2>4
    <3>2. Confirmations(t) = Height[tip] - Height[e] + 1
      BY <2>4 DEF Confirmations
    <3> HIDE DEF e
    <3>3. Height[e] <= Height[tip] /\ Height[e] \in Nat /\ Height[tip] \in Nat
      BY <2>3, <3>1, TreeAssumption, BranchAssumption
    <3> QED
      BY SMT, <3>2, <3>3
  <2> QED
    BY <2>1, <2>2, <2>3, <2>4 DEF DroppedByReorg

<1>ReportTxToConfirm.
  ASSUME TypeInv, NEW t \in Txid, ReportedTx(t), NEW u \in Txid, handle_tx_to_confirm(u),
         UNCHANGED <<known, mempool, toChecker>>
  PROVE  ReportedTx(t)'
  <2> USE <1>ReportTxToConfirm
  <2> DEFINE n == Confirmations(u)
             m1 == MinedTxs({u})
             m2 == ConfirmedTxs({u})
             one == Send(toController, m1)
             two == Send(one, m2)
  <2>1. /\ UNCHANGED latest_blocks
        /\ \/ toController' = two /\ queue' = queue \ {u}
           \/ toController' = one /\ queue' = queue \cup {u}
           \/ toController' = toController /\ queue' = queue \cup {u} /\ n = 0
    BY SMT, ConfirmationsAssumption DEF handle_tx_to_confirm
  <2>2. toController \in Seq(ControllerMsg) /\ m1 \in ControllerMsg /\ m2 \in ControllerMsg
    BY ChannelTypes, SentMessages
  <2>3. /\ ~Confirms(m1, t) /\ ~FullyChecks(m1, t) /\ (Mines(m1, t) <=> t = u)
        /\ (Confirms(m2, t) <=> t = u) /\ ~FullyChecks(m2, t)
    BY DEF m1, m2, Confirms, FullyChecks, Mines, MinedTxs, ConfirmedTxs
  <2> HIDE DEF m1, m2, n
  <2>4. /\ one \in Seq(ControllerMsg)
        /\ MinedBefore(toController, t) => MinedBefore(one, t)
        /\ SaidMined(toController, t) => SaidMined(one, t)
        /\ t = u => SaidMined(one, t)
        /\ InFullCheck(one, t) => InFullCheck(toController, t)
    BY <2>2, <2>3, AppendTyped, <1>SendReport DEF Send
  <2> HIDE DEF one
  <2>5. /\ MinedBefore(one, t) => MinedBefore(two, t)
        /\ SaidMined(one, t) => SaidMined(two, t)
        /\ InFullCheck(two, t) => InFullCheck(one, t)
    BY <2>2, <2>3, <2>4, <1>SendReport
  <2> HIDE DEF two
  <2>6. SaysMined(t) => SaysMined(t)'
    BY <1>SaysMinedStays
  <2>7. ASSUME n = 0, t = u, InWindow(latest_blocks, t) PROVE SaysMined(t)'
    BY <2>6, <2>7, <1>NotFoundDropped DEF SaysMined, n
  <2>8. t \in queue' /\ InWindow(latest_blocks', t) =>
          \/ SaysMined(t)' \/ SaidMined(toController', t)
          \/ t \in queue /\ InWindow(latest_blocks, t)
    BY <2>1, <2>4, <2>7
  <2> QED
    BY <2>1, <2>4, <2>5, <2>6, <2>8, <1>ReportKeeps

<1> SUFFICES ASSUME NEW t \in Txid, OneTxPerId, TypeInv, Tracked, [Next]_vars, TrackedTx(t)', ReportedTx(t)
             PROVE  (cancelled' \/ ReportedTx(t)') /\ StatusStep(t)
  OBVIOUS
<1>1. CASE ControllerStep
  BY <1>1, <1>ReportController
<1>2. CASE (\E x \in Tx : Submit(x)) \/ CheckerAccepts \/ GraphBuilderAttaches
  BY <1>2, <1>ReportServices DEF StatusStep
<1>3. CASE UNCHANGED vars \/ ChainStep \/ CleanUp \/ IndexerStep \/ IndexerFault
  <2>1. /\ UNCHANGED <<mempool, toController, toChecker, latest_blocks>>
        /\ known \subseteq known' /\ (t \in queue' => t \in queue)
    <3>1. CASE ChainStep
      BY <3>1 DEF ChainStep, NewTip, channels, storage, confirmatorVars
    <3>2. CASE CleanUp
      BY <3>2 DEF CleanUp, clean_up_waiting_txs, chainVars, storage
    <3>3. CASE UNCHANGED vars \/ IndexerStep \/ IndexerFault
      BY <3>3 DEF vars, IndexerStep, IndexerFault, chainVars, channels, storage,
                         confirmatorVars
    <3> QED
      BY <1>3, <3>1, <3>2, <3>3
  <2>2. SaysMined(t) => SaysMined(t)'
    BY <2>1, <1>SaysMinedStays
  <2> QED
    BY <2>1, <2>2, <1>ReportKeeps DEF StatusStep
<1>4. CASE ConfirmatorStep
  <2>1. UNCHANGED <<known, mempool, toChecker>>
    BY <1>4 DEF ConfirmatorStep, storage, chainVars
  <2>2. CASE handle_new_block
    <3> DEFINE b == Head(toConfirm).block
    <3>1. b \in known
      BY <2>2, BlockTaken DEF handle_new_block
    <3>2. b \in Block
      BY <3>1 DEF TypeInv, TypeOK
    <3>3. ExtendWindow(b) \/ handle_reorg(b)
      BY <2>2 DEF handle_new_block
    <3>4. handle_reorg(b) /\ ~ForkIsKnown(b) => cancelled'
      BY DEF handle_reorg
    <3> QED
      BY <2>1, <3>1, <3>2, <3>3, <3>4, <1>ReportExtend, <1>ReportReorg DEF StatusStep
  <2>3. CASE \E u \in Txid : handle_tx_to_confirm(u)
    BY <2>1, <2>3, <1>ReportTxToConfirm DEF StatusStep
  <2> QED
    BY <1>4, <2>2, <2>3 DEF ConfirmatorStep
<1>5. CASE ConfirmatorFault
  <2>1. UNCHANGED mempool /\ cancelled'
    BY <1>5 DEF ConfirmatorFault, BranchLookupFails, TxLookupFails, storage
  <2> QED
    BY <2>1 DEF StatusStep
<1>6. CASE Restart
  <2>1. RestartNode /\ UNCHANGED mempool
    BY <1>6 DEF Restart, RestartNode, storage
  <2>2. StageOf(mempool'[t]) # "confirm" \/ On(toConfirm', t)
    BY <2>1, TrackRestart
  <2> QED
    BY <2>1, <2>2, ElsewhereReported DEF StatusStep
<1> QED
  BY <1>1, <1>2, <1>3, <1>4, <1>5, <1>6 DEF Next

ReportInv == TypeInv /\ Tracked /\ Reported

LEMMA ReportInvNext ==
  OneTxPerId /\ ReportInv /\ [Next]_vars
    => ReportInv' /\ (~cancelled => \A t \in Txid : StatusStep(t))
<1> SUFFICES ASSUME OneTxPerId, ReportInv, [Next]_vars
             PROVE  ReportInv' /\ (~cancelled => \A t \in Txid : StatusStep(t))
  OBVIOUS
<1>1. TypeInv /\ Tracked /\ Reported
  BY DEF ReportInv
<1>2. TypeInv'
  BY <1>1, TypeNext
<1>3. \A t \in Txid : TrackedTx(t)'
  BY <1>1, TrackNext
<1>4. ~cancelled => \A t \in Txid : (cancelled' \/ ReportedTx(t)') /\ StatusStep(t)
  BY <1>1, <1>3, ReportNext DEF Reported
<1>5. Reported'
  <2> SUFFICES ASSUME ~cancelled', NEW t \in Txid PROVE ReportedTx(t)'
    BY DEF Reported
  <2>1. CASE ~cancelled
    BY <1>4, <2>1
  <2>2. CASE cancelled
    <3>1. Restart
      BY <1>1, <2>2, StopsForGood DEF vars
    <3>2. RestartNode /\ UNCHANGED mempool
      BY <3>1 DEF Restart, RestartNode, storage
    <3>3. StageOf(mempool'[t]) # "confirm" \/ On(toConfirm', t)
      BY <1>1, <3>2, TrackRestart
    <3> QED
      BY <1>3, <3>3, ElsewhereReported
  <2> QED
    BY <2>1, <2>2
<1> QED
  BY <1>2, <1>3, <1>4, <1>5 DEF ReportInv, Tracked

(* An entry moves only along the statuses that the controller's handlers   *)
(* document, as long as every transaction has its own id.  The one way     *)
(* around Mined is a reorg that has dropped the transaction while it was   *)
(* on its way to the confirmator.                                          *)
THEOREM StatusesStayInOrder ==
  ASSUME OneTxPerId
  PROVE  Spec => StatusesInOrder
<1>1. Init => ReportInv
  <2> SUFFICES ASSUME Init PROVE ReportInv
    OBVIOUS
  <2>1. toController = <<>> /\ toChecker = <<>> /\ queue = {}
    BY DEF Init, ChannelsInit, ConfirmatorInit
  <2>2. Reported
    BY <2>1, EmptyReport DEF Reported, ReportedTx
  <2> QED
    BY <2>2, TypeInit, TrackInit DEF ReportInv
<1>2. ReportInv /\ [Next]_vars => ReportInv'
  BY ReportInvNext
<1>3. ReportInv /\ [Next]_vars => [~cancelled => \A t \in Txid : StatusStep(t)]_vars
  BY ReportInvNext
<1> QED
  BY <1>1, <1>2, <1>3, PTL DEF Spec, StatusesInOrder

=============================================================================
