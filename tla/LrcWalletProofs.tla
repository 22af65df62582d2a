-------------------------- MODULE LrcWalletProofs ---------------------------
(***************************************************************************)
(* What a complete sync leaves as unspent can be spent (SpendableIsReal),  *)
(* and the balances count all of it (BalanceComplete), for every set of    *)
(* transactions, nodes, page and chunk sizes, and whatever happens at the  *)
(* nodes and on Bitcoin during the sync.                                   *)
(*                                                                         *)
(* The two last stages of a sync each go over what is unspent when they    *)
(* begin.  The invariant says what is known of an unspent output that they *)
(* have dealt with; `call` remembers what held since the sync began.       *)
(*                                                                         *)
(* That nothing is missed rests on the page at which a sync begins: what   *)
(* is listed on an earlier page is indexed already (Pages).  The balances  *)
(* are sums over finite sets, about which the last part has the lemmas.    *)
(***************************************************************************)
EXTENDS LrcWallet, FiniteSetTheorems, TLAPS

(* Unless a leaf names another prover, Zenon is the one that checks it.     *)
USE Zenon

Unlocked(op) == ProofOf(op).kind = "SparkExit" => ProofOf(op).locktime <= height

Unspent == stream_unspent_lrc20_outputs(outputs)

CallTyped ==
  DOMAIN call = {"stage", "page", "txs", "todo", "tokens", "listed", "spent", "frozen"}

OutputsMine ==
  /\ height \in Int
  /\ \A op \in DOMAIN outputs : op \in Mine /\ Unlocked(op)

(* What held since the sync began holds now.                               *)
StillSo ==
  /\ call.spent \subseteq SpentBy(chain)
  /\ \A op \in call.frozen : op \in frozen \/ TokenOf(op) \in frozenTokens

(* mark_frozen_outputs has marked all it has been at.                      *)
FrozenMarked ==
  call.stage = "freeze" => \A op \in Unspent : op \in call.todo \/ op \notin call.frozen

(* So has mark_spent_utxos, after it.                                      *)
SpentMarked ==
  call.stage \in {"spent", "done"} =>
    \A op \in Unspent :
      /\ op \notin call.frozen
      /\ op \in call.todo \/ (op[1] \in chain /\ op \notin call.spent)

NothingLeft == call.stage = "done" => call.todo = {}

WalletInv ==
  CallTyped /\ OutputsMine /\ StillSo /\ FrozenMarked /\ SpentMarked /\ NothingLeft

-----------------------------------------------------------------------------

LEMMA WalletInit ==
  ASSUME Init
  PROVE  WalletInv
  BY SMT DEF Init, Idle, WalletInv, CallTyped, OutputsMine, StillSo, FrozenMarked, SpentMarked,
         NothingLeft, Unspent, stream_unspent_lrc20_outputs

LEMMA StartSyncStep ==
  ASSUME WalletInv, StartSync
  PROVE  WalletInv'
<1>1. /\ call' = [Idle EXCEPT !.stage = "page", !.page = starting_page_number,
                              !.listed = Stored(node), !.spent = SpentBy(chain),
                              !.frozen = {op \in Outpoints : op \in frozen \/ TokenOf(op) \in frozenTokens}]
      /\ UNCHANGED <<outputs, chain, frozen, frozenTokens, height>>
  BY DEF StartSync, world
<1>2. /\ CallTyped' /\ call'.stage = "page" /\ call'.spent = SpentBy(chain)
      /\ call'.frozen = {op \in Outpoints : op \in frozen \/ TokenOf(op) \in frozenTokens}
  BY <1>1 DEF Idle, CallTyped
<1>3. StillSo' /\ FrozenMarked' /\ SpentMarked' /\ NothingLeft'
  BY <1>1, <1>2 DEF StillSo, FrozenMarked, SpentMarked, NothingLeft
<1>4. OutputsMine'
  BY <1>1 DEF WalletInv, OutputsMine, Unlocked
<1> QED
  BY ZenonT(30), <1>2, <1>3, <1>4 DEF WalletInv

(* A step that only takes the sync to its next stage.                      *)
LEMMA StageStep ==
  ASSUME WalletInv, UNCHANGED <<outputs, chain, frozen, frozenTokens, height>>,
         CallTyped', call'.spent = call.spent, call'.frozen = call.frozen,
         call'.stage \in {"page", "index", "freeze", "spent", "done"},
         call'.stage = "freeze" => call'.todo = Unspent,
         call'.stage = "spent" => call.stage = "freeze" /\ call.todo = {} /\ call'.todo = Unspent,
         call'.stage = "done" => call.stage = "spent" /\ call.todo = {} /\ call'.todo = {}
  PROVE  WalletInv'
<1>1. OutputsMine' /\ StillSo' /\ Unspent' = Unspent
  BY DEF WalletInv, OutputsMine, Unlocked, StillSo, Unspent, stream_unspent_lrc20_outputs
<1>2. FrozenMarked' /\ SpentMarked' /\ NothingLeft'
  BY ZenonT(30), <1>1 DEF WalletInv, FrozenMarked, SpentMarked, NothingLeft
<1> QED
  BY <1>1, <1>2 DEF WalletInv

LEMMA FetchPageStep ==
  ASSUME WalletInv, FetchPage
  PROVE  WalletInv'
<1> DEFINE txs == list_lrc20_transactions(node, call.page)
<1>1. UNCHANGED <<outputs, chain, frozen, frozenTokens, height>>
  BY DEF FetchPage, world, storage
<1>2. CASE txs # <<>>
  <2>1. call' = [call EXCEPT !.stage = "index", !.txs = txs]
    BY ZenonT(30), <1>2 DEF FetchPage
  <2>2. CallTyped' /\ call'.stage = "index" /\ call'.spent = call.spent /\ call'.frozen = call.frozen
    BY <2>1 DEF WalletInv, CallTyped
  <2> QED
    BY ZenonT(30), <1>1, <2>2, StageStep
<1>3. CASE txs = <<>>
  <2>1. call' = [call EXCEPT !.stage = "freeze", !.todo = Unspent]
    BY ZenonT(30), <1>3 DEF FetchPage, Unspent
  <2>2. /\ CallTyped' /\ call'.stage = "freeze" /\ call'.todo = Unspent
        /\ call'.spent = call.spent /\ call'.frozen = call.frozen
    BY <2>1 DEF WalletInv, CallTyped
  <2> QED
    BY <1>1, <2>2, StageStep
<1> QED
  BY ZenonT(30), <1>2, <1>3

LEMMA PutLastIndexedPageStep ==
  ASSUME WalletInv, PutLastIndexedPage
  PROVE  WalletInv'
<1>1. /\ UNCHANGED <<outputs, chain, frozen, frozenTokens, height>>
      /\ call' = [call EXCEPT !.stage = "page", !.page = call.page + 1]
  BY DEF PutLastIndexedPage, world
<1>2. CallTyped' /\ call'.stage = "page" /\ call'.spent = call.spent /\ call'.frozen = call.frozen
  BY <1>1 DEF WalletInv, CallTyped
<1> QED
  BY <1>1, <1>2, StageStep

LEMMA EndIndexingStep ==
  ASSUME WalletInv, EndIndexing
  PROVE  WalletInv'
<1>1. /\ UNCHANGED <<outputs, chain, frozen, frozenTokens, height>>
      /\ call' = [call EXCEPT !.stage = "spent", !.todo = Unspent]
      /\ call.stage = "freeze" /\ call.todo = {}
  BY DEF EndIndexing, world, storage, Unspent
<1>2. /\ CallTyped' /\ call'.stage = "spent" /\ call'.todo = Unspent
      /\ call'.spent = call.spent /\ call'.frozen = call.frozen
  BY <1>1 DEF WalletInv, CallTyped
<1> QED
  BY <1>1, <1>2, StageStep

LEMMA EndSyncStep ==
  ASSUME WalletInv, EndSync
  PROVE  WalletInv'
<1>1. /\ UNCHANGED <<outputs, chain, frozen, frozenTokens, height>>
      /\ call' = [call EXCEPT !.stage = "done"]
      /\ call.stage = "spent" /\ call.todo = {}
  BY DEF EndSync, world, storage
<1>2. /\ CallTyped' /\ call'.stage = "done" /\ call'.todo = {}
      /\ call'.spent = call.spent /\ call'.frozen = call.frozen
  BY <1>1 DEF WalletInv, CallTyped
<1> QED
  BY <1>1, <1>2, StageStep

LEMMA FailSyncStep ==
  ASSUME WalletInv, FailSync
  PROVE  WalletInv'
<1>1. UNCHANGED <<outputs, chain, frozen, frozenTokens, height>> /\ call' = Idle
  BY DEF FailSync, world, storage
<1>2. /\ CallTyped' /\ call'.stage = "idle" /\ call'.spent = {} /\ call'.frozen = {}
  BY <1>1 DEF Idle, CallTyped
<1>3. OutputsMine'
  BY <1>1 DEF WalletInv, OutputsMine, Unlocked
<1>4. StillSo' /\ FrozenMarked' /\ SpentMarked' /\ NothingLeft'
  BY <1>2 DEF StillSo, FrozenMarked, SpentMarked, NothingLeft
<1> QED
  BY <1>2, <1>3, <1>4 DEF WalletInv

-----------------------------------------------------------------------------
(* The steps that change the outputs.                                      *)

LEMMA IndexTransactionStep ==
  ASSUME WalletInv, IndexTransaction
  PROVE  WalletInv'
<1> DEFINE t == Head(call.txs)
           new == {op \in {t} \X DOMAIN ProofsOf(t) : Wanted(op)}
<1>1. /\ UNCHANGED <<chain, frozen, frozenTokens, height>>
      /\ outputs' = index_transaction(outputs, t)
      /\ call' = [call EXCEPT !.txs = Tail(call.txs)] /\ call.stage = "index"
  BY DEF IndexTransaction, world
<1>2. CallTyped' /\ call'.stage = "index" /\ call'.spent = call.spent /\ call'.frozen = call.frozen
  BY <1>1 DEF WalletInv, CallTyped
<1>3. DOMAIN outputs' \subseteq DOMAIN outputs \cup new
  BY <1>1 DEF index_transaction, insert_unspent_lrc20_output, set_lrc20_output_state
<1>4. \A op \in new : op \in Mine /\ Unlocked(op)
  BY DEF Wanted, Unlocked
<1>5. OutputsMine'
  BY ZenonT(30), <1>1, <1>3, <1>4 DEF WalletInv, OutputsMine, Unlocked
<1>6. StillSo' /\ FrozenMarked' /\ SpentMarked' /\ NothingLeft'
  BY <1>1, <1>2 DEF WalletInv, StillSo, FrozenMarked, SpentMarked, NothingLeft
<1> QED
  BY <1>2, <1>5, <1>6 DEF WalletInv

(* set_lrc20_output_state takes outputs out of Unspent and adds none.      *)
LEMMA Marking ==
  ASSUME WalletInv, NEW ops, NEW state \in {"Spent", "Frozen"}, UNCHANGED height,
         outputs' = set_lrc20_output_state(outputs, ops, state)
  PROVE  OutputsMine' /\ \A op \in Unspent' : op \in Unspent /\ op \notin ops
<1>1. DOMAIN outputs' = DOMAIN outputs
  BY DEF set_lrc20_output_state
<1>2. ASSUME NEW op \in Unspent'
      PROVE  op \in Unspent /\ op \notin ops
  BY <1>2 DEF set_lrc20_output_state, Unspent, stream_unspent_lrc20_outputs
<1> QED
  BY <1>1, <1>2 DEF WalletInv, OutputsMine, Unlocked

LEMMA MarkFrozenOutputsStep ==
  ASSUME WalletInv, MarkFrozenOutputs
  PROVE  WalletInv'
<1>1. PICK chunk \in SUBSET call.todo :
        LET tokens == call.tokens \cup is_pubkey_frozen({TokenOf(op) : op \in chunk})
        IN  /\ outputs' = set_lrc20_output_state(outputs, FrozenOf(chunk, tokens), "Frozen")
            /\ call' = [call EXCEPT !.todo = call.todo \ chunk, !.tokens = tokens]
  BY DEF MarkFrozenOutputs, kSubset
<1> DEFINE tokens == call.tokens \cup is_pubkey_frozen({TokenOf(op) : op \in chunk})
<1>2. UNCHANGED <<chain, frozen, frozenTokens, height>> /\ call.stage = "freeze"
  BY DEF MarkFrozenOutputs, world
<1>3. /\ CallTyped' /\ call'.stage = "freeze" /\ call'.todo = call.todo \ chunk
      /\ call'.spent = call.spent /\ call'.frozen = call.frozen
  BY <1>1, <1>2 DEF WalletInv, CallTyped
<1>4. OutputsMine' /\ \A op \in Unspent' : op \in Unspent /\ op \notin FrozenOf(chunk, tokens)
  BY <1>1, <1>2, Marking
<1>5. ASSUME NEW op \in chunk, op \in call.frozen
      PROVE  op \in FrozenOf(chunk, tokens)
  BY <1>5 DEF WalletInv, StillSo, FrozenOf, is_pubkey_frozen
<1>6. FrozenMarked'
  BY <1>2, <1>3, <1>4, <1>5 DEF WalletInv, FrozenMarked
<1>7. StillSo' /\ SpentMarked' /\ NothingLeft'
  BY <1>2, <1>3 DEF WalletInv, StillSo, SpentMarked, NothingLeft
<1> QED
  BY <1>3, <1>4, <1>6, <1>7 DEF WalletInv

LEMMA mark_spent_utxosStep ==
  ASSUME WalletInv, mark_spent_utxos
  PROVE  WalletInv'
<1>1. PICK op \in call.todo :
        outputs' = MarkSpent(op) /\ call' = [call EXCEPT !.todo = call.todo \ {op}]
  BY DEF mark_spent_utxos
<1>2. UNCHANGED <<chain, frozen, frozenTokens, height>> /\ call.stage = "spent"
  BY DEF mark_spent_utxos, world
<1>3. /\ CallTyped' /\ call'.stage = "spent" /\ call'.todo = call.todo \ {op}
      /\ call'.spent = call.spent /\ call'.frozen = call.frozen
  BY <1>1, <1>2 DEF WalletInv, CallTyped
<1>4. /\ OutputsMine'
      /\ \A o \in Unspent' : o \in Unspent /\ (o = op => get_tx_out_status(op) # "Spent")
  <2>1. CASE get_tx_out_status(op) = "Spent"
    <3>1. outputs' = set_lrc20_output_state(outputs, {op}, "Spent")
      BY <1>1, <2>1 DEF MarkSpent
    <3> QED
      BY <1>2, <3>1, Marking
  <2>2. CASE get_tx_out_status(op) # "Spent"
    <3>1. outputs' = outputs
      BY <1>1, <2>2 DEF MarkSpent
    <3> QED
      BY <1>2, <2>2, <3>1
      DEF WalletInv, OutputsMine, Unlocked, Unspent, stream_unspent_lrc20_outputs
  <2> QED
    BY <2>1, <2>2
<1>5. ASSUME get_tx_out_status(op) # "Spent"
      PROVE  op[1] \in chain /\ op \notin call.spent
  BY <1>5 DEF get_tx_out_status, WalletInv, StillSo
<1>6. SpentMarked'
  BY <1>2, <1>3, <1>4, <1>5 DEF WalletInv, SpentMarked
<1>7. StillSo' /\ FrozenMarked' /\ NothingLeft'
  BY <1>2, <1>3 DEF WalletInv, StillSo, FrozenMarked, NothingLeft
<1> QED
  BY <1>3, <1>4, <1>6, <1>7 DEF WalletInv

-----------------------------------------------------------------------------
(* The world.  Bitcoin only gains transactions, and a freeze that is       *)
(* turned over is no longer one that has held all the while.               *)

LEMMA WorldStep ==
  ASSUME WalletInv, UNCHANGED outputs, CallTyped',
         call'.stage = call.stage, call'.todo = call.todo, call'.spent = call.spent,
         call'.frozen \subseteq call.frozen,
         \A op \in call'.frozen : op \in frozen' \/ TokenOf(op) \in frozenTokens',
         chain \subseteq chain', height' \in {height, height + 1}
  PROVE  WalletInv'
<1>1. SpentBy(chain) \subseteq SpentBy(chain')
  BY DEF SpentBy
<1>2. StillSo'
  BY <1>1 DEF WalletInv, StillSo
<1>3. OutputsMine'
  <2>1. height' \in Int /\ height <= height'
    BY SMT DEF WalletInv, OutputsMine
  <2>2. ASSUME NEW op \in DOMAIN outputs, ProofOf(op).kind = "SparkExit"
        PROVE  ProofOf(op).locktime <= height'
    <3>1. op \in Mine /\ ProofOf(op).locktime <= height /\ height \in Int
      BY <2>2 DEF WalletInv, OutputsMine, Unlocked
    <3>2. ProofOf(op).locktime \in Int
      BY <2>2, <3>1, WalletAssumption
    <3> QED
      BY <2>1, <3>1, <3>2, SMT
  <2> QED
    BY <2>1, <2>2 DEF WalletInv, OutputsMine, Unlocked
<1>4. Unspent' = Unspent
  BY DEF Unspent, stream_unspent_lrc20_outputs
<1>5. FrozenMarked' /\ SpentMarked' /\ NothingLeft'
  BY <1>4 DEF WalletInv, FrozenMarked, SpentMarked, NothingLeft
<1> QED
  BY <1>2, <1>3, <1>5 DEF WalletInv

LEMMA ToggleFreezeStep ==
  ASSUME WalletInv, NEW op \in Mine, ToggleFreeze(op)
  PROVE  WalletInv'
<1>1. /\ call' = [call EXCEPT !.frozen = call.frozen \ {op}]
      /\ UNCHANGED <<outputs, frozenTokens, chain, height>>
      /\ frozen \ {op} \subseteq frozen'
  BY DEF ToggleFreeze, storage
<1>2. /\ CallTyped' /\ call'.stage = call.stage /\ call'.todo = call.todo
      /\ call'.spent = call.spent /\ call'.frozen = call.frozen \ {op}
  BY <1>1 DEF WalletInv, CallTyped
<1>3. \A o \in call'.frozen : o \in frozen' \/ TokenOf(o) \in frozenTokens'
  BY ZenonT(30), <1>1, <1>2 DEF WalletInv, StillSo
<1> QED
  BY <1>1, <1>2, <1>3, WorldStep

LEMMA OtherWorldStep ==
  ASSUME WalletInv, UNCHANGED <<call, outputs, frozen>>,
         frozenTokens \subseteq frozenTokens', chain \subseteq chain',
         height' \in {height, height + 1}
  PROVE  WalletInv'
<1>1. CallTyped'
  BY DEF WalletInv, CallTyped
<1>2. \A o \in call'.frozen : o \in frozen' \/ TokenOf(o) \in frozenTokens'
  BY DEF WalletInv, StillSo
<1> QED
  BY <1>1, <1>2, WorldStep

LEMMA WalletNext ==
  ASSUME WalletInv, [Next]_vars
  PROVE  WalletInv'
<1>1. CASE UNCHANGED vars
  BY <1>1, OtherWorldStep DEF vars, world, storage
<1>2. ASSUME NEW n \in Nodes, NEW t, Store(n, t) \/ Delete(n, t)
      PROVE  WalletInv'
  BY <1>2, OtherWorldStep DEF Store, Delete, storage
<1>3. ASSUME NEW token, FreezePubkey(token)
      PROVE  WalletInv'
  BY <1>3, OtherWorldStep DEF FreezePubkey, storage
<1>4. ASSUME NEW t \in Txids, Broadcast(t)
      PROVE  WalletInv'
  BY <1>4, OtherWorldStep DEF Broadcast, storage
<1>5. CASE MineBlock \/ SwitchNode
  BY ZenonT(30), <1>5, OtherWorldStep DEF MineBlock, SwitchNode, storage
<1> QED
  BY <1>1, <1>2, <1>3, <1>4, <1>5, StartSyncStep, FetchPageStep, IndexTransactionStep,
     PutLastIndexedPageStep, MarkFrozenOutputsStep, EndIndexingStep, mark_spent_utxosStep,
     EndSyncStep, FailSyncStep, ToggleFreezeStep DEF Next

(* What sync leaves as unspent Bitcoin has, nothing had spent when the     *)
(* sync began, no node has held frozen since, and no lock holds: whatever  *)
(* index_transaction read, in whatever order, and whatever happened        *)
(* between the requests of mark_frozen_outputs and mark_spent_utxos.       *)
THEOREM SpendableAlwaysReal ==
  Spec => []SpendableIsReal
<1>1. WalletInv => SpendableIsReal
  BY DEF WalletInv, SpendableIsReal, SpentMarked, NothingLeft, OutputsMine, Unspent,
         stream_unspent_lrc20_outputs, Unlocked
<1> QED
  BY <1>1, WalletInit, WalletNext, PTL DEF Spec

-----------------------------------------------------------------------------
(* What a complete sync has to have found.                                 *)

(* What has ever been stored by a node.                                    *)
Known == chain \cup past.late

(* The wallet knows the outputs of t that it can be asked for.             *)
Have(t) == \A op \in Mine : op[1] = t /\ ProofOf(op).kind # "SparkExit" => op \in DOMAIN outputs

WorldTyped ==
  /\ listed \in [Nodes -> Seq(Txids)] /\ node \in Nodes
  /\ DOMAIN past = {"syncs", "changes", "freezes", "late", "switched", "shifted", "arrived", "moves"}
  /\ past.shifted \in BOOLEAN /\ past.switched \in BOOLEAN
  /\ past.arrived \in Nat /\ past.moves \in Nat /\ past.arrived <= past.moves
  /\ connected_node_id = <<>>
  /\ last_indexed_page = <<>> \/ \E p \in Nat : last_indexed_page = <<p>>
  /\ call.page \in Nat /\ call.txs \in Seq(Txids)
  /\ call.stage \in {"idle", "page", "index", "freeze", "spent", "done"}

(* Everything the wallet has heard of is on Bitcoin, or was late there.    *)
AllKnown ==
  /\ \A n \in Nodes : Stored(n) \subseteq Known
  /\ Range(call.txs) \subseteq Known
  /\ \A op \in DOMAIN outputs : op[1] \in Known

FreezesKnown ==
  /\ frozen \subseteq past.freezes
  /\ \A op \in Mine : TokenOf(op) \in frozenTokens => op \in past.freezes
  /\ call.tokens \subseteq frozenTokens

(* An output is marked for a reason that stays.                            *)
MarkedRightly ==
  \A op \in DOMAIN outputs :
    \/ outputs[op] = "Unspent"
    \/ outputs[op] = "Spent" /\ (op \in SpentBy(Known) \/ op[1] \in past.late)
    \/ outputs[op] = "Frozen" /\ op \in past.freezes

Settled == ~past.shifted /\ ~past.switched

(* Up to where the pages reach that the running sync has fetched.          *)
Fetched == IF call.stage = "index" THEN (call.page + 1) * page_size ELSE call.page * page_size

(* A sync can start at the page before the remembered one.                 *)
PagesCovered ==
  Settled =>
    /\ past.moves <= page_size
    /\ \A p \in Nat : last_indexed_page = <<p>> =>
         /\ p * page_size + 1 <= Len(listed[node]) + past.moves
         /\ \A i \in 1 .. Len(listed[node]) :
              i + past.moves <= p * page_size + 1 => Have(listed[node][i])

(* What was listed when the sync began is in front of what has come since. *)
ListedInFront ==
  Settled /\ InCall =>
    /\ call.listed \subseteq Stored(node)
    /\ past.arrived <= Len(listed[node])
    /\ \A i \in 1 .. Len(listed[node]) :
         i + past.arrived <= Len(listed[node]) => listed[node][i] \in call.listed

(* What is listed on the pages fetched is known, or about to be indexed.   *)
FetchedIndexed ==
  Settled /\ call.stage \in {"page", "index"} =>
    /\ call.stage = "page" => call.txs = <<>>
    /\ call.stage = "index" => call.page * page_size + 1 <= Len(listed[node])
    /\ \A i \in 1 .. Len(listed[node]) :
         listed[node][i] \in call.listed /\ i <= Fetched
           => Have(listed[node][i]) \/ listed[node][i] \in Range(call.txs)

ListedIndexed ==
  Settled /\ call.stage \in {"freeze", "spent", "done"} => \A t \in call.listed : Have(t)

(* The marks of the outputs, and the pages.                                *)
Marks == AllKnown /\ FreezesKnown /\ MarkedRightly
Pages == PagesCovered /\ ListedInFront /\ FetchedIndexed /\ ListedIndexed

BalanceInv == WorldTyped /\ Marks /\ Pages

-----------------------------------------------------------------------------
(* Sequences.                                                              *)

(* The transactions before a page and on it.                               *)
LEMMA PageArithmetic ==
  ASSUME NEW q \in Nat
  PROVE  /\ page_size \in Nat \ {0} /\ q * page_size \in Nat
         /\ (q + 1) * page_size = q * page_size + page_size
  BY WalletAssumption, SMT

LEMMA LargerOfTwo ==
  ASSUME NEW a \in Int, NEW b \in Int
  PROVE  Max({a, b}) = IF a >= b THEN a ELSE b
<1>1. \E x \in {a, b} : \A y \in {a, b} : x >= y
  BY SMT
<1>2. Max({a, b}) \in {a, b} /\ \A y \in {a, b} : Max({a, b}) >= y
  BY <1>1 DEF Max
<1> QED
  BY <1>2, SMT

(* A page of list_lrc20_transactions.                                      *)
LEMMA PageOf ==
  ASSUME NEW n, listed[n] \in Seq(Txids), NEW q \in Nat
  PROVE  LET txs == list_lrc20_transactions(n, q) IN
         /\ txs \in Seq(Txids) /\ Range(txs) \subseteq Stored(n)
         /\ \A i \in 1 .. Len(listed[n]) :
              i <= (q + 1) * page_size => i <= q * page_size \/ listed[n][i] \in Range(txs)
         /\ txs = <<>> => Len(listed[n]) <= q * page_size
         /\ txs # <<>> => q * page_size + 1 <= Len(listed[n])
<1> DEFINE L == listed[n]
           a == q * page_size
           b == (q + 1) * page_size
           c == Min({b, Len(L)})
           txs == SubSeq(L, a + 1, c)
<1>1. L \in Seq(Txids) /\ Len(L) \in Nat
  BY SMT
<1>2. a \in Nat /\ b \in Nat /\ a + 1 <= b
  BY WalletAssumption, SMT
<1> HIDE DEF L, a, b
<1>3. c \in Nat /\ c <= Len(L) /\ c <= b /\ (c = b \/ c = Len(L))
  BY <1>1, <1>2, SMT DEF Min
<1> HIDE DEF c
<1>4. txs \in Seq(Txids) /\ (txs = <<>> <=> c <= a)
  BY <1>1, <1>2, <1>3, SMT
<1>5. Len(txs) = IF c <= a THEN 0 ELSE c - a
  BY <1>1, <1>2, <1>3, SMT
<1>6. \A j \in 1 .. Len(txs) : txs[j] = L[a + j] /\ a + j \in 1 .. Len(L)
  BY <1>1, <1>2, <1>3, <1>5, SMT
<1>7. \A i \in 1 .. Len(L) : i <= b /\ ~(i <= a) => i - a \in 1 .. Len(txs) /\ txs[i - a] = L[i]
  BY <1>1, <1>2, <1>3, <1>5, SMT
<1>8. DOMAIN txs = 1 .. Len(txs) /\ DOMAIN L = 1 .. Len(L)
  BY <1>1, <1>4, SMT
<1> HIDE DEF txs
<1>9. Range(txs) \subseteq Range(L)
  BY <1>6, <1>8 DEF Range
<1>10. \A i \in 1 .. Len(L) : i <= b => i <= a \/ L[i] \in Range(txs)
  BY <1>7, <1>8 DEF Range
<1>11. /\ txs = <<>> => Len(L) <= a
       /\ txs # <<>> => a + 1 <= Len(L)
  BY <1>1, <1>2, <1>3, <1>4, SMT
<1>12. txs = list_lrc20_transactions(n, q)
  BY DEF txs, a, b, c, L, list_lrc20_transactions
<1> QED
  BY <1>4, <1>9, <1>10, <1>11, <1>12 DEF L, a, b, Stored

LEMMA FunctionIsSequence ==
  ASSUME NEW S, NEW n \in Nat, NEW f \in [1 .. n -> S]
  PROVE  f \in Seq(S) /\ Len(f) = n
  BY SMT

LEMMA HeadAndTail ==
  ASSUME NEW S, NEW s \in Seq(S), s # <<>>
  PROVE  Tail(s) \in Seq(S) /\ Head(s) \in Range(s) /\ Range(s) = {Head(s)} \cup Range(Tail(s))
<1>1. Tail(s) \in Seq(S) /\ Len(s) \in Nat \ {0} /\ Head(s) = s[1] /\ DOMAIN s = 1 .. Len(s)
  BY SMT
<1>2. DOMAIN Tail(s) = 1 .. Len(s) - 1 /\ \A j \in 1 .. Len(s) - 1 : Tail(s)[j] = s[j + 1] /\ j + 1 \in 1 .. Len(s)
  BY SMT
<1>3. 1 \in 1 .. Len(s) /\ \A i \in 1 .. Len(s) : i = 1 \/ (i - 1 \in 1 .. Len(s) - 1 /\ (i - 1) + 1 = i)
  BY <1>1, SMT
<1>4. \A x \in Range(s) : x = Head(s) \/ x \in Range(Tail(s))
  <2>1. ASSUME NEW i \in 1 .. Len(s), i # 1
        PROVE  s[i] \in Range(Tail(s))
    <3>1. i - 1 \in DOMAIN Tail(s) /\ Tail(s)[i - 1] = s[i]
      BY <1>2, <1>3, <2>1
    <3> QED
      BY <3>1 DEF Range
  <2> QED
    BY <1>1, <2>1 DEF Range
<1>5. \A x \in Range(Tail(s)) : x \in Range(s)
  <2>1. ASSUME NEW j \in 1 .. Len(s) - 1
        PROVE  Tail(s)[j] \in Range(s)
    BY <1>1, <1>2 DEF Range
  <2> QED
    BY <1>2, <2>1 DEF Range
<1>6. Head(s) \in Range(s)
  BY <1>1, <1>3 DEF Range
<1> QED
  BY <1>1, <1>4, <1>5, <1>6

LEMMA Appended ==
  ASSUME NEW S, NEW s \in Seq(S), NEW t \in S
  PROVE  /\ Append(s, t) \in Seq(S) /\ Len(s) \in Nat /\ Len(Append(s, t)) = Len(s) + 1
         /\ \A i \in 1 .. Len(s) + 1 : IF i = Len(s) + 1 THEN Append(s, t)[i] = t
                                       ELSE i \in 1 .. Len(s) /\ Append(s, t)[i] = s[i]
         /\ Range(Append(s, t)) = Range(s) \cup {t}
<1>1. /\ Append(s, t) \in Seq(S) /\ Len(s) \in Nat /\ Len(Append(s, t)) = Len(s) + 1
      /\ \A i \in 1 .. Len(s) + 1 : IF i = Len(s) + 1 THEN Append(s, t)[i] = t
                                    ELSE i \in 1 .. Len(s) /\ Append(s, t)[i] = s[i]
  BY SMT
<1>2. DOMAIN s = 1 .. Len(s) /\ DOMAIN Append(s, t) = 1 .. Len(s) + 1
  BY SMT
<1>3. Len(s) + 1 \in 1 .. Len(s) + 1 /\ \A i \in 1 .. Len(s) : i \in 1 .. Len(s) + 1 /\ i # Len(s) + 1
  BY <1>1, SMT
<1>4. Range(Append(s, t)) \subseteq Range(s) \cup {t}
  BY <1>1, <1>2 DEF Range
<1>5. Range(s) \cup {t} \subseteq Range(Append(s, t))
  BY <1>1, <1>2, <1>3 DEF Range
<1> QED
  BY <1>1, <1>4, <1>5

(* What Delete leaves of a list.                                           *)
Without(s, i) == [j \in 1 .. Len(s) - 1 |-> IF j < i THEN s[j] ELSE s[j + 1]]

LEMMA Removed ==
  ASSUME NEW S, NEW s \in Seq(S), NEW i \in 1 .. Len(s)
  PROVE  /\ Without(s, i) \in Seq(S) /\ Len(s) \in Nat /\ Len(Without(s, i)) = Len(s) - 1
         /\ \A j \in 1 .. Len(s) - 1 :
              /\ j \in 1 .. Len(s) /\ j + 1 \in 1 .. Len(s)
              /\ Without(s, i)[j] = s[j] \/ Without(s, i)[j] = s[j + 1]
         /\ Range(Without(s, i)) \subseteq Range(s)
<1>1. Len(s) \in Nat /\ Len(s) - 1 \in Nat /\ DOMAIN s = 1 .. Len(s) /\ \A j \in 1 .. Len(s) : s[j] \in S
  BY SMT
<1>2. \A j \in 1 .. Len(s) - 1 : j \in 1 .. Len(s) /\ j + 1 \in 1 .. Len(s)
  BY <1>1, SMT
<1>3. \A j \in 1 .. Len(s) - 1 : Without(s, i)[j] = s[j] \/ Without(s, i)[j] = s[j + 1]
  BY DEF Without
<1>4. DOMAIN Without(s, i) = 1 .. Len(s) - 1 /\ Without(s, i) \in [1 .. Len(s) - 1 -> S]
  BY <1>1, <1>2 DEF Without
<1>5. Without(s, i) \in Seq(S) /\ Len(Without(s, i)) = Len(s) - 1
  BY <1>1, <1>4, FunctionIsSequence
<1>6. Range(Without(s, i)) \subseteq Range(s)
  BY <1>1, <1>2, <1>3, <1>4 DEF Range
<1> QED
  BY <1>1, <1>2, <1>3, <1>5, <1>6

-----------------------------------------------------------------------------
(* The marks.                                                              *)

(* A step that does not touch the outputs: what is known stays so.         *)
LEMMA MarksStay ==
  ASSUME Marks, UNCHANGED outputs,
         call'.tokens \subseteq frozenTokens', Range(call'.txs) \subseteq Known',
         Known \subseteq Known', past.late \subseteq past'.late, past.freezes \subseteq past'.freezes,
         \A n \in Nodes : Range(listed'[n]) \subseteq Known',
         frozen' \subseteq past'.freezes,
         \A op \in Mine : TokenOf(op) \in frozenTokens' => op \in past'.freezes
  PROVE  Marks'
<1>1. SpentBy(Known) \subseteq SpentBy(Known')
  BY DEF SpentBy
<1>2. AllKnown'
  BY DEF Marks, AllKnown, Stored
<1>3. FreezesKnown'
  BY DEF FreezesKnown
<1>4. MarkedRightly'
  BY <1>1 DEF Marks, MarkedRightly, SpentBy
<1> QED
  BY <1>2, <1>3, <1>4 DEF Marks

(* The same when the world does not change either.                         *)
LEMMA MarksInCall ==
  ASSUME Marks, UNCHANGED <<world, outputs>>, past'.late = past.late, past'.freezes = past.freezes,
         call'.tokens \subseteq frozenTokens, Range(call'.txs) \subseteq Known
  PROVE  Marks'
<1>1. UNCHANGED <<listed, frozen, frozenTokens, chain>> /\ Known' = Known
  BY DEF world, Known
<1>2. /\ \A n \in Nodes : Range(listed'[n]) \subseteq Known'
      /\ frozen' \subseteq past'.freezes
      /\ \A op \in Mine : TokenOf(op) \in frozenTokens' => op \in past'.freezes
  BY <1>1 DEF Marks, AllKnown, FreezesKnown, Stored
<1> QED
  BY <1>1, <1>2, MarksStay

LEMMA NothingKnown ==
  Range(<<>>) = {}
  BY SMT DEF Range

LEMMA IndexTransactionMarks ==
  ASSUME WalletInv, WorldTyped, Marks, IndexTransaction, NEW t, t = Head(call.txs)
  PROVE  Marks' /\ DOMAIN outputs \subseteq DOMAIN outputs' /\ Have(t)'
         /\ Tail(call.txs) \in Seq(Txids) /\ Range(call.txs) = {t} \cup Range(Tail(call.txs))
<1> DEFINE new == {op \in {t} \X DOMAIN ProofsOf(t) : Wanted(op)}
<1>1. /\ UNCHANGED <<world, past>> /\ call.txs # <<>>
      /\ outputs' = index_transaction(outputs, t)
      /\ call' = [call EXCEPT !.txs = Tail(call.txs)]
  BY DEF IndexTransaction
<1>2. call'.tokens = call.tokens /\ call'.txs = Tail(call.txs)
  BY <1>1 DEF WalletInv, CallTyped
<1>3. /\ Tail(call.txs) \in Seq(Txids) /\ t \in Range(call.txs)
      /\ Range(call.txs) = {t} \cup Range(Tail(call.txs))
  BY <1>1, HeadAndTail DEF WorldTyped
<1>4. t \in Known /\ Range(Tail(call.txs)) \subseteq Known
  BY <1>3 DEF Marks, AllKnown
<1>5. UNCHANGED <<listed, frozen, frozenTokens, chain>> /\ Known' = Known
  BY <1>1 DEF world, Known
<1> DEFINE added == insert_unspent_lrc20_output(outputs, new)
           spent == {op \in Range(TxOf[t].input) : try_get_unspent_lrc20_output(added, op)}
<1>6. /\ TxOf[t].proofs = <<>> => outputs' = outputs
      /\ TxOf[t].proofs # <<>> => outputs' = set_lrc20_output_state(added, spent, "Spent")
  BY <1>1 DEF index_transaction
<1>7. DOMAIN added = DOMAIN outputs \cup new
  BY DEF insert_unspent_lrc20_output
<1>8. DOMAIN set_lrc20_output_state(added, spent, "Spent") = DOMAIN outputs \cup new
  BY <1>7 DEF set_lrc20_output_state
<1>9. DOMAIN outputs \subseteq DOMAIN outputs' /\ DOMAIN outputs' \subseteq DOMAIN outputs \cup new
  BY <1>6, <1>8
<1>10. \A op \in new : op[1] = t
  OBVIOUS
<1>11. AllKnown'
  <2>1. \A op \in DOMAIN outputs' : op[1] \in Known'
    BY <1>4, <1>5, <1>9, <1>10 DEF Marks, AllKnown
  <2> QED
    BY <1>2, <1>4, <1>5, <2>1 DEF Marks, AllKnown, Stored
<1>12. FreezesKnown'
  BY <1>1, <1>2, <1>5 DEF Marks, FreezesKnown
<1>13. MarkedRightly'
  <2>1. CASE TxOf[t].proofs = <<>>
    BY <1>1, <1>5, <1>6, <2>1 DEF Marks, MarkedRightly, SpentBy
  <2>2. CASE TxOf[t].proofs # <<>>
    <3>1. outputs' = set_lrc20_output_state(added, spent, "Spent")
      BY <1>6, <2>2
    <3>2. \A op \in DOMAIN added : op \in new \/ op \in DOMAIN outputs
      BY <1>7
    <3>3. \A op \in DOMAIN added : IF op \in new THEN added[op] = "Unspent" ELSE added[op] = outputs[op]
      BY DEF insert_unspent_lrc20_output
    <3>4. DOMAIN outputs' = DOMAIN added
      BY <3>1 DEF set_lrc20_output_state
    <3>5. \A op \in DOMAIN added : IF op \in spent THEN outputs'[op] = "Spent" ELSE outputs'[op] = added[op]
      BY <3>1 DEF set_lrc20_output_state
    <3>6. \A op \in spent : op \in SpentBy(Known)
      BY <1>4 DEF SpentBy
    <3> HIDE DEF added, spent, new
    <3>7. ASSUME NEW op \in DOMAIN outputs'
          PROVE  \/ outputs'[op] = "Unspent"
                 \/ outputs'[op] = "Spent" /\ (op \in SpentBy(Known) \/ op[1] \in past.late)
                 \/ outputs'[op] = "Frozen" /\ op \in past.freezes
      <4>1. CASE op \in spent
        BY <3>4, <3>5, <3>6, <4>1
      <4>2. CASE op \notin spent /\ op \in new
        BY <3>3, <3>4, <3>5, <4>2
      <4>3. CASE op \notin spent /\ op \notin new
        <5>1. op \in DOMAIN outputs /\ outputs'[op] = outputs[op]
          BY <3>2, <3>3, <3>4, <3>5, <4>3
        <5> QED
          BY <5>1 DEF Marks, MarkedRightly
      <4> QED
        BY <4>1, <4>2, <4>3
    <3> QED
      BY <1>1, <1>5, <3>7 DEF MarkedRightly, SpentBy
  <2> QED
    BY <2>1, <2>2
<1>14. Have(t)'
  <2>1. ASSUME NEW op \in Mine, op[1] = t, ProofOf(op).kind # "SparkExit"
        PROVE  op \in DOMAIN outputs'
    <3>1. PICK u \in Txids : \E v \in DOMAIN ProofsOf(u) : op = <<u, v>>
      BY <2>1 DEF Mine, Outpoints
    <3>2. u = t
      BY <2>1, <3>1, SMT
    <3>3. op \in {t} \X DOMAIN ProofsOf(t)
      BY <3>1, <3>2, SMT
    <3>4. op \in new
      BY <2>1, <3>3 DEF Wanted
    <3>5. TxOf[t].proofs # <<>>
      BY <3>1, <3>2 DEF ProofsOf
    <3> QED
      BY <1>6, <1>8, <3>4, <3>5
  <2> QED
    BY <2>1 DEF Have
<1> QED
  BY <1>3, <1>9, <1>11, <1>12, <1>13, <1>14 DEF Marks

LEMMA MarkFrozenMarks ==
  ASSUME WalletInv, Marks, MarkFrozenOutputs
  PROVE  Marks' /\ DOMAIN outputs' = DOMAIN outputs
         /\ call'.stage = call.stage /\ call'.page = call.page /\ call'.txs = call.txs /\ call'.listed = call.listed
<1>1. PICK chunk \in SUBSET call.todo :
        LET tokens == call.tokens \cup is_pubkey_frozen({TokenOf(op) : op \in chunk})
        IN  /\ outputs' = set_lrc20_output_state(outputs, FrozenOf(chunk, tokens), "Frozen")
            /\ call' = [call EXCEPT !.todo = call.todo \ chunk, !.tokens = tokens]
  BY DEF MarkFrozenOutputs, kSubset
<1> DEFINE tokens == call.tokens \cup is_pubkey_frozen({TokenOf(op) : op \in chunk})
<1>2. UNCHANGED <<listed, frozen, frozenTokens, chain, past>> /\ Known' = Known
  BY DEF MarkFrozenOutputs, world, Known
<1>3. /\ call'.tokens = tokens /\ call'.txs = call.txs /\ call'.stage = call.stage /\ call'.page = call.page
      /\ call'.listed = call.listed
  BY <1>1 DEF WalletInv, CallTyped
<1>4. tokens \subseteq frozenTokens
  BY DEF Marks, FreezesKnown, is_pubkey_frozen
<1>5. DOMAIN outputs' = DOMAIN outputs
  BY <1>1 DEF set_lrc20_output_state
<1>6. \A op \in DOMAIN outputs :
        IF op \in FrozenOf(chunk, tokens) THEN outputs'[op] = "Frozen" ELSE outputs'[op] = outputs[op]
  BY <1>1 DEF set_lrc20_output_state
<1>7. AllKnown' /\ FreezesKnown'
  BY <1>2, <1>3, <1>4, <1>5 DEF Marks, AllKnown, FreezesKnown, Stored
<1>8. ASSUME NEW op \in DOMAIN outputs, op \in FrozenOf(chunk, tokens)
      PROVE  op \in past.freezes
  <2>1. op \in Mine /\ (op \in frozen \/ TokenOf(op) \in frozenTokens)
    BY <1>4, <1>8 DEF WalletInv, OutputsMine, FrozenOf
  <2> QED
    BY <2>1 DEF Marks, FreezesKnown
<1> HIDE DEF tokens
<1>9. MarkedRightly'
  BY <1>2, <1>5, <1>6, <1>8 DEF Marks, MarkedRightly, SpentBy
<1> QED
  BY <1>3, <1>5, <1>7, <1>9 DEF Marks

LEMMA MarkSpentMarks ==
  ASSUME WalletInv, Marks, mark_spent_utxos
  PROVE  Marks' /\ DOMAIN outputs' = DOMAIN outputs
         /\ call'.stage = call.stage /\ call'.page = call.page /\ call'.txs = call.txs /\ call'.listed = call.listed
<1>1. PICK op \in call.todo :
        outputs' = MarkSpent(op) /\ call' = [call EXCEPT !.todo = call.todo \ {op}]
  BY DEF mark_spent_utxos
<1>2. UNCHANGED <<listed, frozen, frozenTokens, chain, past>> /\ Known' = Known
  BY DEF mark_spent_utxos, world, Known
<1>3. /\ call'.tokens = call.tokens /\ call'.txs = call.txs /\ call'.stage = call.stage /\ call'.page = call.page
      /\ call'.listed = call.listed
  BY <1>1 DEF WalletInv, CallTyped
<1>4. /\ DOMAIN outputs' = DOMAIN outputs
      /\ \A o \in DOMAIN outputs :
           \/ outputs'[o] = outputs[o]
           \/ o = op /\ outputs'[o] = "Spent" /\ get_tx_out_status(op) = "Spent"
  BY <1>1 DEF MarkSpent, set_lrc20_output_state
<1>5. AllKnown' /\ FreezesKnown'
  BY <1>2, <1>3, <1>4 DEF Marks, AllKnown, FreezesKnown, Stored
<1>6. ASSUME op \in DOMAIN outputs, get_tx_out_status(op) = "Spent"
      PROVE  op \in SpentBy(Known) \/ op[1] \in past.late
  <2>1. op[1] \notin chain \/ op \in SpentBy(chain)
    BY <1>6 DEF get_tx_out_status
  <2>2. SpentBy(chain) \subseteq SpentBy(Known)
    BY DEF SpentBy, Known
  <2>3. op[1] \in Known
    BY <1>6 DEF Marks, AllKnown
  <2> QED
    BY <2>1, <2>2, <2>3 DEF Known
<1>7. MarkedRightly'
  BY <1>2, <1>4, <1>6 DEF Marks, MarkedRightly, SpentBy
<1> QED
  BY <1>3, <1>4, <1>5, <1>7 DEF Marks

-----------------------------------------------------------------------------
(* The pages.                                                              *)

LEMMA HaveStays ==
  ASSUME DOMAIN outputs \subseteq DOMAIN outputs'
  PROVE  \A t : Have(t) => Have(t)'
  BY DEF Have

LEMMA PagesUnsettled ==
  ASSUME ~Settled'
  PROVE  Pages'
  BY DEF Pages, PagesCovered, ListedInFront, FetchedIndexed, ListedIndexed

(* A step that moves nothing: neither the list of the node nor the sync.   *)
LEMMA PagesStay ==
  ASSUME Pages, DOMAIN outputs \subseteq DOMAIN outputs', Settled' => Settled,
         UNCHANGED <<node, last_indexed_page>>, listed'[node] = listed[node],
         past'.moves = past.moves, past'.arrived = past.arrived,
         call'.stage = call.stage, call'.page = call.page, call'.txs = call.txs, call'.listed = call.listed
  PROVE  Pages'
<1> SUFFICES ASSUME Settled, Settled'
             PROVE  Pages'
  BY PagesUnsettled
<1>1. \A t : Have(t) => Have(t)'
  BY HaveStays
<1>2. PagesCovered'
  BY <1>1 DEF Pages, PagesCovered
<1>3. ListedInFront'
  BY DEF Pages, ListedInFront, InCall, Stored
<1>4. Fetched' = Fetched
  BY DEF Fetched
<1>5. FetchedIndexed'
  BY <1>1, <1>4 DEF Pages, FetchedIndexed
<1>6. ListedIndexed'
  BY <1>1 DEF Pages, ListedIndexed
<1> QED
  BY <1>2, <1>3, <1>5, <1>6 DEF Pages

(* The sync goes on, and everything else stays as it is.                   *)
LEMMA CoveredInCall ==
  ASSUME Pages, Settled, UNCHANGED <<listed, node, outputs, last_indexed_page>>,
         past'.moves = past.moves, past'.arrived = past.arrived,
         InCall \/ ~InCall', call'.listed = call.listed \/ ~InCall'
  PROVE  PagesCovered' /\ ListedInFront'
<1>1. PagesCovered'
  BY DEF Pages, PagesCovered, Have
<1>2. ListedInFront'
  BY DEF Pages, ListedInFront, Stored
<1> QED
  BY <1>1, <1>2

(* starting_page_number is a page before the last one stored.              *)
LEMMA StartsBefore ==
  ASSUME WorldTyped
  PROVE  /\ starting_page_number \in Nat
         /\ starting_page_number # 0 =>
              \E p \in Nat : last_indexed_page = <<p>> /\ starting_page_number + 1 = p
<1>1. starting_page_number = Max({last_indexed_page_number - 1, 0})
  BY DEF WorldTyped, starting_page_number
<1>2. CASE last_indexed_page = <<>>
  <2>1. last_indexed_page_number = 0
    BY <1>2 DEF last_indexed_page_number
  <2>2. starting_page_number = 0
    BY <1>1, <2>1, SMT DEF Max
  <2> QED
    BY <2>2, SMT
<1>3. CASE \E p \in Nat : last_indexed_page = <<p>>
  <2>1. PICK p \in Nat : last_indexed_page = <<p>>
    BY <1>3
  <2>2. last_indexed_page_number = p
    BY <2>1, SMT DEF last_indexed_page_number
  <2>3. starting_page_number \in Nat /\ (starting_page_number # 0 => starting_page_number + 1 = p)
    <3>1. p - 1 \in Int /\ 0 \in Int
      BY SMT
    <3>2. starting_page_number = IF p - 1 >= 0 THEN p - 1 ELSE 0
      BY <1>1, <2>2, <3>1, LargerOfTwo
    <3> QED
      BY <3>2, SMT
  <2> QED
    BY <2>1, <2>3
<1> QED
  BY <1>2, <1>3 DEF WorldTyped

LEMMA StartSyncBalance ==
  ASSUME WalletInv, BalanceInv, StartSync
  PROVE  BalanceInv'
<1>1. /\ call' = [Idle EXCEPT !.stage = "page", !.page = starting_page_number,
                              !.listed = Stored(node), !.spent = SpentBy(chain),
                              !.frozen = {op \in Outpoints : op \in frozen \/ TokenOf(op) \in frozenTokens}]
      /\ connected_node_id' = IF connected_node_id # <<>> THEN <<node>> ELSE <<>>
      /\ past' = [past EXCEPT !.syncs = past.syncs + 1, !.arrived = 0]
      /\ UNCHANGED <<world, outputs, last_indexed_page>>
  BY DEF StartSync
<1>2. UNCHANGED <<listed, node, frozenTokens>>
  BY <1>1 DEF world
<1>3. /\ call'.stage = "page" /\ call'.page = starting_page_number /\ call'.txs = <<>>
      /\ call'.listed = Stored(node) /\ call'.tokens = {}
  BY <1>1 DEF Idle
<1>4. /\ DOMAIN past' = DOMAIN past /\ past'.arrived = 0 /\ past'.moves = past.moves
      /\ past'.late = past.late /\ past'.freezes = past.freezes
      /\ past'.shifted = past.shifted /\ past'.switched = past.switched
  BY <1>1 DEF BalanceInv, WorldTyped
<1>5. listed[node] \in Seq(Txids) /\ page_size \in Nat \ {0} /\ past.moves \in Nat
  BY WalletAssumption DEF BalanceInv, WorldTyped
<1>6. Len(listed[node]) \in Nat /\ DOMAIN listed[node] = 1 .. Len(listed[node])
  BY <1>5, SMT
<1>7. starting_page_number \in Nat
  BY StartsBefore DEF BalanceInv
<1>8. WorldTyped'
  <2>1. past'.arrived \in Nat /\ past'.arrived <= past'.moves /\ call'.txs \in Seq(Txids)
    BY <1>3, <1>4, <1>5, SMT
  <2> QED
    BY <1>1, <1>2, <1>3, <1>4, <1>7, <2>1 DEF BalanceInv, WorldTyped
<1>9. Marks'
  <2>1. call'.tokens \subseteq frozenTokens /\ Range(call'.txs) \subseteq Known
    BY <1>3, NothingKnown
  <2> QED
    BY <1>1, <1>4, <2>1, MarksInCall DEF BalanceInv
<1>10. Pages'
  <2> SUFFICES ASSUME Settled'
               PROVE  Pages'
    BY PagesUnsettled
  <2>1. Settled
    BY <1>4 DEF Settled
  <2>2. \A t : Have(t)' <=> Have(t)
    BY <1>1 DEF Have
  <2>3. PagesCovered'
    BY <1>1, <1>2, <1>4, <2>1, <2>2 DEF BalanceInv, Pages, PagesCovered
  <2>4. ListedInFront'
    <3>1. past'.arrived <= Len(listed[node])
      BY <1>4, <1>6, SMT
    <3>2. \A i \in 1 .. Len(listed[node]) : listed[node][i] \in Stored(node)
      BY <1>6 DEF Stored, Range
    <3> QED
      BY <1>2, <1>3, <3>1, <3>2 DEF ListedInFront, Stored
  <2>5. FetchedIndexed'
    <3>1. Fetched' = starting_page_number * page_size
      BY <1>3 DEF Fetched
    <3>2. ASSUME NEW i \in 1 .. Len(listed[node]), i <= starting_page_number * page_size
          PROVE  Have(listed[node][i])
      <4>1. starting_page_number # 0
        BY <1>5, <1>6, <3>2, SMT
      <4>2. PICK p \in Nat : last_indexed_page = <<p>> /\ starting_page_number + 1 = p
        BY <4>1, StartsBefore DEF BalanceInv
      <4>3. past.moves <= page_size
        BY <2>1 DEF BalanceInv, Pages, PagesCovered
      <4>4. i + past.moves <= p * page_size + 1
        <5>1. p * page_size = starting_page_number * page_size + page_size
          BY <1>7, <4>2, PageArithmetic
        <5> QED
          BY <1>5, <1>6, <1>7, <3>2, <4>3, <5>1, PageArithmetic, SMT
      <4> QED
        BY <2>1, <4>2, <4>4 DEF BalanceInv, Pages, PagesCovered
    <3> QED
      BY <1>2, <1>3, <2>2, <3>1, <3>2 DEF FetchedIndexed
  <2>6. ListedIndexed'
    BY <1>3 DEF ListedIndexed
  <2> QED
    BY <2>3, <2>4, <2>5, <2>6 DEF Pages
<1> QED
  BY <1>8, <1>9, <1>10 DEF BalanceInv

(* A step of the sync that leaves the outputs, the world and the past.     *)
LEMMA StageBalance ==
  ASSUME BalanceInv, UNCHANGED <<world, storage, past>>,
         call'.stage \in {"idle", "page", "index", "freeze", "spent", "done"},
         call'.page \in Nat, call'.txs \in Seq(Txids), Range(call'.txs) \subseteq Known,
         call'.tokens \subseteq frozenTokens,
         InCall \/ ~InCall', call'.listed = call.listed \/ ~InCall',
         Settled => FetchedIndexed' /\ ListedIndexed'
  PROVE  BalanceInv'
<1>1. UNCHANGED <<listed, node, outputs, last_indexed_page, connected_node_id>>
  BY DEF world, storage
<1>2. WorldTyped'
  BY <1>1 DEF BalanceInv, WorldTyped
<1>3. Marks'
  BY <1>1, MarksInCall DEF BalanceInv
<1>4. Pages'
  <2>1. CASE Settled'
    <3>1. Settled
      BY <2>1 DEF Settled
    <3>2. PagesCovered' /\ ListedInFront'
      BY <1>1, <3>1, CoveredInCall DEF BalanceInv
    <3> QED
      BY <3>1, <3>2 DEF Pages
  <2> QED
    BY <2>1, PagesUnsettled
<1> QED
  BY <1>2, <1>3, <1>4 DEF BalanceInv

LEMMA FetchPageBalance ==
  ASSUME WalletInv, BalanceInv, FetchPage
  PROVE  BalanceInv'
<1> DEFINE txs == list_lrc20_transactions(node, call.page)
           L == listed[node]
<1>1. UNCHANGED <<world, storage, past>> /\ call.stage = "page"
  BY DEF FetchPage
<1>2. UNCHANGED <<listed, node, outputs>>
  BY <1>1 DEF world, storage
<1>3. L \in Seq(Txids) /\ call.page \in Nat /\ node \in Nodes /\ call.txs \in Seq(Txids)
  BY DEF BalanceInv, WorldTyped
<1>4. /\ txs \in Seq(Txids) /\ Range(txs) \subseteq Stored(node)
      /\ \A i \in 1 .. Len(L) :
           i <= (call.page + 1) * page_size => i <= call.page * page_size \/ L[i] \in Range(txs)
      /\ txs = <<>> => Len(L) <= call.page * page_size
      /\ txs # <<>> => call.page * page_size + 1 <= Len(L)
  BY <1>3, PageOf
<1>5. \A t : Have(t)' <=> Have(t)
  BY <1>2 DEF Have
<1>6. ASSUME Settled, NEW i \in 1 .. Len(L), i <= call.page * page_size, L[i] \in call.listed
      PROVE  Have(L[i])
  <2>1. Fetched = call.page * page_size
    BY <1>1 DEF Fetched
  <2>2. call.txs = <<>> /\ (Have(L[i]) \/ L[i] \in Range(call.txs))
    BY <1>1, <1>6, <2>1 DEF BalanceInv, Pages, FetchedIndexed
  <2> QED
    BY <2>2, NothingKnown
<1>7. call.tokens \subseteq frozenTokens /\ Stored(node) \subseteq Known /\ Range(call.txs) \subseteq Known
  BY <1>3 DEF BalanceInv, Marks, FreezesKnown, AllKnown
<1>8. CASE txs # <<>>
  <2>1. call' = [call EXCEPT !.stage = "index", !.txs = txs]
    BY ZenonT(30), <1>8 DEF FetchPage
  <2> HIDE DEF txs
  <2>2. /\ call'.stage = "index" /\ call'.txs = txs /\ call'.page = call.page /\ call'.listed = call.listed
        /\ call'.tokens = call.tokens
    BY <2>1 DEF WalletInv, CallTyped
  <2>3. Settled => FetchedIndexed'
    <3> SUFFICES ASSUME Settled
                 PROVE  FetchedIndexed'
      OBVIOUS
    <3>1. Fetched' = (call.page + 1) * page_size
      BY <2>2 DEF Fetched
    <3>2. ASSUME NEW i \in 1 .. Len(L), L[i] \in call.listed, i <= (call.page + 1) * page_size
          PROVE  Have(L[i]) \/ L[i] \in Range(txs)
      BY <1>4, <1>6, <3>2
    <3> QED
      BY <1>2, <1>4, <1>5, <1>8, <2>2, <3>1, <3>2 DEF FetchedIndexed
  <2>4. ListedIndexed' /\ InCall
    BY <1>1, <2>2 DEF ListedIndexed, InCall
  <2>5. Range(txs) \subseteq Known
    BY <1>4, <1>7
  <2> QED
    BY <1>1, <1>3, <1>4, <1>7, <2>2, <2>3, <2>4, <2>5, StageBalance
<1>9. CASE txs = <<>>
  <2>1. call' = [call EXCEPT !.stage = "freeze", !.todo = Unspent]
    BY ZenonT(30), <1>9 DEF FetchPage, Unspent
  <2>2. /\ call'.stage = "freeze" /\ call'.txs = call.txs /\ call'.page = call.page
        /\ call'.listed = call.listed /\ call'.tokens = call.tokens
    BY <2>1 DEF WalletInv, CallTyped
  <2>3. ASSUME Settled, NEW t \in call.listed
        PROVE  Have(t)
    <3>1. t \in Stored(node)
      BY <1>1, <2>3 DEF BalanceInv, Pages, ListedInFront, InCall
    <3>2. Len(L) \in Nat /\ DOMAIN L = 1 .. Len(L) /\ call.page * page_size \in Nat
      <4>1. Len(L) \in Nat /\ DOMAIN L = 1 .. Len(L)
        BY <1>3, SMT
      <4> QED
        BY <1>3, <4>1, PageArithmetic
    <3>3. PICK i \in 1 .. Len(L) : t = L[i]
      BY <3>1, <3>2 DEF Stored, Range
    <3>4. Len(L) <= call.page * page_size
      BY <1>4, <1>9
    <3> HIDE DEF L
    <3>5. i <= call.page * page_size
      BY <3>2, <3>4, SMT
    <3> QED
      BY <1>6, <2>3, <3>3, <3>5
  <2>4. Settled => FetchedIndexed' /\ ListedIndexed'
    BY <1>5, <2>2, <2>3 DEF FetchedIndexed, ListedIndexed
  <2>5. InCall
    BY <1>1 DEF InCall
  <2> QED
    BY <1>1, <1>3, <1>7, <2>2, <2>4, <2>5, StageBalance
<1> QED
  BY <1>8, <1>9

LEMMA IndexTransactionBalance ==
  ASSUME WalletInv, BalanceInv, IndexTransaction
  PROVE  BalanceInv'
<1>1. /\ UNCHANGED <<world, past, last_indexed_page, connected_node_id>> /\ call.stage = "index"
      /\ call' = [call EXCEPT !.txs = Tail(call.txs)]
  BY DEF IndexTransaction
<1>2. UNCHANGED <<listed, node>>
  BY <1>1 DEF world
<1>3. /\ call'.stage = "index" /\ call'.page = call.page /\ call'.listed = call.listed
      /\ call'.txs = Tail(call.txs)
  BY <1>1 DEF WalletInv, CallTyped
<1>4. PICK t : t = Head(call.txs)
  OBVIOUS
<1>5. /\ Marks' /\ DOMAIN outputs \subseteq DOMAIN outputs' /\ Have(t)'
      /\ Tail(call.txs) \in Seq(Txids) /\ Range(call.txs) = {t} \cup Range(Tail(call.txs))
  BY <1>4, IndexTransactionMarks DEF BalanceInv
<1>6. WorldTyped'
  BY <1>1, <1>2, <1>3, <1>5 DEF BalanceInv, WorldTyped
<1>7. \A u : Have(u) => Have(u)'
  BY <1>5, HaveStays
<1>8. Pages'
  <2> SUFFICES ASSUME Settled'
               PROVE  Pages'
    BY PagesUnsettled
  <2>1. Settled
    BY <1>1 DEF Settled
  <2>2. PagesCovered'
    BY <1>1, <1>2, <1>7, <2>1 DEF BalanceInv, Pages, PagesCovered
  <2>3. ListedInFront'
    BY <1>1, <1>2, <1>3, <2>1 DEF BalanceInv, Pages, ListedInFront, InCall, Stored
  <2>4. Fetched' = Fetched
    <3>1. call.stage = "index" /\ call'.stage = "index" /\ call'.page = call.page
      BY <1>1, <1>3
    <3> QED
      BY <3>1 DEF Fetched
  <2>5. ASSUME NEW x, Have(x) \/ x \in Range(call.txs)
        PROVE  Have(x)' \/ x \in Range(call'.txs)
    BY <1>3, <1>5, <1>7, <2>5
  <2>6. FetchedIndexed'
    <3>1. /\ call.page * page_size + 1 <= Len(listed[node])
          /\ \A i \in 1 .. Len(listed[node]) :
               listed[node][i] \in call.listed /\ i <= Fetched
                 => Have(listed[node][i]) \/ listed[node][i] \in Range(call.txs)
      BY <1>1, <2>1 DEF BalanceInv, Pages, FetchedIndexed
    <3>2. ASSUME NEW i \in 1 .. Len(listed[node]), listed[node][i] \in call.listed, i <= Fetched
          PROVE  (Have(listed[node][i]) \/ listed[node][i] \in Range(call.txs))'
      <4>1. PICK x : x = listed[node][i]
        OBVIOUS
      <4>2. Have(x) \/ x \in Range(call.txs)
        BY <3>1, <3>2, <4>1
      <4>3. Have(x)' \/ x \in Range(call'.txs)
        BY <2>5, <4>2
      <4> QED
        BY <1>2, <4>1, <4>3 DEF Have
    <3> QED
      BY <1>2, <1>3, <2>4, <3>1, <3>2 DEF FetchedIndexed
  <2>7. ListedIndexed'
    BY <1>3 DEF ListedIndexed
  <2> QED
    BY <2>2, <2>3, <2>6, <2>7 DEF Pages
<1> QED
  BY <1>5, <1>6, <1>8 DEF BalanceInv

LEMMA PutLastIndexedPageBalance ==
  ASSUME WalletInv, BalanceInv, PutLastIndexedPage
  PROVE  BalanceInv'
<1> DEFINE L == listed[node]
           q == call.page
<1>1. /\ call.stage = "index" /\ call.txs = <<>>
      /\ last_indexed_page' = <<q>>
      /\ call' = [call EXCEPT !.stage = "page", !.page = call.page + 1]
      /\ past' = [past EXCEPT !.moves = past.arrived]
      /\ UNCHANGED <<world, outputs, connected_node_id>>
  BY DEF PutLastIndexedPage
<1>2. UNCHANGED <<listed, node, frozenTokens>>
  BY <1>1 DEF world
<1>3. /\ call'.stage = "page" /\ call'.page = q + 1 /\ call'.txs = call.txs /\ call'.listed = call.listed
      /\ call'.tokens = call.tokens
  BY <1>1 DEF WalletInv, CallTyped
<1>4. /\ DOMAIN past' = DOMAIN past /\ past'.moves = past.arrived /\ past'.arrived = past.arrived
      /\ past'.shifted = past.shifted /\ past'.switched = past.switched
      /\ past'.late = past.late /\ past'.freezes = past.freezes
  BY <1>1 DEF BalanceInv, WorldTyped
<1>5. /\ L \in Seq(Txids) /\ q \in Nat /\ past.arrived \in Nat /\ past.moves \in Nat
      /\ past.arrived <= past.moves
  BY DEF BalanceInv, WorldTyped
<1>6. /\ page_size \in Nat \ {0} /\ q * page_size \in Nat /\ (q + 1) * page_size = q * page_size + page_size
      /\ Len(L) \in Nat
  <2>1. Len(L) \in Nat
    BY <1>5, SMT
  <2> QED
    BY <1>5, <2>1, PageArithmetic
<1>7. WorldTyped'
  <2>1. q + 1 \in Nat /\ past.arrived <= past.arrived
    BY <1>5, SMT
  <2> QED
    BY <1>1, <1>2, <1>3, <1>4, <1>5, <2>1 DEF BalanceInv, WorldTyped
<1>8. Marks'
  <2>1. call.tokens \subseteq frozenTokens /\ Range(call.txs) \subseteq Known
    BY DEF BalanceInv, Marks, FreezesKnown, AllKnown
  <2> QED
    BY <1>1, <1>3, <1>4, <2>1, MarksInCall DEF BalanceInv
<1>9. Pages'
  <2> SUFFICES ASSUME Settled'
               PROVE  Pages'
    BY PagesUnsettled
  <2>1. Settled
    BY <1>4 DEF Settled
  <2>2. \A t : Have(t)' <=> Have(t)
    BY <1>1 DEF Have
  <2>3. /\ \A i \in 1 .. Len(L) : i + past.arrived <= Len(L) => L[i] \in call.listed
        /\ call.listed \subseteq Stored(node) /\ past.arrived <= Len(L)
    BY <1>1, <2>1 DEF BalanceInv, Pages, ListedInFront, InCall
  <2>4. Fetched = (q + 1) * page_size /\ Fetched' = (q + 1) * page_size
    BY <1>1, <1>3 DEF Fetched
  <2>5. /\ q * page_size + 1 <= Len(L)
        /\ \A i \in 1 .. Len(L) : L[i] \in call.listed /\ i <= Fetched => Have(L[i])
    <3>1. /\ q * page_size + 1 <= Len(L)
          /\ \A i \in 1 .. Len(L) : L[i] \in call.listed /\ i <= Fetched
               => Have(L[i]) \/ L[i] \in Range(call.txs)
      BY <1>1, <2>1 DEF BalanceInv, Pages, FetchedIndexed
    <3> QED
      BY <1>1, <3>1, NothingKnown
  <2>6. past.moves <= page_size
    BY <2>1 DEF BalanceInv, Pages, PagesCovered
  <2> HIDE DEF L, q
  <2>7. past.arrived <= page_size /\ q * page_size + 1 <= Len(L) + past.arrived
    BY <1>5, <1>6, <2>5, <2>6, SMT
  <2>8. ASSUME NEW i \in 1 .. Len(L), i + past.arrived <= q * page_size + 1
        PROVE  Have(L[i])
    <3>1. i + past.arrived <= Len(L) /\ i <= Fetched
      BY <1>5, <1>6, <2>4, <2>5, <2>8, SMT
    <3> QED
      BY <2>3, <2>5, <3>1
  <2>9. \A p \in Nat : <<p>> = <<q>> => p = q
    BY SMT
  <2>10. PagesCovered'
    BY <1>1, <1>2, <1>4, <2>2, <2>7, <2>8, <2>9 DEF PagesCovered, L
  <2>11. ListedInFront'
    BY <1>2, <1>3, <1>4, <2>3 DEF ListedInFront, Stored, L
  <2>12. FetchedIndexed'
    BY <1>1, <1>2, <1>3, <2>2, <2>4, <2>5 DEF FetchedIndexed, L
  <2>13. ListedIndexed'
    BY <1>3 DEF ListedIndexed
  <2> QED
    BY <2>10, <2>11, <2>12, <2>13 DEF Pages
<1> QED
  BY <1>7, <1>8, <1>9 DEF BalanceInv

(* mark_frozen_outputs and mark_spent_utxos: the outputs are the same.     *)
LEMMA MarkBalance ==
  ASSUME WalletInv, BalanceInv, MarkFrozenOutputs \/ mark_spent_utxos
  PROVE  BalanceInv'
<1>1. UNCHANGED <<listed, node, last_indexed_page, connected_node_id, past>>
  BY DEF MarkFrozenOutputs, mark_spent_utxos, world
<1>2. /\ Marks' /\ DOMAIN outputs' = DOMAIN outputs
      /\ call'.stage = call.stage /\ call'.page = call.page /\ call'.txs = call.txs /\ call'.listed = call.listed
  BY MarkFrozenMarks, MarkSpentMarks DEF BalanceInv
<1>3. WorldTyped'
  BY <1>1, <1>2 DEF BalanceInv, WorldTyped
<1>4. Settled' => Settled
  BY <1>1 DEF Settled
<1>5. Pages'
  BY <1>1, <1>2, <1>4, PagesStay DEF BalanceInv
<1> QED
  BY <1>2, <1>3, <1>5 DEF BalanceInv

LEMMA EndStageBalance ==
  ASSUME WalletInv, BalanceInv, EndIndexing \/ EndSync
  PROVE  BalanceInv'
<1>1. /\ UNCHANGED <<world, storage, past>> /\ call.stage \in {"freeze", "spent"}
      /\ \/ call' = [call EXCEPT !.stage = "spent", !.todo = Unspent]
         \/ call' = [call EXCEPT !.stage = "done"]
  BY DEF EndIndexing, EndSync, Unspent
<1>2. /\ call'.stage \in {"spent", "done"} /\ call'.txs = call.txs /\ call'.page = call.page
      /\ call'.listed = call.listed /\ call'.tokens = call.tokens
  BY <1>1 DEF WalletInv, CallTyped
<1>3. \A t : Have(t)' <=> Have(t)
  BY <1>1 DEF Have, storage
<1>4. Settled => FetchedIndexed' /\ ListedIndexed'
  BY <1>1, <1>2, <1>3 DEF BalanceInv, Pages, FetchedIndexed, ListedIndexed
<1>5. InCall
  BY <1>1 DEF InCall
<1>6. /\ call.tokens \subseteq frozenTokens /\ Range(call.txs) \subseteq Known
      /\ call.page \in Nat /\ call.txs \in Seq(Txids)
  BY DEF BalanceInv, WorldTyped, Marks, FreezesKnown, AllKnown
<1> QED
  BY <1>1, <1>2, <1>4, <1>5, <1>6, StageBalance

LEMMA FailSyncBalance ==
  ASSUME BalanceInv, FailSync
  PROVE  BalanceInv'
<1>1. UNCHANGED <<world, storage, past>> /\ call' = Idle
  BY DEF FailSync
<1>2. call'.stage = "idle" /\ call'.page = 0 /\ call'.txs = <<>> /\ call'.tokens = {}
  BY <1>1 DEF Idle
<1>3. 0 \in Nat /\ <<>> \in Seq(Txids)
  BY SMT
<1>4. FetchedIndexed' /\ ListedIndexed' /\ ~InCall'
  BY <1>2 DEF FetchedIndexed, ListedIndexed, InCall
<1>5. call'.tokens \subseteq frozenTokens /\ Range(call'.txs) \subseteq Known
  BY <1>2, NothingKnown
<1> QED
  BY <1>1, <1>2, <1>3, <1>4, <1>5, StageBalance

-----------------------------------------------------------------------------
(* The world.                                                              *)

(* Changed only counts.                                                    *)
LEMMA OnlyCounted ==
  ASSUME NEW p, Changed(p),
         DOMAIN p = {"syncs", "changes", "freezes", "late", "switched", "shifted", "arrived", "moves"}
  PROVE  /\ DOMAIN past' = DOMAIN p /\ past'.freezes = p.freezes /\ past'.late = p.late
         /\ past'.switched = p.switched /\ past'.shifted = p.shifted
         /\ past'.arrived = p.arrived /\ past'.moves = p.moves
  BY DEF Changed

LEMMA MovedFields ==
  ASSUME NEW p,
         DOMAIN p = {"syncs", "changes", "freezes", "late", "switched", "shifted", "arrived", "moves"}
  PROVE  /\ DOMAIN Moved(p) = DOMAIN p /\ Moved(p).freezes = p.freezes /\ Moved(p).late = p.late
         /\ Moved(p).switched = p.switched /\ Moved(p).shifted = (p.shifted \/ p.moves = page_size)
         /\ Moved(p).arrived = p.arrived /\ Moved(p).moves = p.moves + 1
  BY DEF Moved

(* A change that leaves the lists of the nodes: of freezes, of Bitcoin, of *)
(* the node the wallet is set to.                                          *)
LEMMA ListsStay ==
  ASSUME BalanceInv, UNCHANGED <<listed, storage>>, node' \in Nodes,
         node' = node \/ past'.switched, past'.switched \in BOOLEAN, past.switched => past'.switched,
         DOMAIN past' = DOMAIN past, past'.shifted = past.shifted,
         past'.arrived = past.arrived, past'.moves = past.moves,
         call'.stage = call.stage, call'.page = call.page, call'.txs = call.txs,
         call'.listed = call.listed, call'.tokens = call.tokens,
         chain \subseteq chain', past'.late = past.late, past.freezes \subseteq past'.freezes,
         frozenTokens \subseteq frozenTokens', frozen' \subseteq past'.freezes,
         \A op \in Mine : TokenOf(op) \in frozenTokens' => op \in past'.freezes
  PROVE  BalanceInv'
<1>1. UNCHANGED <<outputs, last_indexed_page, connected_node_id>>
  BY DEF storage
<1>2. WorldTyped'
  BY <1>1 DEF BalanceInv, WorldTyped
<1>3. Marks'
  <2>1. Known \subseteq Known'
    BY DEF Known
  <2>2. /\ call'.tokens \subseteq frozenTokens' /\ Range(call'.txs) \subseteq Known'
        /\ \A n \in Nodes : Range(listed'[n]) \subseteq Known'
    BY <2>1 DEF BalanceInv, Marks, FreezesKnown, AllKnown, Stored
  <2> QED
    BY <1>1, <2>1, <2>2, MarksStay DEF BalanceInv
<1>4. Pages'
  <2>1. CASE Settled'
    <3>1. node' = node /\ Settled
      BY <2>1 DEF Settled
    <3> QED
      BY <1>1, <3>1, PagesStay DEF BalanceInv
  <2> QED
    BY <2>1, PagesUnsettled
<1> QED
  BY <1>2, <1>3, <1>4 DEF BalanceInv

LEMMA ToggleFreezeBalance ==
  ASSUME WalletInv, BalanceInv, NEW op \in Mine, ToggleFreeze(op)
  PROVE  BalanceInv'
<1> DEFINE p == [past EXCEPT !.freezes = past.freezes \cup {op}]
<1>1. /\ call' = [call EXCEPT !.frozen = call.frozen \ {op}]
      /\ UNCHANGED <<listed, frozenTokens, chain, node, storage>>
      /\ frozen' \subseteq frozen \cup {op} /\ Changed(p)
  BY DEF ToggleFreeze
<1>2. /\ call'.stage = call.stage /\ call'.page = call.page /\ call'.txs = call.txs
      /\ call'.listed = call.listed /\ call'.tokens = call.tokens
  BY <1>1 DEF WalletInv, CallTyped
<1>3. /\ DOMAIN p = DOMAIN past /\ p.freezes = past.freezes \cup {op} /\ p.late = past.late
      /\ p.switched = past.switched /\ p.shifted = past.shifted
      /\ p.arrived = past.arrived /\ p.moves = past.moves
  BY DEF BalanceInv, WorldTyped
<1> HIDE DEF p
<1>4. /\ DOMAIN past' = DOMAIN past /\ past'.freezes = past.freezes \cup {op} /\ past'.late = past.late
      /\ past'.switched = past.switched /\ past'.shifted = past.shifted
      /\ past'.arrived = past.arrived /\ past'.moves = past.moves
  BY <1>1, <1>3, OnlyCounted DEF BalanceInv, WorldTyped
<1>5. /\ frozen' \subseteq past'.freezes
      /\ \A o \in Mine : TokenOf(o) \in frozenTokens' => o \in past'.freezes
  BY <1>1, <1>4 DEF BalanceInv, Marks, FreezesKnown
<1>6. node \in Nodes /\ past.switched \in BOOLEAN
  BY DEF BalanceInv, WorldTyped
<1> QED
  BY <1>1, <1>2, <1>4, <1>5, <1>6, ListsStay

LEMMA FreezePubkeyBalance ==
  ASSUME BalanceInv, NEW token, FreezePubkey(token)
  PROVE  BalanceInv'
<1> DEFINE ops == {op \in Mine : TokenOf(op) = token}
           p == [past EXCEPT !.freezes = past.freezes \cup ops]
<1>1. /\ frozenTokens' = frozenTokens \cup {token} /\ Changed(p)
      /\ UNCHANGED <<listed, frozen, chain, node, storage, call>>
  BY DEF FreezePubkey
<1>2. /\ DOMAIN p = DOMAIN past /\ p.freezes = past.freezes \cup ops /\ p.late = past.late
      /\ p.switched = past.switched /\ p.shifted = past.shifted
      /\ p.arrived = past.arrived /\ p.moves = past.moves
  BY DEF BalanceInv, WorldTyped
<1> HIDE DEF p
<1>3. /\ DOMAIN past' = DOMAIN past /\ past'.freezes = past.freezes \cup ops /\ past'.late = past.late
      /\ past'.switched = past.switched /\ past'.shifted = past.shifted
      /\ past'.arrived = past.arrived /\ past'.moves = past.moves
  BY <1>1, <1>2, OnlyCounted DEF BalanceInv, WorldTyped
<1>4. /\ frozen' \subseteq past'.freezes
      /\ \A o \in Mine : TokenOf(o) \in frozenTokens' => o \in past'.freezes
  BY <1>1, <1>3 DEF BalanceInv, Marks, FreezesKnown
<1>5. node \in Nodes /\ past.switched \in BOOLEAN /\ frozenTokens \subseteq frozenTokens'
  BY <1>1 DEF BalanceInv, WorldTyped
<1> QED
  BY <1>1, <1>3, <1>4, <1>5, ListsStay

LEMMA BitcoinBalance ==
  ASSUME BalanceInv, (\E t \in Txids : Broadcast(t)) \/ MineBlock \/ UNCHANGED vars
  PROVE  BalanceInv'
<1>1. chain \subseteq chain' /\ UNCHANGED <<listed, frozen, frozenTokens, node, storage, call>>
  BY DEF Broadcast, MineBlock, vars, world, storage
<1>2. /\ DOMAIN past' = DOMAIN past /\ past'.freezes = past.freezes /\ past'.late = past.late
      /\ past'.switched = past.switched /\ past'.shifted = past.shifted
      /\ past'.arrived = past.arrived /\ past'.moves = past.moves
  <2>1. CASE Changed(past)
    BY <2>1, OnlyCounted DEF BalanceInv, WorldTyped
  <2>2. CASE UNCHANGED vars
    BY <2>2 DEF vars
  <2> QED
    BY <2>1, <2>2 DEF Broadcast, MineBlock
<1>3. /\ frozen \subseteq past.freezes
      /\ \A o \in Mine : TokenOf(o) \in frozenTokens => o \in past.freezes
  BY DEF BalanceInv, Marks, FreezesKnown
<1>4. node \in Nodes /\ past.switched \in BOOLEAN
  BY DEF BalanceInv, WorldTyped
<1> QED
  BY <1>1, <1>2, <1>3, <1>4, ListsStay

LEMMA SwitchNodeBalance ==
  ASSUME BalanceInv, SwitchNode
  PROVE  BalanceInv'
<1> DEFINE p == [past EXCEPT !.switched = TRUE]
<1>1. node' \in Nodes /\ Changed(p) /\ UNCHANGED <<listed, frozen, frozenTokens, chain, storage, call>>
  BY DEF SwitchNode
<1>2. /\ DOMAIN p = DOMAIN past /\ p.freezes = past.freezes /\ p.late = past.late
      /\ p.switched = TRUE /\ p.shifted = past.shifted
      /\ p.arrived = past.arrived /\ p.moves = past.moves
  BY DEF BalanceInv, WorldTyped
<1> HIDE DEF p
<1>3. /\ DOMAIN past' = DOMAIN past /\ past'.freezes = past.freezes /\ past'.late = past.late
      /\ past'.switched = TRUE /\ past'.shifted = past.shifted
      /\ past'.arrived = past.arrived /\ past'.moves = past.moves
  BY <1>1, <1>2, OnlyCounted DEF BalanceInv, WorldTyped
<1>4. /\ frozen \subseteq past.freezes
      /\ \A o \in Mine : TokenOf(o) \in frozenTokens => o \in past.freezes
  BY DEF BalanceInv, Marks, FreezesKnown
<1> QED
  BY <1>1, <1>3, <1>4, ListsStay

(* A step of Store or Delete, for the rest than the pages of its node.     *)
LEMMA ListsChange ==
  ASSUME BalanceInv, UNCHANGED <<frozen, frozenTokens, chain, height, node, storage, call>>,
         listed' \in [Nodes -> Seq(Txids)], \A n \in Nodes : Range(listed'[n]) \subseteq Known',
         DOMAIN past' = DOMAIN past, past'.freezes = past.freezes, past.late \subseteq past'.late,
         past'.switched = past.switched, past'.shifted \in BOOLEAN,
         past'.arrived \in Nat, past'.moves \in Nat, past'.arrived <= past'.moves,
         Pages'
  PROVE  BalanceInv'
<1>1. UNCHANGED <<outputs, last_indexed_page, connected_node_id>>
  BY DEF storage
<1>2. WorldTyped'
  BY <1>1 DEF BalanceInv, WorldTyped
<1>3. Known \subseteq Known'
  BY DEF Known
<1>4. /\ call'.tokens \subseteq frozenTokens' /\ Range(call'.txs) \subseteq Known'
      /\ frozen' \subseteq past'.freezes
      /\ \A op \in Mine : TokenOf(op) \in frozenTokens' => op \in past'.freezes
  BY <1>3 DEF BalanceInv, Marks, FreezesKnown, AllKnown
<1>5. Marks'
  BY <1>1, <1>3, <1>4, MarksStay DEF BalanceInv
<1> QED
  BY <1>2, <1>5 DEF BalanceInv

LEMMA StoreBalance ==
  ASSUME BalanceInv, NEW n \in Nodes, NEW t \in Txids, Store(n, t)
  PROVE  BalanceInv'
<1> DEFINE L == listed[node]
           m == Len(L)
           p == [past EXCEPT !.late = IF t \in chain THEN past.late ELSE past.late \cup {t}]
           p1 == [p EXCEPT !.arrived = p.arrived + 1]
           moving == InCall /\ n = node
<1>1. /\ t \notin Stored(n) /\ listed' = [listed EXCEPT ![n] = Append(listed[n], t)]
      /\ Changed(IF moving THEN Moved(p1) ELSE p)
      /\ UNCHANGED <<frozen, frozenTokens, chain, height, node, storage, call>>
  BY DEF Store
<1>2. UNCHANGED <<outputs, last_indexed_page>>
  BY <1>1 DEF storage
<1>3. /\ DOMAIN p = DOMAIN past /\ p.freezes = past.freezes
      /\ p.late = (IF t \in chain THEN past.late ELSE past.late \cup {t})
      /\ p.switched = past.switched /\ p.shifted = past.shifted
      /\ p.arrived = past.arrived /\ p.moves = past.moves
  BY DEF BalanceInv, WorldTyped
<1> HIDE DEF p
<1>4. /\ DOMAIN p1 = DOMAIN past /\ p1.freezes = past.freezes /\ p1.late = p.late
      /\ p1.switched = past.switched /\ p1.shifted = past.shifted
      /\ p1.arrived = past.arrived + 1 /\ p1.moves = past.moves
  BY <1>3 DEF BalanceInv, WorldTyped
<1> HIDE DEF p1
<1>5. /\ DOMAIN past' = DOMAIN past /\ past'.freezes = past.freezes /\ past'.late = p.late
      /\ past'.switched = past.switched
      /\ moving => /\ past'.shifted = (past.shifted \/ past.moves = page_size)
                   /\ past'.arrived = past.arrived + 1 /\ past'.moves = past.moves + 1
      /\ ~moving => /\ past'.shifted = past.shifted
                    /\ past'.arrived = past.arrived /\ past'.moves = past.moves
  <2>1. CASE moving
    <3>1. /\ DOMAIN Moved(p1) = DOMAIN past /\ Moved(p1).freezes = past.freezes /\ Moved(p1).late = p.late
          /\ Moved(p1).switched = past.switched /\ Moved(p1).shifted = (past.shifted \/ past.moves = page_size)
          /\ Moved(p1).arrived = past.arrived + 1 /\ Moved(p1).moves = past.moves + 1
      <4>1. DOMAIN p1 = {"syncs", "changes", "freezes", "late", "switched", "shifted", "arrived", "moves"}
        BY <1>4 DEF BalanceInv, WorldTyped
      <4>2. /\ DOMAIN Moved(p1) = DOMAIN p1 /\ Moved(p1).freezes = p1.freezes /\ Moved(p1).late = p1.late
            /\ Moved(p1).switched = p1.switched /\ Moved(p1).shifted = (p1.shifted \/ p1.moves = page_size)
            /\ Moved(p1).arrived = p1.arrived /\ Moved(p1).moves = p1.moves + 1
        BY <4>1, MovedFields
      <4> QED
        BY <1>4, <4>2
    <3>2. Changed(Moved(p1))
      BY <1>1, <2>1
    <3> QED
      BY <2>1, <3>1, <3>2, OnlyCounted DEF BalanceInv, WorldTyped
  <2>2. CASE ~moving
    <3>1. Changed(p)
      BY <1>1, <2>2
    <3> QED
      BY <1>3, <2>2, <3>1, OnlyCounted DEF BalanceInv, WorldTyped
  <2> QED
    BY <2>1, <2>2
<1> HIDE DEF moving
<1>6. /\ past.arrived \in Nat /\ past.moves \in Nat /\ past.arrived <= past.moves
      /\ past.shifted \in BOOLEAN /\ node \in Nodes /\ call.page \in Nat
      /\ listed \in [Nodes -> Seq(Txids)] /\ listed[n] \in Seq(Txids) /\ L \in Seq(Txids)
  BY DEF BalanceInv, WorldTyped
<1>7. /\ past'.arrived \in Nat /\ past'.moves \in Nat /\ past'.arrived <= past'.moves
      /\ past'.shifted \in BOOLEAN
  <2>1. /\ past.arrived + 1 \in Nat /\ past.moves + 1 \in Nat /\ past.arrived + 1 <= past.moves + 1
    BY <1>6, SMT
  <2> QED
    BY <1>5, <1>6, <2>1
<1>8. Append(listed[n], t) \in Seq(Txids) /\ Range(Append(listed[n], t)) = Stored(n) \cup {t}
  <2>1. /\ Append(listed[n], t) \in Seq(Txids)
        /\ Range(Append(listed[n], t)) = Range(listed[n]) \cup {t}
    <3>1. listed[n] \in Seq(Txids)
      BY <1>6
    <3> QED
      BY <3>1, Appended
  <2> QED
    BY <2>1 DEF Stored
<1>9. listed' \in [Nodes -> Seq(Txids)]
  BY <1>1, <1>6, <1>8
<1>10. \A k \in Nodes : Range(listed'[k]) \subseteq Known'
  <2>1. Known \subseteq Known' /\ t \in Known'
    BY <1>1, <1>3, <1>5 DEF Known
  <2>2. \A k \in Nodes : listed'[k] = IF k = n THEN Append(listed[n], t) ELSE listed[k]
    BY <1>1, <1>6
  <2> QED
    BY <1>8, <2>1, <2>2 DEF BalanceInv, Marks, AllKnown, Stored
<1>11. past.late \subseteq past'.late
  BY <1>3, <1>5
<1>12. Pages'
  <2>1. CASE ~Settled'
    BY <2>1, PagesUnsettled
  <2>2. CASE n # node
    <3>1. listed'[node] = listed[node]
      BY <1>1, <1>6, <2>2
    <3>2. ~moving
      BY <2>2 DEF moving
    <3>3. Settled' => Settled
      BY <1>5, <3>2 DEF Settled
    <3> QED
      BY <1>1, <1>2, <1>5, <3>1, <3>2, <3>3, PagesStay DEF BalanceInv
  <2>3. CASE Settled' /\ n = node
    <3>1. listed'[node] = Append(L, t)
      BY <1>1, <1>6, <2>3
    <3>2. /\ m \in Nat /\ Len(listed'[node]) = m + 1
          /\ \A i \in 1 .. m + 1 : IF i = m + 1 THEN listed'[node][i] = t
                                   ELSE i \in 1 .. m /\ listed'[node][i] = L[i]
          /\ Range(listed'[node]) = Range(L) \cup {t}
      <4>1. /\ Append(L, t) \in Seq(Txids) /\ Len(L) \in Nat /\ Len(Append(L, t)) = Len(L) + 1
            /\ \A i \in 1 .. Len(L) + 1 : IF i = Len(L) + 1 THEN Append(L, t)[i] = t
                                          ELSE i \in 1 .. Len(L) /\ Append(L, t)[i] = L[i]
            /\ Range(Append(L, t)) = Range(L) \cup {t}
        <5>1. L \in Seq(Txids)
          BY <1>6
        <5> HIDE DEF L
        <5> QED
          BY <5>1, Appended
      <4> QED
        BY <3>1, <4>1
    <3>3. Settled /\ (moving => past.moves # page_size)
      BY <1>5, <2>3 DEF Settled
    <3>4. \A u : Have(u)' <=> Have(u)
      BY <1>2 DEF Have
    <3>5. past.moves <= page_size
      BY <3>3 DEF BalanceInv, Pages, PagesCovered
    <3>6. past'.moves <= page_size /\ past.moves <= past'.moves /\ page_size \in Nat
      <4>1. page_size \in Nat
        BY WalletAssumption
      <4>2. past'.moves = past.moves \/ (past'.moves = past.moves + 1 /\ past.moves # page_size)
        BY <1>5, <3>3
      <4> QED
        BY <1>6, <3>5, <4>1, <4>2, SMT
    <3>7. PagesCovered'
      <4>1. ASSUME NEW q \in Nat, last_indexed_page = <<q>>
            PROVE  /\ q * page_size + 1 <= m + 1 + past'.moves
                   /\ \A i \in 1 .. m + 1 : i + past'.moves <= q * page_size + 1 => Have(listed'[node][i])
        <5>1. /\ q * page_size + 1 <= m + past.moves
              /\ \A i \in 1 .. m : i + past.moves <= q * page_size + 1 => Have(L[i])
          BY <3>3, <4>1 DEF BalanceInv, Pages, PagesCovered
        <5>2. q * page_size \in Nat
          BY PageArithmetic
        <5> HIDE DEF L, m
        <5>3. q * page_size + 1 <= m + 1 + past'.moves
          BY <1>6, <1>7, <3>2, <3>6, <5>1, <5>2, SMT
        <5>4. ASSUME NEW i \in 1 .. m + 1, i + past'.moves <= q * page_size + 1
              PROVE  Have(listed'[node][i])
          <6>1. i # m + 1 /\ i + past.moves <= q * page_size + 1
            BY <1>6, <1>7, <3>2, <3>6, <5>1, <5>2, <5>4, SMT
          <6>2. i \in 1 .. m /\ listed'[node][i] = L[i]
            BY <3>2, <6>1
          <6> QED
            BY <5>1, <6>1, <6>2
        <5> QED
          BY <5>3, <5>4
      <4>2. \A q \in Nat : last_indexed_page = <<q>> =>
              /\ q * page_size + 1 <= m + 1 + past'.moves
              /\ \A i \in 1 .. m + 1 : i + past'.moves <= q * page_size + 1 => Have(listed[node][i])'
        <5>1. \A i : Have(listed'[node][i]) => Have(listed[node][i])'
          BY <1>1, <1>2 DEF Have
        <5> QED
          BY <4>1, <5>1
      <4> QED
        BY <1>1, <1>2, <3>2, <3>6, <4>2 DEF PagesCovered
    <3>8. ListedInFront' /\ FetchedIndexed'
      <4>1. CASE InCall
        <5>1. /\ past'.arrived = past.arrived + 1 /\ call.listed \subseteq Stored(node)
              /\ past.arrived <= m
              /\ \A i \in 1 .. m : i + past.arrived <= m => L[i] \in call.listed
          BY <1>5, <2>3, <3>3, <4>1 DEF moving, BalanceInv, Pages, ListedInFront
        <5>2. t \notin call.listed /\ call.listed \subseteq Range(listed'[node])
          BY <1>1, <2>3, <3>2, <5>1 DEF Stored
        <5>3. ListedInFront'
          <6> HIDE DEF L, m
          <6>1. past'.arrived <= m + 1
            BY <1>6, <3>2, <5>1, SMT
          <6>2. ASSUME NEW i \in 1 .. m + 1, i + past'.arrived <= m + 1
                PROVE  listed'[node][i] \in call.listed
            <7>1. i # m + 1 /\ i + past.arrived <= m
              BY <1>6, <3>2, <5>1, <6>2, SMT
            <7> QED
              BY <3>2, <5>1, <7>1
          <6> QED
            BY <1>1, <3>2, <5>2, <6>1, <6>2 DEF ListedInFront, Stored
        <5>4. FetchedIndexed'
          <6> SUFFICES ASSUME call.stage \in {"page", "index"}
                       PROVE  FetchedIndexed'
            BY <1>1 DEF FetchedIndexed
          <6>1. /\ call.stage = "page" => call.txs = <<>>
                /\ call.stage = "index" => call.page * page_size + 1 <= m
                /\ \A i \in 1 .. m : L[i] \in call.listed /\ i <= Fetched
                     => Have(L[i]) \/ L[i] \in Range(call.txs)
            BY <3>3 DEF BalanceInv, Pages, FetchedIndexed
          <6>2. Fetched' = Fetched
            BY <1>1 DEF Fetched
          <6>3. call.stage = "index" => call.page * page_size + 1 <= m + 1
            <7>1. call.page * page_size \in Nat
              BY <1>6, PageArithmetic
            <7> HIDE DEF L, m
            <7> QED
              BY <3>2, <6>1, <7>1, SMT
          <6>4. ASSUME NEW i \in 1 .. m + 1, listed'[node][i] \in call.listed, i <= Fetched
                PROVE  (Have(listed[node][i]) \/ listed[node][i] \in Range(call.txs))'
            <7>1. i \in 1 .. m /\ listed'[node][i] = L[i]
              BY <3>2, <5>2, <6>4
            <7>2. Have(L[i]) \/ L[i] \in Range(call.txs)
              BY <6>1, <6>4, <7>1
            <7> QED
              BY <1>1, <1>2, <7>1, <7>2 DEF Have
          <6> QED
            BY <1>1, <3>2, <6>1, <6>2, <6>3, <6>4 DEF FetchedIndexed
        <5> QED
          BY <5>3, <5>4
      <4>2. CASE ~InCall
        BY <1>1, <4>2 DEF ListedInFront, FetchedIndexed, InCall
      <4> QED
        BY <4>1, <4>2
    <3>9. ListedIndexed'
      BY <1>1, <3>3, <3>4 DEF BalanceInv, Pages, ListedIndexed
    <3> QED
      BY <3>7, <3>8, <3>9 DEF Pages
  <2> QED
    BY <2>1, <2>2, <2>3
<1> QED
  BY <1>1, <1>5, <1>7, <1>9, <1>10, <1>11, <1>12, ListsChange

LEMMA DeleteBalance ==
  ASSUME BalanceInv, NEW n \in Nodes, NEW k \in 1 .. Len(listed[n]), Delete(n, k)
  PROVE  BalanceInv'
<1> DEFINE L == listed[node]
           m == Len(L)
           p == [past EXCEPT !.shifted = past.shifted \/ InCall]
<1>1. /\ listed' = [listed EXCEPT ![n] = Without(listed[n], k)]
      /\ Changed(IF n = node THEN Moved(p) ELSE past)
      /\ UNCHANGED <<frozen, frozenTokens, chain, height, node, storage, call>>
  BY DEF Delete, Without
<1>2. UNCHANGED <<outputs, last_indexed_page>>
  BY <1>1 DEF storage
<1>3. /\ DOMAIN p = DOMAIN past /\ p.freezes = past.freezes /\ p.late = past.late
      /\ p.switched = past.switched /\ p.shifted = (past.shifted \/ InCall)
      /\ p.arrived = past.arrived /\ p.moves = past.moves
  BY DEF BalanceInv, WorldTyped
<1> HIDE DEF p
<1>4. /\ DOMAIN past' = DOMAIN past /\ past'.freezes = past.freezes /\ past'.late = past.late
      /\ past'.switched = past.switched /\ past'.arrived = past.arrived
      /\ n = node => /\ past'.shifted = ((past.shifted \/ InCall) \/ past.moves = page_size)
                     /\ past'.moves = past.moves + 1
      /\ n # node => past'.shifted = past.shifted /\ past'.moves = past.moves
  <2>1. CASE n = node
    <3>1. DOMAIN p = {"syncs", "changes", "freezes", "late", "switched", "shifted", "arrived", "moves"}
      BY <1>3 DEF BalanceInv, WorldTyped
    <3>2. /\ DOMAIN Moved(p) = DOMAIN p /\ Moved(p).freezes = p.freezes /\ Moved(p).late = p.late
          /\ Moved(p).switched = p.switched /\ Moved(p).shifted = (p.shifted \/ p.moves = page_size)
          /\ Moved(p).arrived = p.arrived /\ Moved(p).moves = p.moves + 1
      BY <3>1, MovedFields
    <3>3. /\ DOMAIN Moved(p) = DOMAIN past /\ Moved(p).freezes = past.freezes /\ Moved(p).late = past.late
          /\ Moved(p).switched = past.switched
          /\ Moved(p).shifted = ((past.shifted \/ InCall) \/ past.moves = page_size)
          /\ Moved(p).arrived = past.arrived /\ Moved(p).moves = past.moves + 1
      BY <1>3, <3>2
    <3>4. Changed(Moved(p))
      BY <1>1, <2>1
    <3> QED
      BY <2>1, <3>3, <3>4, OnlyCounted DEF BalanceInv, WorldTyped
  <2>2. CASE n # node
    <3>1. Changed(past)
      BY <1>1, <2>2
    <3> QED
      BY <2>2, <3>1, OnlyCounted DEF BalanceInv, WorldTyped
  <2> QED
    BY <2>1, <2>2
<1>5. /\ past.arrived \in Nat /\ past.moves \in Nat /\ past.arrived <= past.moves
      /\ past.shifted \in BOOLEAN /\ node \in Nodes
      /\ listed \in [Nodes -> Seq(Txids)] /\ listed[n] \in Seq(Txids)
  BY DEF BalanceInv, WorldTyped
<1>6. past'.moves \in Nat /\ past'.arrived \in Nat /\ past'.arrived <= past'.moves /\ past'.shifted \in BOOLEAN
  <2>1. past.moves + 1 \in Nat /\ past.arrived <= past.moves + 1
    BY <1>5, SMT
  <2> QED
    BY <1>4, <1>5, <2>1
<1>7. /\ Without(listed[n], k) \in Seq(Txids) /\ Len(listed[n]) \in Nat
      /\ Len(Without(listed[n], k)) = Len(listed[n]) - 1
      /\ \A j \in 1 .. Len(listed[n]) - 1 :
           /\ j \in 1 .. Len(listed[n]) /\ j + 1 \in 1 .. Len(listed[n])
           /\ Without(listed[n], k)[j] = listed[n][j] \/ Without(listed[n], k)[j] = listed[n][j + 1]
      /\ Range(Without(listed[n], k)) \subseteq Range(listed[n])
  BY <1>5, Removed
<1>8. listed' \in [Nodes -> Seq(Txids)]
  BY <1>1, <1>5, <1>7
<1>9. \A o \in Nodes : listed'[o] = IF o = n THEN Without(listed[n], k) ELSE listed[o]
  BY <1>1, <1>5
<1>10. \A o \in Nodes : Range(listed'[o]) \subseteq Known'
  <2>1. Known' = Known
    BY <1>1, <1>4 DEF Known
  <2> QED
    BY <1>7, <1>9, <2>1 DEF BalanceInv, Marks, AllKnown, Stored
<1>11. Pages'
  <2>1. CASE ~Settled'
    BY <2>1, PagesUnsettled
  <2>2. CASE n # node
    <3>1. listed'[node] = listed[node]
      BY <1>5, <1>9, <2>2
    <3>2. Settled' => Settled
      BY <1>4, <2>2 DEF Settled
    <3> QED
      BY <1>1, <1>2, <1>4, <2>2, <3>1, <3>2, PagesStay DEF BalanceInv
  <2>3. CASE Settled' /\ n = node
    <3>1. /\ m \in Nat /\ Len(listed'[node]) = m - 1
          /\ \A j \in 1 .. m - 1 :
               /\ j \in 1 .. m /\ j + 1 \in 1 .. m
               /\ listed'[node][j] = L[j] \/ listed'[node][j] = L[j + 1]
      BY <1>5, <1>7, <1>9, <2>3
    <3>2. Settled /\ ~InCall /\ past.moves # page_size /\ past'.moves = past.moves + 1
      BY <1>4, <2>3 DEF Settled
    <3>3. \A u : Have(u)' <=> Have(u)
      BY <1>2 DEF Have
    <3>4. past.moves <= page_size /\ page_size \in Nat
      BY <3>2, WalletAssumption DEF BalanceInv, Pages, PagesCovered
    <3>5. past'.moves <= page_size
      BY <1>5, <3>2, <3>4, SMT
    <3>6. ASSUME NEW q \in Nat, last_indexed_page = <<q>>
          PROVE  /\ q * page_size + 1 <= (m - 1) + past'.moves
                 /\ \A j \in 1 .. m - 1 : j + past'.moves <= q * page_size + 1 => Have(listed[node][j])'
      <4>1. /\ q * page_size + 1 <= m + past.moves
            /\ \A i \in 1 .. m : i + past.moves <= q * page_size + 1 => Have(L[i])
        BY <3>2, <3>6 DEF BalanceInv, Pages, PagesCovered
      <4>2. q * page_size \in Nat
        BY PageArithmetic
      <4>3. q * page_size + 1 <= (m - 1) + past'.moves
        <5> HIDE DEF L, m
        <5> QED
          BY <1>5, <3>1, <3>2, <4>1, <4>2, SMT
      <4>4. ASSUME NEW j \in 1 .. m - 1, j + past'.moves <= q * page_size + 1
            PROVE  Have(listed[node][j])'
        <5>1. j + past.moves <= q * page_size + 1 /\ (j + 1) + past.moves <= q * page_size + 1
          <6> HIDE DEF L, m
          <6> QED
            BY <1>5, <3>1, <3>2, <4>2, <4>4, SMT
        <5>2. Have(L[j]) /\ Have(L[j + 1])
          BY <3>1, <4>1, <5>1
        <5>3. listed'[node'][j] = L[j] \/ listed'[node'][j] = L[j + 1]
          BY <1>1, <3>1
        <5> QED
          BY <1>2, <5>2, <5>3 DEF Have
      <4> QED
        BY <4>3, <4>4
    <3>7. PagesCovered'
      BY <1>1, <1>2, <3>1, <3>5, <3>6 DEF PagesCovered
    <3>8. ListedInFront' /\ FetchedIndexed'
      BY <1>1, <3>2 DEF ListedInFront, FetchedIndexed, InCall
    <3>9. ListedIndexed'
      BY <1>1, <3>2, <3>3 DEF BalanceInv, Pages, ListedIndexed
    <3> QED
      BY <3>7, <3>8, <3>9 DEF Pages
  <2> QED
    BY <2>1, <2>2, <2>3
<1>12. past.late \subseteq past'.late
  BY <1>4
<1> QED
  BY <1>1, <1>4, <1>6, <1>8, <1>10, <1>11, <1>12, ListsChange

LEMMA BalanceInit ==
  ASSUME Init
  PROVE  BalanceInv
<1>1. /\ listed = FirstLists /\ node = FirstNode /\ frozen = {} /\ frozenTokens = {}
      /\ chain = FirstChain /\ outputs = <<>> /\ last_indexed_page = <<>> /\ connected_node_id = <<>>
      /\ call = Idle
  BY DEF Init
<1>2. /\ DOMAIN past = {"syncs", "changes", "freezes", "late", "switched", "shifted", "arrived", "moves"}
      /\ past.late = (UNION {Stored(n) : n \in Nodes}) \ FirstChain
      /\ past.switched = FALSE /\ past.shifted = FALSE /\ past.arrived = 0 /\ past.moves = 0
  BY DEF Init
<1>3. call.stage = "idle" /\ call.page = 0 /\ call.txs = <<>> /\ call.tokens = {}
  BY <1>1 DEF Idle
<1>4. 0 \in Nat /\ 0 <= 0 /\ <<>> \in Seq(Txids) /\ DOMAIN outputs = {}
  BY <1>1, SMT
<1>5. WorldTyped
  BY <1>1, <1>2, <1>3, <1>4, WalletAssumption DEF WorldTyped
<1>6. \A n \in Nodes : Stored(n) \subseteq Known
  <2> DEFINE all == UNION {Stored(k) : k \in Nodes}
  <2>1. ASSUME NEW n \in Nodes, NEW t \in Stored(n)
        PROVE  t \in all
    OBVIOUS
  <2>2. Known = FirstChain \cup (all \ FirstChain)
    BY <1>1, <1>2 DEF Known
  <2> HIDE DEF Known, all
  <2>3. ASSUME NEW n \in Nodes, NEW t \in Stored(n)
        PROVE  t \in Known
    BY <2>1, <2>2
  <2> QED
    BY <2>3
<1>7. Marks
  BY <1>1, <1>3, <1>4, <1>6, NothingKnown DEF Marks, AllKnown, FreezesKnown, MarkedRightly
<1>8. Pages
  <2>1. past.moves <= page_size
    BY <1>2, WalletAssumption, SMT
  <2>2. \A p \in Nat : last_indexed_page # <<p>>
    BY <1>1, SMT
  <2> QED
    BY <1>3, <2>1, <2>2 DEF Pages, PagesCovered, ListedInFront, FetchedIndexed, ListedIndexed, InCall
<1> QED
  BY <1>5, <1>7, <1>8 DEF BalanceInv

LEMMA BalanceNext ==
  ASSUME WalletInv, BalanceInv, [Next]_vars
  PROVE  BalanceInv'
<1>1. CASE UNCHANGED vars \/ MineBlock \/ \E t \in Txids : Broadcast(t)
  BY <1>1, BitcoinBalance
<1>2. CASE StartSync \/ FetchPage \/ IndexTransaction \/ PutLastIndexedPage
  BY <1>2, StartSyncBalance, FetchPageBalance, IndexTransactionBalance, PutLastIndexedPageBalance
<1>3. CASE MarkFrozenOutputs \/ mark_spent_utxos
  BY <1>3, MarkBalance
<1>4. CASE EndIndexing \/ EndSync \/ FailSync
  BY <1>4, EndStageBalance, FailSyncBalance
<1>5. CASE \E n \in Nodes, t \in Txids : Store(n, t)
  BY <1>5, StoreBalance
<1>6. CASE \E n \in Nodes : \E i \in 1 .. Len(listed[n]) : Delete(n, i)
  BY <1>6, DeleteBalance
<1>7. CASE \E op \in Mine : ToggleFreeze(op) \/ FreezePubkey(TokenOf(op))
  BY <1>7, ToggleFreezeBalance, FreezePubkeyBalance
<1>8. CASE SwitchNode
  BY <1>8, SwitchNodeBalance
<1> QED
  BY <1>1, <1>2, <1>3, <1>4, <1>5, <1>6, <1>7, <1>8 DEF Next

-----------------------------------------------------------------------------
(* Sums of amounts.                                                        *)

(* f adds up the amounts of the subsets of S, as MapThenSumSet does.       *)
SubsetSum(f, s) ==
  IF s = {} THEN 0 ELSE LET x == CHOOSE x \in s : TRUE IN Amount(x) + f[s \ {x}]
Adds(f, S) == f = [s \in SUBSET S |-> SubsetSum(f, s)]

(* A set of numbers that is not empty has a least one.                     *)
LEMMA LeastNumber ==
  ASSUME NEW B \in SUBSET Nat, B # {}
  PROVE  \E n \in B : \A m \in B : n <= m
<1>1. PICK n \in B : \A m \in B : <<m, n>> \notin OpToRel(<, Nat)
  BY WFMin, NatLessThanWellFounded
<1>2. \A m \in B : ~(m < n)
  BY <1>1 DEF OpToRel
<1> QED
  BY <1>2, SMT

LEMMA SmallerSet ==
  ASSUME NEW S, IsFiniteSet(S), NEW s \in SUBSET S, NEW x \in s
  PROVE  /\ IsFiniteSet(s) /\ Cardinality(s) \in Nat /\ s \ {x} \in SUBSET S
         /\ Cardinality(s \ {x}) \in Nat /\ Cardinality(s \ {x}) + 1 = Cardinality(s)
<1>1. IsFiniteSet(s)
  BY FS_Subset
<1>2. IsFiniteSet(s \ {x}) /\ Cardinality(s \ {x}) = Cardinality(s) - 1
  BY <1>1, FS_RemoveElement
<1>3. Cardinality(s) \in Nat /\ Cardinality(s \ {x}) \in Nat
  BY <1>1, <1>2, FS_CardinalityType
<1>4. Cardinality(s \ {x}) + 1 = Cardinality(s)
  BY <1>2, <1>3, SMT
<1> QED
  BY <1>1, <1>3, <1>4

(* There is such a sum: first for the subsets of at most n elements.       *)
Small(S, n) == {s \in SUBSET S : Cardinality(s) <= n}
AddsSmall(f, S, n) == f = [s \in Small(S, n) |-> SubsetSum(f, s)]

LEMMA AddsMore ==
  ASSUME NEW S, IsFiniteSet(S), NEW n \in Nat, NEW f, AddsSmall(f, S, n)
  PROVE  \E g : AddsSmall(g, S, n + 1)
<1> DEFINE g == [s \in Small(S, n + 1) |-> SubsetSum(f, s)]
<1>1. ASSUME NEW s \in Small(S, n)
      PROVE  s \in Small(S, n + 1)
  <2>1. IsFiniteSet(s) /\ Cardinality(s) \in Nat /\ Cardinality(s) <= n
    BY FS_Subset, FS_CardinalityType DEF Small
  <2> QED
    BY <2>1, SMT DEF Small
<1>2. ASSUME NEW s \in Small(S, n)
      PROVE  g[s] = f[s]
  BY <1>1 DEF AddsSmall
<1>3. ASSUME NEW s \in Small(S, n + 1), s # {}
      PROVE  SubsetSum(f, s) = SubsetSum(g, s)
  <2> DEFINE x == CHOOSE y \in s : TRUE
  <2>1. x \in s
    BY <1>3
  <2>2. s \in SUBSET S /\ Cardinality(s) <= n + 1
    BY DEF Small
  <2>3. s \ {x} \in SUBSET S /\ Cardinality(s \ {x}) \in Nat /\ Cardinality(s \ {x}) + 1 = Cardinality(s)
    BY <2>1, <2>2, SmallerSet
  <2>4. Cardinality(s \ {x}) <= n
    BY <2>2, <2>3, SMT
  <2>5. s \ {x} \in Small(S, n)
    BY <2>3, <2>4 DEF Small
  <2>6. g[s \ {x}] = f[s \ {x}]
    BY <2>5, <1>2
  <2> QED
    BY <2>6 DEF SubsetSum
<1>4. \A s \in Small(S, n + 1) : SubsetSum(f, s) = SubsetSum(g, s)
  BY <1>3 DEF SubsetSum
<1>5. AddsSmall(g, S, n + 1)
  <2> HIDE DEF g
  <2>1. g = [s \in Small(S, n + 1) |-> SubsetSum(f, s)]
    BY DEF g
  <2> QED
    BY <2>1, <1>4 DEF AddsSmall
<1> QED
  BY <1>5

LEMMA AddsExists ==
  ASSUME NEW S, IsFiniteSet(S)
  PROVE  \E f : Adds(f, S)
<1> DEFINE B == {n \in Nat : ~\E f : AddsSmall(f, S, n)}
<1>1. Cardinality(S) \in Nat
  BY FS_CardinalityType
<1>2. 0 \notin B
  <2>1. Small(S, 0) = {{}}
    <3>1. ASSUME NEW s \in Small(S, 0)
          PROVE  s = {}
      <4>1. IsFiniteSet(s) /\ Cardinality(s) \in Nat /\ Cardinality(s) <= 0
        BY FS_Subset, FS_CardinalityType DEF Small
      <4>2. Cardinality(s) = 0
        BY <4>1, SMT
      <4> QED
        BY <4>1, <4>2, FS_EmptySet
    <3>2. {} \in Small(S, 0)
      <4>1. Cardinality({}) = 0
        BY FS_EmptySet
      <4>2. Cardinality({}) <= 0
        BY <4>1, SMT
      <4> QED
        BY <4>2 DEF Small
    <3> QED
      BY <3>1, <3>2
  <2> DEFINE f == [s \in Small(S, 0) |-> 0]
  <2>2. \A s \in Small(S, 0) : SubsetSum(f, s) = 0
    BY <2>1 DEF SubsetSum
  <2>3. AddsSmall(f, S, 0)
    <3> HIDE DEF f
    <3>1. f = [s \in Small(S, 0) |-> 0]
      BY DEF f
    <3> QED
      BY <2>2, <3>1 DEF AddsSmall
  <2> QED
    BY <2>3
<1>3. B = {}
  <2> SUFFICES ASSUME B # {}
               PROVE  FALSE
    OBVIOUS
  <2>1. PICK n \in B : \A m \in B : n <= m
    <3>1. B \in SUBSET Nat
      OBVIOUS
    <3> HIDE DEF B
    <3> QED
      BY <3>1, LeastNumber
  <2>2. n \in Nat /\ n # 0
    BY <1>2, <2>1
  <2>3. n - 1 \in Nat /\ ~(n <= n - 1) /\ (n - 1) + 1 = n
    BY <2>2, SMT
  <2>4. PICK f : AddsSmall(f, S, n - 1)
    BY <2>1, <2>3
  <2>5. \E g : AddsSmall(g, S, (n - 1) + 1)
    BY <2>3, <2>4, AddsMore
  <2>6. \E g : AddsSmall(g, S, n)
    BY <2>3, <2>5
  <2> QED
    BY <2>1, <2>6
<1>4. PICK f : AddsSmall(f, S, Cardinality(S))
  BY <1>1, <1>3
<1>5. ASSUME NEW s \in SUBSET S
      PROVE  s \in Small(S, Cardinality(S))
  BY FS_Subset DEF Small
<1>6. Small(S, Cardinality(S)) = SUBSET S
  BY <1>5 DEF Small
<1> QED
  BY <1>4, <1>6 DEF AddsSmall, Adds

LEMMA SumIsFold ==
  ASSUME NEW S, IsFiniteSet(S)
  PROVE  \E f : Adds(f, S) /\ MapThenSumSet(Amount, S) = f[S]
<1> DEFINE iter[s \in SUBSET S] ==
             IF s = {} THEN 0 ELSE LET x == CHOOSE x \in s : TRUE IN Amount(x) + iter[s \ {x}]
<1>1. MapThenSumSet(Amount, S) = iter[S]
  BY DEF MapThenSumSet, MapThenFoldSet
<1>2. Adds(iter, S)
  BY AddsExists DEF Adds, SubsetSum
<1> QED
  BY <1>1, <1>2

(* Whatever element is taken out first, the sum is the same.               *)
AnyFirst(f, s) == f[s] \in Nat /\ \A y \in s : f[s] = Amount(y) + f[s \ {y}]

LEMMA AnyElementFirst ==
  ASSUME NEW S, IsFiniteSet(S), \A x \in S : Amount(x) \in Nat, NEW f, Adds(f, S)
  PROVE  \A s \in SUBSET S : AnyFirst(f, s)
<1> DEFINE Right(s) == f[s] \in Nat /\ \A y \in s : f[s] = Amount(y) + f[s \ {y}]
           B == {n \in Nat : \E s \in SUBSET S : Cardinality(s) = n /\ ~Right(s)}
<1>1. SUFFICES ASSUME B # {}
               PROVE  FALSE
  <2>1. ASSUME NEW s \in SUBSET S
        PROVE  Right(s)
    <3>1. Cardinality(s) \in Nat
      BY FS_Subset, FS_CardinalityType
    <3> QED
      BY <1>1, <3>1
  <2> QED
    BY <2>1 DEF AnyFirst
<1>2. PICK n \in B : \A m \in B : n <= m
  <2>1. B \in SUBSET Nat
    OBVIOUS
  <2> HIDE DEF B
  <2> QED
    BY <1>1, <2>1, LeastNumber
<1>3. PICK s \in SUBSET S : Cardinality(s) = n /\ ~Right(s)
  BY <1>2
<1>4. ASSUME NEW r \in SUBSET S, Cardinality(r) \in Nat, Cardinality(r) + 1 = n
      PROVE  Right(r)
  <2>1. ~(n <= Cardinality(r))
    BY <1>4, SMT
  <2> QED
    BY <1>2, <1>4, <2>1
<1> HIDE DEF B
<1>5. s # {}
  <2>1. ASSUME s = {}
        PROVE  Right(s)
    <3>1. f[s] = 0
      BY <2>1 DEF Adds, SubsetSum
    <3>2. f[s] \in Nat
      BY <3>1, SMT
    <3> QED
      BY <2>1, <3>2
  <2> QED
    BY <1>3, <2>1
<1> DEFINE x == CHOOSE y \in s : TRUE
<1>6. x \in s
  BY <1>5
<1>7. f[s] = Amount(x) + f[s \ {x}]
  BY <1>5 DEF Adds, SubsetSum
<1> HIDE DEF x
<1>8. ASSUME NEW y \in s
      PROVE  Right(s \ {y}) /\ s \ {y} \in SUBSET S
  <2>1. s \ {y} \in SUBSET S /\ Cardinality(s \ {y}) \in Nat /\ Cardinality(s \ {y}) + 1 = n
    BY <1>3, SmallerSet
  <2> QED
    BY <1>4, <2>1
<1>9. f[s] \in Nat
  <2>1. Amount(x) \in Nat /\ f[s \ {x}] \in Nat
    BY <1>6, <1>8
  <2> QED
    BY <1>7, <2>1, SMT
<1>10. ASSUME NEW y \in s, y # x
       PROVE  f[s] = Amount(y) + f[s \ {y}]
  <2> DEFINE r == (s \ {x}) \ {y}
  <2>1. (s \ {y}) \ {x} = r
    OBVIOUS
  <2>2. x \in s \ {y} /\ y \in s \ {x}
    BY <1>6, <1>10
  <2>3. f[s \ {x}] = Amount(y) + f[r]
    BY <1>6, <1>8, <2>2
  <2>4. f[s \ {y}] = Amount(x) + f[r]
    BY <1>8, <2>1, <2>2
  <2>5. Amount(x) \in Nat /\ Amount(y) \in Nat /\ f[r] \in Nat
    <3>1. Cardinality(r) \in Nat /\ r \in SUBSET (s \ {x}) /\ r \in SUBSET S
      BY FS_Subset, FS_CardinalityType
    <3>2. f[r] \in Nat
      <4>1. Cardinality(s \ {x}) \in Nat /\ Cardinality(s \ {x}) + 1 = n /\ Cardinality(r) + 1 = Cardinality(s \ {x})
        <5>1. Cardinality(s \ {x}) \in Nat /\ Cardinality(s \ {x}) + 1 = n
          BY <1>3, <1>6, SmallerSet
        <5>2. s \ {x} \in SUBSET S
          OBVIOUS
        <5> QED
          BY <2>2, <5>1, <5>2, SmallerSet
      <4>2. n \in Nat /\ ~(n <= Cardinality(r))
        BY <3>1, <4>1, SMT
      <4>3. Cardinality(r) \notin B
        BY <1>2, <4>2
      <4> QED
        BY <3>1, <4>3 DEF B
    <3> QED
      BY <1>6, <3>2
  <2> QED
    BY <1>7, <2>3, <2>4, <2>5, SMT
<1> QED
  BY <1>3, <1>7, <1>9, <1>10

(* More outputs have no smaller sum.                                       *)
LEMMA SumGrows ==
  ASSUME NEW U, IsFiniteSet(U), NEW T \in SUBSET U, \A x \in U : Amount(x) \in Nat
  PROVE  MapThenSumSet(Amount, U) >= MapThenSumSet(Amount, T)
<1>1. IsFiniteSet(T) /\ \A x \in T : Amount(x) \in Nat
  BY FS_Subset
<1>2. PICK f : Adds(f, T) /\ MapThenSumSet(Amount, T) = f[T]
  BY <1>1, SumIsFold
<1>3. PICK g : Adds(g, U) /\ MapThenSumSet(Amount, U) = g[U]
  BY SumIsFold
<1>4. \A s \in SUBSET T : AnyFirst(f, s)
  BY <1>1, <1>2, AnyElementFirst
<1>5. \A s \in SUBSET U : AnyFirst(g, s)
  BY <1>3, AnyElementFirst
<1> DEFINE Less(s) == \A r \in SUBSET U : s \subseteq r => f[s] <= g[r]
           B == {n \in Nat : \E s \in SUBSET T : Cardinality(s) = n /\ ~Less(s)}
<1>6. B = {}
  <2> SUFFICES ASSUME B # {}
               PROVE  FALSE
    OBVIOUS
  <2>1. PICK n \in B : \A m \in B : n <= m
    <3>1. B \in SUBSET Nat
      OBVIOUS
    <3> HIDE DEF B
    <3> QED
      BY <3>1, LeastNumber
  <2>2. PICK s \in SUBSET T : Cardinality(s) = n /\ ~Less(s)
    BY <2>1
  <2>3. PICK r \in SUBSET U : s \subseteq r /\ ~(f[s] <= g[r])
    BY <2>2
  <2>4. CASE s = {}
    <3>1. f[s] = 0
      BY <1>2, <2>4 DEF Adds, SubsetSum
    <3>2. g[r] \in Nat
      BY <1>5 DEF AnyFirst
    <3> QED
      BY <2>3, <3>1, <3>2, SMT
  <2>5. CASE s # {}
    <3>1. PICK x \in s : TRUE
      BY <2>5
    <3>2. s \ {x} \in SUBSET T /\ Cardinality(s \ {x}) \in Nat /\ Cardinality(s \ {x}) + 1 = n
      BY <1>1, <2>2, <3>1, SmallerSet
    <3>3. n \in Nat /\ ~(n <= Cardinality(s \ {x}))
      BY <3>2, SMT
    <3>4. Less(s \ {x})
      BY <2>1, <3>2, <3>3
    <3>5. x \in r /\ r \ {x} \in SUBSET U /\ s \ {x} \subseteq r \ {x}
      BY <2>3, <3>1
    <3>6. f[s \ {x}] <= g[r \ {x}]
      BY <3>4, <3>5
    <3>7. f[s] = Amount(x) + f[s \ {x}] /\ f[s \ {x}] \in Nat
      BY <1>4, <3>1, <3>2 DEF AnyFirst
    <3>8. g[r] = Amount(x) + g[r \ {x}] /\ g[r \ {x}] \in Nat
      BY <1>5, <3>5 DEF AnyFirst
    <3>9. Amount(x) \in Nat
      BY <2>3, <3>1
    <3> QED
      BY <2>3, <3>6, <3>7, <3>8, <3>9, SMT
  <2> QED
    BY <2>4, <2>5
<1>7. f[T] <= g[U]
  <2>1. Cardinality(T) \in Nat
    BY <1>1, FS_CardinalityType
  <2> QED
    BY <1>6, <2>1
<1>8. f[T] \in Nat /\ g[U] \in Nat
  BY <1>4, <1>5 DEF AnyFirst
<1> QED
  BY <1>2, <1>3, <1>7, <1>8, SMT

-----------------------------------------------------------------------------
(* The balance.                                                            *)

LEMMA DueUnspent ==
  ASSUME WalletInv, BalanceInv, call.stage = "done", Settled
  PROVE  Due \subseteq Unspent
<1> SUFFICES ASSUME NEW op \in Due
             PROVE  op \in Unspent
  OBVIOUS
<1>1. /\ op \in Mine /\ op[1] \in call.listed /\ op[1] \notin past.late
      /\ op \notin SpentBy(Known) /\ op \notin past.freezes /\ ProofOf(op).kind # "SparkExit"
  BY DEF Due, Known
<1>2. Have(op[1])
  BY <1>1 DEF BalanceInv, Pages, ListedIndexed
<1>3. op \in DOMAIN outputs
  BY <1>1, <1>2 DEF Have
<1>4. outputs[op] = "Unspent"
  BY <1>1, <1>3 DEF BalanceInv, Marks, MarkedRightly
<1> QED
  BY <1>3, <1>4 DEF Unspent, stream_unspent_lrc20_outputs

LEMMA DueIsCounted ==
  ASSUME WalletInv, Due \subseteq Unspent
  PROVE  AllDueCounted
<1> DEFINE apart == {"EmptyReceipt", "Bulletproof"}
           counted == Unspent \ {op \in Unspent : ProofOf(op).kind \in apart}
           of(token) == {op \in counted : TokenOf(op) = token}
<1>1. Due \subseteq lrc20_utxos \cup tweaked_satoshi_utxos
  BY DEF lrc20_utxos, tweaked_satoshi_utxos, utxos, Unspent
<1>2. \A op \in Due : <<op, Amount(op)>> \in utxos_by_token_pubkey(TokenOf(op))
  BY DEF utxos_by_token_pubkey, utxos, Unspent, TokenOf
<1>3. balances.lrc20 = [token \in {TokenOf(op) : op \in counted} |-> MapThenSumSet(Amount, of(token))]
  BY DEF balances, Unspent
<1>4. ASSUME NEW token \in {TokenOf(op) : op \in Counted}
      PROVE  /\ token \in DOMAIN balances.lrc20
             /\ balances.lrc20[token] >= MapThenSumSet(Amount, {op \in Counted : TokenOf(op) = token})
  <2> DEFINE due == {op \in Counted : TokenOf(op) = token}
  <2>1. Counted \subseteq counted
    BY DEF Counted
  <2>2. token \in {TokenOf(op) : op \in counted}
    BY <2>1
  <2>3. due \subseteq of(token)
    BY <2>1
  <2>4. \A op \in of(token) : Amount(op) \in Nat /\ op \in Outpoints
    <3>1. \A op \in of(token) : op \in Mine /\ ProofOf(op).kind \notin apart
      BY DEF WalletInv, OutputsMine, Unspent, stream_unspent_lrc20_outputs
    <3> QED
      BY <3>1, WalletAssumption DEF Mine
  <2>5. IsFiniteSet(of(token))
    BY <2>4, WalletAssumption, FS_Subset
  <2>6. MapThenSumSet(Amount, of(token)) >= MapThenSumSet(Amount, due)
    <3> HIDE DEF of, due
    <3> QED
      BY <2>3, <2>4, <2>5, SumGrows
  <2> HIDE DEF of, counted
  <2> QED
    BY <1>3, <2>2, <2>6
<1> QED
  BY <1>1, <1>2, <1>4 DEF AllDueCounted

(* The balances after a sync miss nothing that is due, however often the   *)
(* syncs before have failed on the way, wherever starting_page_number lets *)
(* it begin, and whatever Bitcoin, the freezes and the other nodes do.     *)
THEOREM BalanceAlwaysComplete ==
  Spec => []BalanceComplete
<1>1. ASSUME WalletInv, BalanceInv
      PROVE  BalanceComplete
  <2>1. ASSUME call.stage = "done", ~past.shifted, ~past.switched
        PROVE  AllDueCounted
    <3>1. Due \subseteq Unspent
      BY <1>1, <2>1, DueUnspent DEF Settled
    <3> QED
      BY <1>1, <3>1, DueIsCounted
  <2> QED
    BY <2>1 DEF BalanceComplete
<1> QED
  BY <1>1, WalletInit, WalletNext, BalanceInit, BalanceNext, PTL DEF Spec

=============================================================================
