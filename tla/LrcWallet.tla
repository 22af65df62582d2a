----------------------------- MODULE LrcWallet ------------------------------
(***************************************************************************)
(* The LRC20 side of the wallet (crates/dev-kit): the outputs it keeps,    *)
(* Lrc20TransactionsIndexer, which fills them from the pages of            *)
(* transactions a node lists, and the balances.  The Bitcoin side is       *)
(* WalletSync.                                                             *)
(*                                                                         *)
(* An outpoint is <<txid, vout>>, a proof is one of ReceiptProofs.  The    *)
(* node is seen through four calls: listlrc20transactions,                 *)
(* islrc20txoutfrozen, ispubkeyfrozen, and gettxout of its Bitcoin node.   *)
(***************************************************************************)
EXTENDS Integers, Sequences, FiniteSets, FiniteSetsExt, Functions, TLC

CONSTANTS
    TxOf,           \* txid -> [input: outpoints, output: values in satoshis, proofs: <<>> or <<vout -> proof>>]
    Pubkey,         \* the key of the wallet
    FirstNode,      \* the node it is configured with at first
    page_size,      \* transactions on a page of a node
    ChunkSize,      \* outputs asked about at a time by mark_frozen_outputs: 40
    FirstChain, FirstLists,     \* what Bitcoin has, and what each node lists, when the wallet is set up
    MaxSyncs, MaxChanges        \* bounds: the calls of sync, and the changes of the world meanwhile

Nodes == DOMAIN FirstLists
P == INSTANCE ReceiptProofs WITH METADATA_MAX_SIZE <- 0

VARIABLES
    listed,             \* node -> the transactions it stores, by arrival
    frozen,             \* the outputs the nodes hold frozen
    frozenTokens,       \* the tokens for which they hold the wallet's key frozen
    chain,              \* the transactions Bitcoin has
    height,             \* the height of the chain
    node,               \* WalletConfig::lrc20_url
    outputs,            \* the table lrc20_outputs: outpoint -> Unspent, Spent or Frozen
    last_indexed_page, connected_node_id,   \* the table key_value
    call,               \* the running sync, and what held since it began
    past                \* what happened so far: counters for the bounds, and for the properties

world == <<listed, frozen, frozenTokens, chain, height, node>>
storage == <<outputs, last_indexed_page, connected_node_id>>
vars == <<world, storage, call, past>>

Txids == DOMAIN TxOf
ProofsOf(t) == IF TxOf[t].proofs = <<>> THEN [v \in {} |-> {}] ELSE TxOf[t].proofs[1]
ProofOf(op) == ProofsOf(op[1])[op[2]]
Outpoints == UNION {{<<t, v>> : v \in DOMAIN ProofsOf(t)} : t \in Txids}
Mine == {op \in Outpoints : Pubkey \in P!spender_keys(ProofOf(op))}
TokenOf(op) == P!receipt(ProofOf(op)).token
SpentBy(txids) == UNION {Range(TxOf[t].input) : t \in txids}
Stored(n) == Range(listed[n])

Idle == [stage |-> "idle", page |-> 0, txs |-> <<>>, todo |-> {}, tokens |-> {},
         listed |-> {}, spent |-> {}, frozen |-> {}]
\* Every change of the world is one of MaxChanges.
Changed(p) == past.changes < MaxChanges /\ past' = [p EXCEPT !.changes = @ + 1]

InCall == call.stage \notin {"idle", "done"}

(***************************************************************************)
(* Storage: the in-memory database and the SQLite one answer alike.        *)
(***************************************************************************)
\* For the outputs ops, one after the other.  INSERT OR REPLACE: whatever
\* the state was, it is Unspent again.
insert_unspent_lrc20_output(outs, ops) ==
  [op \in DOMAIN outs \cup ops |-> IF op \in ops THEN "Unspent" ELSE outs[op]]

\* The query does not ask for the state.
try_get_unspent_lrc20_output(outs, op) == op \in DOMAIN outs

stream_unspent_lrc20_outputs(outs) == {op \in DOMAIN outs : outs[op] = "Unspent"}

\* An output that is not there is an error of the in-memory database and nothing to SQLite;
\* neither happens.
set_lrc20_output_state(outs, ops, state) ==
  [op \in DOMAIN outs |-> IF op \in ops THEN state ELSE outs[op]]

last_indexed_page_number == IF last_indexed_page = <<>> THEN 0 ELSE last_indexed_page[1]

(***************************************************************************)
(* The calls to the node and to Bitcoin.                                   *)
(***************************************************************************)
\* get_lrc_20_transactions: a page of all the stored transactions, whatever their status.
list_lrc20_transactions(n, page) ==
  SubSeq(listed[n], page * page_size + 1, Min({(page + 1) * page_size, Len(listed[n])}))

\* Esplora answers NotFound where Bitcoin Core's gettxout answers nothing, taken as spent.
get_tx_out_status(op) == IF op[1] \in chain /\ op \notin SpentBy(chain) THEN "Unspent" ELSE "Spent"

(***************************************************************************)
(* Lrc20TransactionsIndexer                                                *)
(***************************************************************************)
\* Mutant: from the page behind the last one.
starting_page_numberNext == last_indexed_page_number + 1
\* starting_page_number; an unknown id counts as the one at hand.
starting_page_number ==
  IF connected_node_id # <<>> /\ connected_node_id # <<node>>
    THEN 0
    ELSE Max({last_indexed_page_number - 1, 0})

\* The outputs index_transaction adds: not one that leaves Spark and is still locked.
Wanted(op) ==
  /\ op \in Mine
  /\ ProofOf(op).kind = "SparkExit" => ProofOf(op).locktime <= height

\* index_transaction: first the outputs, then the inputs the wallet has.
index_transaction(outs, t) ==
  LET added == insert_unspent_lrc20_output(outs, {op \in {t} \X DOMAIN ProofsOf(t) : Wanted(op)})
      spent == {op \in Range(TxOf[t].input) : try_get_unspent_lrc20_output(added, op)}
  IN IF TxOf[t].proofs = <<>> THEN outs
     ELSE set_lrc20_output_state(added, spent, "Spent")

\* A chunk of mark_frozen_outputs: only the tokens found frozen are remembered.
is_pubkey_frozen(tokens) == tokens \cap frozenTokens
FrozenOf(chunk, tokens) == {op \in chunk : op \in frozen \/ TokenOf(op) \in tokens}

Init ==
  /\ listed = FirstLists /\ node = FirstNode
  /\ frozen = {} /\ frozenTokens = {}
  /\ chain = FirstChain /\ height = 0
  /\ outputs = <<>> /\ last_indexed_page = <<>> /\ connected_node_id = <<>>
  /\ call = Idle
  /\ past = [syncs |-> 0, changes |-> 0, freezes |-> {}, late |-> (UNION {Stored(n) : n \in Nodes}) \ FirstChain,
             switched |-> FALSE, shifted |-> FALSE, arrived |-> 0, moves |-> 0]

(***************************************************************************)
(* Wallet::sync.                                                           *)
(***************************************************************************)
StartSync ==
  /\ ~InCall /\ past.syncs < MaxSyncs
  /\ call' = [Idle EXCEPT !.stage = "page", !.page = starting_page_number,
                          !.listed = Stored(node), !.spent = SpentBy(chain),
                          !.frozen = {op \in Outpoints : op \in frozen \/ TokenOf(op) \in frozenTokens}]
  /\ connected_node_id' = IF connected_node_id # <<>> THEN <<node>> ELSE <<>>
  /\ past' = [past EXCEPT !.syncs = @ + 1, !.arrived = 0]
  /\ UNCHANGED <<world, outputs, last_indexed_page>>

\* transaction_pages_stream ends with the first empty page.
FetchPage ==
  /\ call.stage = "page"
  /\ LET txs == list_lrc20_transactions(node, call.page)
     IN call' = IF txs # <<>> THEN [call EXCEPT !.stage = "index", !.txs = txs]
                ELSE [call EXCEPT !.stage = "freeze", !.todo = stream_unspent_lrc20_outputs(outputs)]
  /\ UNCHANGED <<world, storage, past>>

IndexTransaction ==
  /\ call.stage = "index" /\ call.txs # <<>>
  /\ outputs' = index_transaction(outputs, Head(call.txs))
  /\ call' = [call EXCEPT !.txs = Tail(@)]
  /\ UNCHANGED <<world, last_indexed_page, connected_node_id, past>>

PutLastIndexedPage ==
  /\ call.stage = "index" /\ call.txs = <<>>
  /\ last_indexed_page' = <<call.page>>
  /\ call' = [call EXCEPT !.stage = "page", !.page = @ + 1]
  /\ past' = [past EXCEPT !.moves = past.arrived]
  /\ UNCHANGED <<world, outputs, connected_node_id>>

MarkFrozenOutputs ==
  /\ call.stage = "freeze" /\ call.todo # {}
  /\ \E chunk \in kSubset(Min({ChunkSize, Cardinality(call.todo)}), call.todo) :
       LET tokens == call.tokens \cup is_pubkey_frozen({TokenOf(op) : op \in chunk})
       IN /\ outputs' = set_lrc20_output_state(outputs, FrozenOf(chunk, tokens), "Frozen")
          /\ call' = [call EXCEPT !.todo = @ \ chunk, !.tokens = tokens]
  /\ UNCHANGED <<world, last_indexed_page, connected_node_id, past>>

EndIndexing ==
  /\ call.stage = "freeze" /\ call.todo = {}
  /\ call' = [call EXCEPT !.stage = "spent", !.todo = stream_unspent_lrc20_outputs(outputs)]
  /\ UNCHANGED <<world, storage, past>>

\* Mutant: an output Bitcoin does not give is left alone.
MarkSpentNone(op) == outputs
MarkSpent(op) ==
  IF get_tx_out_status(op) = "Spent" THEN set_lrc20_output_state(outputs, {op}, "Spent") ELSE outputs

mark_spent_utxos ==
  /\ call.stage = "spent" /\ call.todo # {}
  /\ \E op \in call.todo :
       /\ outputs' = MarkSpent(op)
       /\ call' = [call EXCEPT !.todo = @ \ {op}]
  /\ UNCHANGED <<world, last_indexed_page, connected_node_id, past>>

EndSync ==
  /\ call.stage = "spent" /\ call.todo = {}
  /\ call' = [call EXCEPT !.stage = "done"]
  /\ UNCHANGED <<world, storage, past>>

\* An error of a request, or the end of the process: what was stored stays.
FailSync ==
  /\ InCall
  /\ call' = Idle
  /\ UNCHANGED <<world, storage, past>>

\* Wallet::balances: the outputs without a receipt count in satoshis, bulletproofs apart.
Amount(op) == P!receipt(ProofOf(op)).amount
balances ==
  LET unspent == stream_unspent_lrc20_outputs(outputs)
      of(kinds) == {op \in unspent : ProofOf(op).kind \in kinds}
      byToken(ops) == [token \in {TokenOf(op) : op \in ops} |->
                         MapThenSumSet(Amount, {op \in ops : TokenOf(op) = token})]
  IN [lrc20 |-> byToken(unspent \ of({"EmptyReceipt", "Bulletproof"})),
      bulletproof |-> byToken(of({"Bulletproof"})),
      tweaked_satoshis |-> MapThenSumSet(LAMBDA op : TxOf[op[1]].output[op[2]], of({"EmptyReceipt"}))]

\* Wallet::utxos, as lrc20_utxos and tweaked_satoshi_utxos filter it.
utxos(filter(_)) == {op \in stream_unspent_lrc20_outputs(outputs) : filter(ProofOf(op))}
lrc20_utxos == utxos(LAMBDA proof : proof.kind # "EmptyReceipt")
tweaked_satoshi_utxos == utxos(LAMBDA proof : proof.kind = "EmptyReceipt")
\* The satoshis' empty receipts have a token of their own, zero.
utxos_by_token_pubkey(token) ==
  {<<op, Amount(op)>> : op \in utxos(LAMBDA proof : P!receipt(proof).token = token)}

(***************************************************************************)
(* The nodes, Bitcoin and the user of the wallet.                          *)
(***************************************************************************)
\* For the properties: since the page the wallet remembers was stored, another transaction
\* of its node may be on another page than it takes it to be.  When it is more than a page of
\* them, a sync may start behind what is new.
Moved(p) == [p EXCEPT !.moves = @ + 1, !.shifted = @ \/ p.moves = page_size]

\* insert_lrc20_transaction of a node, for what it hears of before or after Bitcoin does.
Store(n, t) ==
  /\ t \notin Stored(n)
  /\ listed' = [listed EXCEPT ![n] = Append(@, t)]
  /\ LET p == [past EXCEPT !.late = IF t \in chain THEN @ ELSE @ \cup {t}]
     IN Changed(IF InCall /\ n = node THEN Moved([p EXCEPT !.arrived = @ + 1]) ELSE p)
  /\ UNCHANGED <<frozen, frozenTokens, chain, height, node, storage, call>>

\* delete_lrc20_transaction and delete_list_lrc20_transactions: what is behind moves up.
Delete(n, i) ==
  /\ listed' = [listed EXCEPT ![n] = [j \in 1 .. Len(@) - 1 |-> IF j < i THEN @[j] ELSE @[j + 1]]]
  /\ Changed(IF n = node THEN Moved([past EXCEPT !.shifted = @ \/ InCall]) ELSE past)
  /\ UNCHANGED <<frozen, frozenTokens, chain, height, node, storage, call>>

\* A freeze announcement of an output turns its freeze over.
ToggleFreeze(op) ==
  /\ op[1] \in Stored(node)
  /\ frozen' = IF op \in frozen THEN frozen \ {op} ELSE frozen \cup {op}
  /\ Changed([past EXCEPT !.freezes = @ \cup {op}])
  /\ call' = [call EXCEPT !.frozen = @ \ {op}]
  /\ UNCHANGED <<listed, frozenTokens, chain, height, node, storage>>

FreezePubkey(token) ==
  /\ token \notin frozenTokens
  /\ frozenTokens' = frozenTokens \cup {token}
  /\ Changed([past EXCEPT !.freezes = @ \cup {op \in Mine : TokenOf(op) = token}])
  /\ UNCHANGED <<listed, frozen, chain, height, node, storage, call>>

Broadcast(t) ==
  /\ t \notin chain
  /\ \A op \in Range(TxOf[t].input) : (op[1] \in Txids => op[1] \in chain) /\ op \notin SpentBy(chain)
  /\ chain' = chain \cup {t}
  /\ Changed(past)
  /\ UNCHANGED <<listed, frozen, frozenTokens, height, node, storage, call>>

MineBlock ==
  /\ height' = height + 1
  /\ Changed(past)
  /\ UNCHANGED <<listed, frozen, frozenTokens, chain, node, storage, call>>

\* The wallet is started with the address of another node.
SwitchNode ==
  /\ ~InCall
  /\ \E n \in Nodes \ {node} : node' = n
  /\ Changed([past EXCEPT !.switched = TRUE])
  /\ UNCHANGED <<listed, frozen, frozenTokens, chain, height, storage, call>>

Next ==
  \/ StartSync \/ FetchPage \/ IndexTransaction \/ PutLastIndexedPage
  \/ MarkFrozenOutputs \/ EndIndexing \/ mark_spent_utxos \/ EndSync \/ FailSync
  \/ \E n \in Nodes, t \in Txids : Store(n, t)
  \/ \E n \in Nodes : \E i \in 1 .. Len(listed[n]) : Delete(n, i)
  \/ \E op \in Mine : ToggleFreeze(op) \/ FreezePubkey(TokenOf(op))
  \/ \E t \in Txids : Broadcast(t)
  \/ MineBlock \/ SwitchNode

Spec == Init /\ [][Next]_vars

\* A page is not empty; amounts are numbers, and locks are heights.
ASSUME WalletAssumption ==
  /\ page_size \in Nat \ {0}
  /\ FirstNode \in Nodes /\ FirstLists \in [Nodes -> Seq(Txids)]
  /\ IsFiniteSet(Outpoints)
  /\ \A op \in Mine : /\ ProofOf(op).kind \notin {"EmptyReceipt", "Bulletproof"} => Amount(op) \in Nat
                      /\ ProofOf(op).kind = "SparkExit" => ProofOf(op).locktime \in Int

(***************************************************************************)
(* Properties.                                                             *)
(***************************************************************************)
\* What a sync has left as unspent can be spent: Bitcoin has it and had no
\* spend of it when the sync began, it is not frozen all the while, and
\* its lock is over (index_transaction, mark_frozen_outputs and
\* mark_spent_utxos, although indexing a page again makes every output of it
\* unspent and the pages may list a spend before what it spends).
SpendableIsReal ==
  call.stage = "done" =>
    \A op \in stream_unspent_lrc20_outputs(outputs) :
      /\ op[1] \in chain /\ op \notin call.spent /\ op \notin call.frozen
      /\ ProofOf(op).kind = "SparkExit" => ProofOf(op).locktime <= height

\* The outputs the wallet has to know after a sync: of a transaction the node
\* listed all along, on Bitcoin before any node had it, never spent, frozen
\* or locked.
Due ==
  {op \in Mine : /\ op[1] \in call.listed \cap Stored(node) \cap (chain \ past.late)
                 /\ op \notin SpentBy(chain \cup past.late) \cup past.freezes
                 /\ ProofOf(op).kind # "SparkExit"}
Counted == {op \in Due : ProofOf(op).kind \notin {"EmptyReceipt", "Bulletproof"}}
AllDueCounted ==
  /\ Due \subseteq lrc20_utxos \cup tweaked_satoshi_utxos
  /\ \A op \in Due : <<op, Amount(op)>> \in utxos_by_token_pubkey(TokenOf(op))
  /\ \A token \in {TokenOf(op) : op \in Counted} :
       /\ token \in DOMAIN balances.lrc20
       /\ balances.lrc20[token] >= MapThenSumSet(Amount, {op \in Counted : TokenOf(op) = token})

\* The balance after a sync has every output that is due, although a sync
\* starts at the last page but one and earlier ones may have failed on the
\* way (starting_page_number, put_last_indexed_page_number), as long as the
\* node removes nothing during a sync, the transactions that arrive in one
\* and those that go before the next are no more than a page, and the wallet
\* has stayed with its node.
BalanceComplete ==
  call.stage = "done" /\ ~past.shifted /\ ~past.switched => AllDueCounted

\* The same with another node: its pages have another order, so the sync has
\* to restart, as the comment on starting_page_number says: "when
\* `connected_node_id` changes from last sync, the indexer restarts from
\* first one".
CompleteOnNewNode ==
  call.stage = "done" /\ ~past.shifted => AllDueCounted
=============================================================================
