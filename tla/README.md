# TLA+ specification of LRC20

This directory specifies the LRC20 node (`apps/node` and the crates it runs) and the wallet
(`crates/bdk`, `crates/dev-kit`) in TLA+. TLC checks the modules on small instances, and TLAPS
proves the most important invariants for every instance. The code is the reference:
`PROJECT.json` maps each definition to the lines it models.

## 1. The system

A node is one process of tokio tasks ("services") that exchange messages over typed channels
(`crates/event-bus`) and share one Postgres database (`crates/storage`). What a message in a
channel says and what the database says can differ at any time. A restart keeps only the database.

| Part | State | Operations that change it |
|---|---|---|
| Controller (`crates/controller`) | the rows of `l1_transaction`, `mempool_transaction`, the Spark tables | one handler per `ControllerMessage`; `handle_mempool_txs` at the start |
| TxChecker (`crates/tx-check`) | the batch being checked; `spark_queue` | isolated check, full check, Spark checks, clean-up |
| TxConfirmator (`crates/tx-confirm`) | `queue`, `latest_blocks` | a new block, a reorg, transactions to confirm, clean-up |
| BitcoinBlockIndexer (`crates/indexers`) | last block, `indexer_state` in the database | init and its retry, poll, reorganisation message |
| BlockLoader (`crates/indexers`) | blocks that workers have fetched | fetch, collect, sort, send |
| GraphBuilder, SparkGraphBuilder (`crates/tx-attach`) | `deps`, `inverse_deps`, `stored_txs` | `attach_txs`, clean-up of outdated transactions |
| Storage (`crates/storage`) | tables; deleting an `l1_transaction` row deletes what refers to it | inserts, status updates, deletes, migrations |
| RPC server (`crates/rpc-server`) | none of its own | hands in transactions, Spark signatures and freezes |
| P2P (`crates/p2p`) | peers, handshakes, addresses, outbox | connect, disconnect, handshake, timers, commands |
| Node (`apps/node`) | the set of tasks, one cancellation token | start, retry of init, shutdown |
| Bitcoin wallet (`crates/bdk`) | a database of scripts, outputs, transactions | addresses, sync, building and signing |
| LRC20 wallet (`crates/dev-kit`) | outputs with a status, the last page read | sync with a node, building and signing |

The way of an L1 transaction (`docs/README.md`, "Transaction flow"): it is handed in and stored
(`Initialized`), checked by itself (`WaitingMined`), mined (`Mined`), buried under
`confirmations_number` blocks, fully checked (`Attaching`), and attached when its parents are
there. Announcements are done after the full check. A Spark transaction is stored when it comes,
checked, signed by operators one after the other, and final when enough have signed and the
secrets of its inputs are revealed; an L1 transaction may then take one of its outputs out (exit).

What makes it hard: reorgs, in the middle of which two services disagree about the chain; blocks
and messages that were sent before something changed; crashes, after which every entry must find
its service again; parents that come after their children; handlers that return in the middle of
a batch; timers that remove what others still talk about; checks that read rows of transactions
that are not checked themselves; wallets that ask in many calls while the world goes on.

## 2. Modules

| Module | Models | Notes |
|---|---|---|
| `NodeParameters` | shared constants | the ids of transactions, `confirmations_number` |
| `BitcoinChain` | the Bitcoin node (external) | a constant block tree; `tip` is the end of the best chain |
| `Channels` | `event-bus`, the message types | one FIFO sequence per service |
| `TxConfirmator` | `tx-confirm` | one action per handler, per transaction and per RPC error |
| `BlockIndexer` | `indexers/src/indexer.rs` | init, polling, reorganisation, their errors |
| `Controller` | `controller/src/handler.rs`, tables of `storage` | one operator per message about L1 transactions |
| `ConfirmationPipeline` | controller, confirmator and indexer together | checker and graph builder accept everything |
| `TxChecker` | `tx-check/src/service.rs`, L1 part | a full check takes one step per transaction |
| `GraphBuilder` | `tx-attach/src/lib.rs` | both loops of `attach_txs`, one step per transaction; clean-up |
| `AttachPipeline` | controller, checker and graph builder together | the confirmator is reduced to its promise |
| `TxLifecycle` | abstract: the stages of a transaction | `AttachPipeline` is shown to implement it |
| `BlockLoader` | `indexers/src/blockloader`, the receiving half of init | loader, workers and indexer with bounded channels, on heights |
| `TokenRules` | what the full check decides from announcements, issuances, freezes | one step per transaction of a batch, between arrivals and attachments |
| `SparkStorage`, `SparkChecker`, `SparkRpc`, `SparkFlow` | Spark tables, checks, read-only calls, and the whole way | the checker awaits the storage between reading back and setting a status |
| `AddressBook`, `PeerManager`, `P2PNode` | `addrmgr.rs`; the other managers and handlers; reactor, outbox and commands | managers are records, handlers map them to sets of records |
| `Schema` | the three migrations and the entities | a migration is a list of statements |
| `Codecs` | the binary formats | an encoder and a decoder per type, as lists of fields |
| `ReceiptProofs`, `IsolatedChecks` | receipts, scripts, proofs; `isolated_checks.rs` | hashes and keys are symbolic |
| `RangeProof` | `crates/bulletproof` | prover and verifier over a small field |
| `WalletDatabase`, `WalletSync` | `bdk/src/database`; sync through Electrum, Esplora, RPC | each request reads the chain of its moment |
| `SpendingPolicy`, `BitcoinWallet` | `descriptor/policy.rs`; coin selection, fees, signing | |
| `LrcWallet`, `TxBuilder` | `dev-kit/src/sync`, storage; `txbuilder`, `txsigner.rs` | |
| `MC...` | instances for TLC | |
| `ConfirmationProofs`, `PipelineProofs`, `LifecycleProofs`, `BlockLoaderProofs`, `P2PProofs`, `TokenProofs`, `SparkProofs`, `LrcWalletProofs` | proofs | see section 5 |

### How state and actions correspond

* A handler of the controller is one action. It awaits the database, but it is the only writer of
  what it touches in between, with exceptions that are modelled: `check_issuance` and the
  graph builder's clean-up write rows from other tasks (actions of their own), a crash between
  the two inserts of `handle_new_lrc20_txs` (`CrashBetweenInserts`), and the Spark checks.
* A handler that fails in the middle of a batch has done some of it: batches are sets, and "the
  part before the failing element" is any subset of the rest (`MissingEntry`).
* `TxChecker`, `TokenRules` and `GraphBuilder` read the database for each transaction of a batch,
  so they take one step per transaction and the other services run in between. The reads for one
  transaction are one step.
* The confirmator asks the Bitcoin node about one transaction at a time: `handle_tx_to_confirm`
  takes one transaction from the message at the head of the channel.
* `deps` and `inverse_deps` are total functions, with `{}` for an absent key: the code treats both
  alike. `Descendants` is the least set that the loop of `remove_outdated_tx` computes. The
  removal of one outdated transaction is one step.
* In `AttachPipeline` what a check concludes from the contents of a transaction is a constant
  (`Sound`, `Permitted`); `TokenRules` has what it concludes from the tables.
* `BlockLoader` counts the events in a channel per height, so that a height sent twice shows. An
  await is where a step ends: a loader that waits for room in the channel to the indexer has
  already drained `loaded_blocks`, and a cancellation there loses the chunk. `init_blocks_handle`
  takes one step per block.
* In `SparkFlow` the inputs of a stored transaction are read back from the rows of the outputs
  that name it, as the code does; a transaction that lost an input to another is read back with
  another hash. Operators are external: each signs at most one transfer of an output.
* In `PeerManager` every handler maps the state machine to the set of machines it may become
  (the rng, and whether a time has expired, are open). `P2PNode` puts them into the one thread of
  the reactor: the polled events one by one, an expired timer, then the outbox.
* `WalletSync` and `LrcWallet` take one step per request; between two of them the chain, the node
  and its lists move. Only the last step of a Bitcoin sync writes to the database, as one batch.
* `Codecs`, `ReceiptProofs`, `IsolatedChecks`, `TxBuilder`, `RangeProof`, `SpendingPolicy` and
  `BitcoinWallet` are operators without state. `MCAlgorithms` enumerates samples, one per state,
  and compares the result of the code's algorithm with a reference.
* The faulty variants (marked "Faulty:" or named like the definition they spoil) are not part of
  the model. They are the mutants that show that a property can be violated.

### Faults

Faults are actions with a bound (`MaxFaults`) and a set of kinds (`FaultKinds`).
In `ConfirmationPipeline`: `crash`, `rpc` (an RPC error in the confirmator, which cancels the
node), `retry` (init fails and is retried in the same process), `load` (the block loader fails),
`store` (`update_indexer_state` fails). In `AttachPipeline`: `crash`, `torn` (a crash between two
inserts), `cleanup` (the outdated timer of the graph builder), each at most once. `TokenRules` has
crashes (`MaxCrashes`), `SparkFlow` restarts and clean-ups, `P2PNode` closed connections and
timers at any time, `WalletSync` and `LrcWallet` failing requests.

## 3. Runs

Passing runs:

| Run | Question | Instance |
|---|---|---|
| `confirmation` | Is everything deep eventually checked, do statuses move in order and does the indexer go on where the window ends, with reorgs, a crash or a cancelled node, and expiring transactions? | chain of 5 blocks, fork of 4 after block 3, three first tips, one transaction that the fork moves; 256 343 states |
| `faults` | Does nothing get confirmed early, and is no entry forgotten, under every kind of fault? | the same tree, one fault of five kinds; 230 704 states |
| `attach` | Is every transaction attached, whatever the order of submission, confirmation and checks, and wherever the node crashes? | an issuance, a transfer of it, a transfer of both; 42 069 states |
| `cleanup` | Do the dependency maps stay in step, and does nothing unchecked get attached, with removals and half-stored transactions? | an exit, a chain of two transfers with an empty proof, a rejected announcement; 1.6 million states |
| `loader` | Do loader, workers and indexer hand over every block once and in sequence, and always come to an end? | two workers, chunks of two, every start and chain height up to 4, two failures, cancellation at any point; 33 790 states |
| `peers` | Do the tables of address book and peer manager agree, are the limits kept and do bans last? | two remote addresses of one IP, one maybe persistent, two inbound and one outbound peer; 1.8 million states |
| `tokens` | Who can set the terms of a token, and is an output frozen when it should be? | ten transactions of one token (two announcements of it, three freezes, a logo, a handover, an issuance, a transfer, a frozen key), three stored at a time, a crash; 658 480 states |
| `spark` | Is what is final backed by its inputs, does nobody wait for what is there, are calls answered from the storage? | a mint, two conflicting transfers, a child, an exit, two operators, a restart; 319 866 states |
| `algorithms` | Do formats, checks, builder, range proof, policies, coin selection, signing and migrations do what their reference says? | about 90 000 samples |
| `wallet` | Do three databases agree, does a sync leave the picture of the chain, is what the wallet would spend there? | five Bitcoin and five LRC20 transactions, two nodes, pages of one, a chain of three blocks; 162 278 states |

Why the bounds are enough to be interesting: `confirmations_number` is 3, so the window holds
two blocks and a fork can orphan none, one or both of them or go below the window; the first tips
put the start on the genesis block, below and above the fork. A run has at
most one fault, at any point of a behaviour; the proofs hold for any number of them. The
transaction graph has two levels and a transaction with two parents, which the level-by-level
queue of `attach_txs` needs. `MaxSubmits` lets one transaction be handed in again after it was
removed. `MaxStored` is 3, so that a token's announcement, what depends on it and a competitor are
there together, in every combination. The wallet's cache holds two addresses and a payment goes
to the third; pages hold one transaction, so every deletion shifts them.

The properties:

* *Confirmation.* `WindowIsBranch`, `OnlyBuriedTxsConfirmed`, `IndexerContinuesWindow`: the window
  of the confirmator is one branch, only what was deep enough is confirmed, and the indexer goes
  on exactly where the window ends. `NoEntryForgotten`, `StatusesInOrder`: every mempool entry is
  with the service its status names, and statuses move only as the handlers document.
  `DeepTxEventuallyChecked`: liveness.
* *Attachment.* `WaitersKnown`, `NobodyLeftBehind`: the maps of the graph builder agree between
  two calls, and nobody waits for what is attached. `MissingParentsRequested`, `AttachingInHand`:
  a missing parent was asked for; an `Attaching` entry is in the hands of a service, and a row in
  progress has an entry. `OnlyCheckedAttached`: nothing is attached that a check would have
  rejected. `FollowsLifecycle`: `AttachPipeline` implements `TxLifecycle` (no stage skipped or
  undone). `AllEventuallyAttached`: liveness.
* *Block loader.* `NoGap`, `FinishedMeansIndexed`, `InitEnds`: blocks come in sequence and
  complete unless cancelled, and init ends whatever happens. A cancellation may lose blocks and
  may even let init succeed without them, which is harmless: the node is stopping and the last
  indexed block is in the database. So these properties say nothing about a cancelled init.
* *Peers.* `TablesAgree`, `InboundBounded`: when the outbox is empty the tables of the four
  managers, the service and the reactor name the same peers, and the limit on inbound peers is
  kept. `BansLast`: no step brings a banned address back.
* *Tokens.* `FrozenIsOddFreezes`: the flag that a check writes into another transaction's row
  agrees with the freezes that were accepted. `TermsOfIssuer`: an attached announcement was signed
  by the token's issuer, and a logo is only attached for an announced token.
* *Spark.* `FinalIsBacked`: what is final, and what an exit withdrew, is signed by enough operators
  and all its inputs are revoked. `BackOnlyWhenRespent`: a status goes back only when another
  transfer took an input. `NobodyWaits`: nothing waits in `spark_queue` or in the graph for what
  the node has. `RpcReliable`: every call is answered, pages cover the table, `verify_spark_tx`
  and the checker agree.
* *Algorithms.* `RoundTrips` (formats), `OutputBindsReceipt` (receipts), `ChecksExact` (isolated
  checks), `BuiltAccepted` (builder against checks), `RangeProofComplete`, `PolicyHonoured`,
  `FundsAccounted` (coin selection and fees), `CosignersAgree` (signing), `SchemaByLevel`,
  `MigrationsGoThrough` (migrations up and down with rows in between). The exceptions are named in
  the definitions (`Lost`, for example) and listed in section 7.
* *Wallet.* `BackendsAgree`: three databases answer alike. `SyncLeavesPicture`, `IndexNeverBack`:
  what a Bitcoin sync leaves is a picture of the chain, and no sync hands out an address again.
  `SpendableIsReal`, `BalanceComplete`: what an LRC20 sync leaves as unspent can be spent, and is
  all there is.

Runs in which the code disagrees with its documentation (details in `PROJECT.json`, `findings`):

| Run | What happens |
|---|---|
| `shallow_reorg` | A reorg of one block stops the node when the indexer polls once more before it hears of the reorg. |
| `node_change` | A wallet that is connected to another node goes on from the page where the first one ended, and misses outputs. |

Deadlock is checked where a service must always have something to do (`confirmation`, `faults`,
`loader`, `algorithms`, `shallow_reorg`; `Finished` in `BlockLoader` is the end of init). It is off
where all transactions may be done, all calls used up or all peers gone.

## 4. Fairness

Each service is a tokio task in a loop over its channel: once it can take a message it
eventually does. So there is weak fairness on the steps of each service, and none on miners,
users, timers, faults or restarts. In `AttachPipeline` a transaction handed to the confirmator is
eventually confirmed (weak fairness on `ConfirmatorConfirms`, per transaction): that stands for
the user who has the transaction mined. In `BlockLoader` the loader, each worker and the indexer
are weakly fair, and requests fail finitely often. `DeepTxEventuallyChecked` assumes instead that
the transaction stays deep in the best chain and that the node is not cancelled or left cancelled.
The other modules have safety properties only and no fairness.

## 5. Proofs

| Theorem | States | Hypotheses besides the `ASSUME`s |
|---|---|---|
| `ConfirmationProofs!TypeSafe`, `TypeCorrect` | types | |
| `ConfirmationProofs!WindowStaysOnBranch` | `WindowIsBranch` | |
| `ConfirmationProofs!OnlyBuriedConfirmed` | `OnlyBuriedTxsConfirmed` | init is never retried in one process |
| `BlockLoaderProofs!UniqueHeights` | a height is in one place, one worker fetches it | |
| `BlockLoaderProofs!DeliveryInvariant`, `BlocksInSequence`, `FinishedIsComplete` | `NoGap`, `FinishedMeansIndexed` | |
| `PipelineProofs!GraphInvariant`, `WaitersAlwaysKnown` | `WaitersKnown` | |
| `PipelineProofs!OnlyCheckedAlwaysAttached` | `OnlyCheckedAttached` | `OneTxPerId` |
| `LifecycleProofs!AttachingAlwaysInHand` | `AttachingInHand` | `OneTxPerId` |
| `LifecycleProofs!LifecycleFollowed` | `FollowsLifecycle`, the refinement | `OneTxPerId`, no fault but crashes |
| `LifecycleProofs!NobodyEverLeftBehind` | `NobodyLeftBehind` | `OneTxPerId`, `ExitsNotAwaited` |
| `LifecycleProofs!MissingParentsAlwaysRequested` | `MissingParentsRequested` | `OneTxPerId`, `ParentsPass` |
| `P2PProofs!PeersInvariant`, `InboundAlwaysBounded` | `InboundBounded` | |
| `P2PProofs!ManagersAlwaysAgree` | the first half of `TablesAgree` | |
| `P2PProofs!TablesAlwaysAgree` | `TablesAgree` | `OwnNotDialled`, `RangesHaveRoom` |
| `P2PProofs!BansAlwaysLast` | `BansLast` | |
| `TokenProofs!TermsAlwaysOfIssuer` | `TermsOfIssuer` | |
| `LrcWalletProofs!SpendableAlwaysReal` | `SpendableIsReal` | `LocksAreHeights` |
| `SparkProofs!SparkInvariant`, `FinalAlwaysBacked` | `FinalIsBacked` | |
| `SparkProofs!StatusBackOnlyWhenRespent` | `BackOnlyWhenRespent` | |

All hold for every value of the constants: any block tree, transaction graph, number of operators,
peers, pages, workers, faults. Assumptions on the constants are the named `ASSUME`s, which TLC
evaluates in the runs. `BranchAssumption` says what follows from `TreeAssumption` by induction on
the height; it is assumed because the provers cannot do that induction. `SparkFlowAssumption` says
that what is final in the first state was signed and has its parents.

The hypotheses are places where the code behaves otherwise, and each holds in the run that checks
the property:

* `OneTxPerId`: an id names one transaction. `Lrc20Transaction`s with the same `bitcoin_tx` and
  different contents exist: an issuance that arrives while its announcement is on its way takes
  the row and the verdict of the latter.
* `ExitsNotAwaited`: `handle_spark_exit` attaches an exit without waking those that wait for it.
* `ParentsPass`: when a parent is rejected its row goes away, and nobody asks for it again.
* No fault but crashes: a clean-up and a crash between the two inserts of a new transaction take a
  transaction off the lifecycle.
* `OwnNotDialled`: `peer_connected` puts an address of our own into a range and not into the store.
* `RangesHaveRoom`: `peer_connected` populates the range twice, and the second time the address
  itself may be the one that is evicted from a full range.
* `LocksAreHeights`: `locktime` is compared with block heights.

The arguments:

* *Types.* `TypeOK` is not inductive: the indexer asks for blocks by height, and `BlockAt` is a
  block only if the height exists. `TypeInv` adds that every block the services talk about has
  been on the best chain and no height is above the tip (`ChainInv`; it relies on the height of
  the best chain never shrinking), and that a mempool entry has its row (`RowInv`).
* *The window.* A block is appended only to its parent, or it is the genesis block; a reorg leaves
  a prefix. `WindowIsBranch` is inductive relative to `TypeInv`.
* *Burial.* A transaction is confirmed by the block that leaves the window, so its distance to
  the end of the window must be the difference of heights. That needs the window to be one branch
  over its whole length (`WindowOnBranch`), which fails if the genesis block is appended to a
  window that is not empty: it has no parent to compare. `GenesisFirst` says that this does not
  happen unless init is retried. `ConfirmedInv` then follows the transaction through messages
  and statuses; being buried is stable because `known` only grows.
* *Block loader.* That a height is in one place needs that heights not handed out are nowhere
  (`NotHandedOut`) and that `next` only grows (`Position`). For the rest, `Complete` says that
  until a cancellation every height handed out in this chunk is somewhere and `received_blocks` is
  the size of the set of collected heights; a subset of the chunk with as many elements is the
  chunk. `OnTheWay` says that what the indexer has in hand and what is in its channel are
  intervals that join what is indexed to the loader's chunk.
* *Dependency maps.* Inside a call of `attach_txs` the maps are out of step: a transaction whose
  parent has been attached is no longer in `inverse_deps` of that parent. `ParentKnows` says that
  it is then in one of the two queues, `StoredWaits` that a stored transaction without parents
  is too, and `QueuesInOrder` that both queues are empty at the end. The clean-up keeps it because
  `Descendants` is closed.
* *Verdicts.* `Vetted` types every channel, the locals of the services and the rows by what has
  been checked: a `FullyCheckedTxs` carries only what passes, an `Attaching` entry belongs to such
  a transaction. It survives all faults.
* *Places.* `Tracked` says that a transaction in progress is in one message of one channel, with
  the checker or with the confirmator, once (`OnePlace`), that its mempool status belongs to that
  place (`StatusFits`), and that entries and rows agree. So no handler meets an id whose entry is
  missing or in another state, which is what `AttachingInHand` and every step of the refinement
  need: `Moved` is shown handler by handler. `Tracked` is claimed until a clean-up; that a row in
  progress has an entry (`Handled`), as long as there were only crashes.
* *Waking.* `Woken` says that whoever waits for a parent that is attached is queued in the call
  of `attach_txs` that attached it. Only the graph builder attaches what somebody may wait for
  (`AttachedBefore`); that follows from `Moved`.
* *Asking.* `Asked` follows a missing parent from `not_found_parents` through `GetData` to the
  request, next to the transaction that goes from the checker to the graph builder.
* *Peers.* Most handlers only queue connections and disconnections; `Quiet` says what they leave
  alone, and each is shown to be quiet. `PeersInv` says between which moments the managers may
  differ: an address is at odds only while a disconnection of it is in the outbox (`At`). An
  inbound peer above the limit has such a disconnection queued in the same handler
  (`InboundKept`). `Lasting` composes over the handlers of one event.
* *Terms.* A verdict is a fact about the tables at the time of the check. It still stands when the
  controller acts on it because an attached row has no mempool entry, and nothing but an entry
  lets a row go (`EntriesOpen`, `VerdictsStand`).
* *Spendable outputs.* `FrozenMarked` and `SpentMarked` say what is known of an unspent output
  that the stage has dealt with; `StillSo` that what held when the sync began is only added to.
* *Spark.* The hash of a transaction that is read back is right only if it has all its inputs, so
  between `ReadBack` and `SetStatus` the number read is the number of inputs (`JobFits`). As many
  secrets as inputs, all of outputs it really spends (`RowsFit`), means that all are known.
  `StatusEarned` is then stable because no row, signature or secret is ever deleted. Between the
  proofs of an exit the status may only be set by the checker, which is busy with the exit.

Before it was proved each inductive invariant was checked by TLC on the instance of the run.

Only model-checked, and why:

* liveness and deadlock: out of reach of the prover;
* the ten properties of `algorithms`, `BackendsAgree`, `SyncLeavesPicture`, `BalanceComplete` and
  `IndexNeverBack`: they rest on recursive operators, folds and pages, which would need induction
  over data;
* `FrozenIsOddFreezes` (the parity of a cardinality), `RpcReliable` and `NobodyWaits` (a fold over
  the batch, selected subsequences, and levels of a graph);
* `NoEntryForgotten`, `StatusesInOrder`, `IndexerContinuesWindow`: not attempted yet.

## 6. Abstractions to know about

* The height of the best chain strictly grows: a reorg to a branch of equal height is not seen by
  a poll until the next block.
* Channels are unbounded, except those of the block loader. Their capacity of 1000 is listed as a
  hazard.
* Database errors are modelled only where a fault names them, and the repeated failure of a poll
  (which ends the indexer) and the synchronisation check of the Bitcoin node are left out.
* Announcements found in blocks reach the controller as submissions.
* After `cancel()` a service may still handle a message before it sees the token.
* In `AttachPipeline` exits are accepted or rejected at once; that one waits for its Spark
  transaction is in `SparkFlow`, which takes one step per proof of an exit.
* `BlockLoader` does not tell blocks of different branches apart: a reorg during init is not in
  it. A height that the Bitcoin node no longer has would be retried for ever.
* In `ConfirmationPipeline` every check passes; rejected transactions are in `AttachPipeline`.
* Keys, hashes and signatures are symbolic: equal only when made from equal parts.
* Times are left out: a timer may fire whenever it is set.

## 7. Behaviour noticed while modelling

The models have these behaviours as the code has them. None is claimed to matter in practice.

* *Pipeline.* An issuance that arrives while its announcement is being checked is marked attached
  with the announcement, before its own check. The clean-up deletes entries of parents that are
  not outdated; a batch is then dropped halfway and an entry stays `Attaching` with nobody in
  charge. A transfer that waits for a Spark exit is not woken when the exit is attached. An error
  of the block loader is dropped by `run`, and init succeeds without the missing blocks.
* *Tokens.* `check_issue_announcement` returns `Ok(true)` for an issuance that is stored, so
  supply and owner are not looked at for issuances. Two announcements of a token in one batch can
  both be attached. Unconfirmed `PubkeyFreeze` rows count. A freeze confirmed together with the
  issuance it names is undone when the issuance is inserted again. A crash between the toggle of a
  freeze and its attachment toggles twice. `get_token_pubkey_info` takes any of several rows.
  `is_sender_frozen` uses the transfer's own input proofs. `check_transfer_ownership_announcement`
  (`tx-check/src/service.rs:1908`) looks the owner up in its own row, so a handover by the current
  owner is rejected (comment at 1904).
* *Spark.* A batch `[child, parent]` of `spark_sync` is dropped (comment at
  `tx-check/src/service.rs:389`). Transactions are stored before the check and invalid ones stay. A
  conflicting transfer overwrites `spend_txid`. An exit with two leaves that had to wait for the
  second is rejected by its own mark on the first. One child waits per parent. An update of the
  freeze flag without a primary key stops the checker. `next_cursor` is always `None`; the page of
  withdrawn leaves compares a number with a string, and with a height yields nothing. The supply
  check of the RPC races with other calls, and there is none on the P2P path. `get_spent_output`
  filters another column. Stored transactions are not taken up again after a restart. The leaf of
  an exit is found by comparing its id with the index.
* *P2P.* `peer_connected` populates a range twice and then expects the address in it, which fails
  once a range of 256 is full; so does dialling an address of our own. `sources` keeps a banned peer
  that is disconnected. Commands can be stranded when wakes coalesce, and a stale wake can block
  the reactor. `Ltxidack` is never timed out. The target of outbound peers can be exceeded. The
  outbox of the address manager is not drained. The idle heartbeat can stop. A ban leaves other
  addresses of the IP connected. After a read error a peer stays until the end of the stream. A
  persistent peer that is dropped after the connection is not scheduled again (comment at
  `peermgr.rs:456`).
* *Formats, receipts, builder.* An `Announcement` reads to the end of its input and swallows the
  rest of a batch. `TransferOwnership` reads its key from the wrong offset, and `from_bytes` does
  not look at the kind. The hash of a freeze leaves out `should_unfreeze`. `MAX_MSG_SIZE` is looked
  at on reading only. The decoder of a Bulletproof reads 33 bytes too many; the encoder of an
  operator-specific signature leaves out `input_index`. Multisig scripts have `n` first and `m`
  last. `push_smallint` panics outside 1..16. Amounts of an issuance wrap. A transfer with only
  empty proofs is refused. In the builder: inputs given by hand that fall short are added twice, a
  taproot recipient with metadata does not list its token, sums of outputs wrap, and
  `LRC20OldestFirst` does not sort.
* *Policies and Bitcoin wallet.* `combinations` repeats items from three on; `nSequence` is compared
  bit by bit; `After` compares heights with times; an internal address is used up even when
  `create_tx` fails. `Reset` followed by `New` leaves holes; the RPC backend counts only unspent
  outputs for the last index and may have an output both spent and unspent; `get_balance` can
  underflow after a reorg of a coinbase; a transaction unconfirmed and then confirmed within one
  sync stays unconfirmed.
* *LRC20 wallet.* `connected_node_id` is not stored while it is `None` (finding `node_change`).
  Deletions shift pages. A locked exit is not looked at again. A frozen output becomes unspent
  only when its page is read again. An output that `gettxout` does not find once is spent for
  good. `inner_key` keeps only the last key of a multisig.
* *Schema.* The down migrations leave three enum types and one `NOT NULL`;
  `add_operator_pubkey` adds a mandatory column to `user_signature`.

## 8. Not modelled

`PROJECT.json` lists every part with its status. Not modelled because it is not a matter of states
or is someone else's code: elliptic curve arithmetic and hashing, JSON-RPC and gRPC transport,
generated code (protos, entities), configuration and the command line, the updater, bindings, and
`TransactionEmulator` of the RPC server, which repeats the isolated check and only looks whether
parents exist.
