--------------------------- MODULE WalletDatabase ---------------------------
(***************************************************************************)
(* The wallet's databases (crates/bdk/src/database): one interface, three  *)
(* implementations.  `MemoryDatabase` keeps a map from keys to values and, *)
(* in a batch, the list of deleted keys; sled keeps a tree and takes       *)
(* batches of pending writes; sqlite keeps tables and takes a transaction  *)
(* on a second connection.  The wallet never reads what a deletion         *)
(* returns, so only the effect of an operation is modelled.                *)
(*                                                                         *)
(* An operation is a record with a field `op`; an option is an empty or a  *)
(* one-element sequence.  A LocalUtxo is [outpoint, txout, keychain,       *)
(* is_spent], a TransactionDetails is [txid, transaction, received, sent,  *)
(* fee, confirmation_time], and a raw transaction is                       *)
(* [txid, input, output], with outputs [value, script_pubkey].             *)
(***************************************************************************)
EXTENDS Integers, Sequences, FiniteSets, TLC

LOCAL INSTANCE Functions
LOCAL INSTANCE SequencesExt

KeychainKind == {"External", "Internal"}

Option(S, Pick(_)) == IF S = {} THEN <<>> ELSE <<Pick(CHOOSE x \in S : TRUE)>>

-----------------------------------------------------------------------------
(* Keys of the two key-value stores: a prefix that names the kind of entry *)
(* and the content.                                                        *)

Path(keychain, child)  == <<"p", keychain, child>>
Script(script)         == <<"s", script>>
Utxo(outpoint)         == <<"u", outpoint>>
RawTx(txid)            == <<"r", txid>>
Transaction(txid)      == <<"t", txid>>
LastIndex(keychain)    == <<"c", keychain>>
SyncTime               == <<"l">>
DescriptorChecksum(kc) == <<"d", kc>>

Lookup(map, key) == IF key \in DOMAIN map THEN <<map[key]>> ELSE <<>>

(* range(key .. after(key)) and scan_prefix(key): the entries of one kind. *)
WithPrefix(map, prefix) == {k \in DOMAIN map : k[1] = prefix}

(* What both stores insert for one operation; the transaction itself is    *)
(* kept apart from its details.                                            *)
Inserted(o) ==
    CASE o.op = "set_script_pubkey" ->
             (Path(o.keychain, o.child) :> o.script)
             @@ (Script(o.script) :> [t |-> o.keychain, p |-> o.child])
      [] o.op = "set_utxo" ->
             Utxo(o.utxo.outpoint) :> [txout    |-> o.utxo.txout,
                                       keychain |-> o.utxo.keychain,
                                       is_spent |-> o.utxo.is_spent]
      [] o.op = "set_raw_tx" -> RawTx(o.tx.txid) :> o.tx
      [] o.op = "set_tx" ->
             (Transaction(o.details.txid) :> [o.details EXCEPT !.transaction = <<>>])
             @@ [k \in {RawTx(o.details.txid) : i \in DOMAIN o.details.transaction} |->
                     o.details.transaction[1]]
      [] o.op = "set_last_index" -> LastIndex(o.keychain) :> o.value
      [] o.op = "set_sync_time"  -> SyncTime :> o.time
      [] OTHER -> <<>>

Removed(o) ==
    CASE o.op = "del_script_pubkey_from_path" -> {Path(o.keychain, o.child)}
      [] o.op = "del_path_from_script_pubkey" -> {Script(o.script)}
      [] o.op = "del_utxo"       -> {Utxo(o.outpoint)}
      [] o.op = "del_raw_tx"     -> {RawTx(o.txid)}
      [] o.op = "del_tx"         -> {Transaction(o.txid)}
                                    \cup (IF o.include_raw THEN {RawTx(o.txid)} ELSE {})
      [] o.op = "del_last_index" -> {LastIndex(o.keychain)}
      [] o.op = "del_sync_time"  -> {SyncTime}
      [] OTHER -> {}

Without(map, keys) == Restrict(map, DOMAIN map \ keys)

-----------------------------------------------------------------------------
(* MemoryDatabase: also the type of its own batches.                       *)

MemoryNew == [map |-> <<>>, deleted_keys |-> {}]

MemoryApply(db, o) ==
    [map          |-> Inserted(o) @@ Without(db.map, Removed(o)),
     deleted_keys |-> db.deleted_keys \cup Removed(o)]

(* Deletions first, then the entries of the batch.                         *)
MemoryCommit(db, batch) ==
    [db EXCEPT !.map = batch.map @@ Without(@, batch.deleted_keys)]

(* What the interface answers, on a map.                                   *)
IterScripts(map) == {<<k[2], k[3], map[k]>> : k \in WithPrefix(map, "p")}
IterUtxos(map) ==
    {[outpoint |-> k[2], txout |-> map[k].txout, keychain |-> map[k].keychain,
      is_spent |-> map[k].is_spent] : k \in WithPrefix(map, "u")}
IterTxs(map) == {map[k] : k \in WithPrefix(map, "t")}
WithRaw(map) == {[t EXCEPT !.transaction = Lookup(map, RawTx(t.txid))] : t \in IterTxs(map)}

MapView(map) ==
    [scripts |-> IterScripts(map), utxos |-> IterUtxos(map),
     paths   |-> {<<k[2], map[k].t, map[k].p>> : k \in WithPrefix(map, "s")},
     raw_txs |-> {map[k] : k \in WithPrefix(map, "r")},
     txs     |-> IterTxs(map), txs_raw |-> WithRaw(map),
     last_index |-> [kc \in KeychainKind |-> Lookup(map, LastIndex(kc))],
     sync_time  |-> Lookup(map, SyncTime)]

MemoryView(db) == MapView(db.map)

(* increment_last_index "inserts 0 if not present".                        *)
MemoryIncrement(db, keychain) ==
    LET key == LastIndex(keychain)
    IN  [db EXCEPT !.map = (key :> (IF key \in DOMAIN @ THEN @[key] + 1 ELSE 0)) @@ @]

(* The checksum is stored the first time and compared later.               *)
MemoryChecksum(db, keychain, bytes) ==
    LET key == DescriptorChecksum(keychain)
    IN  IF key \in DOMAIN db.map
        THEN [ok |-> db.map[key] = bytes, db |-> db]
        ELSE [ok |-> TRUE, db |-> [db EXCEPT !.map = (key :> bytes) @@ @]]

-----------------------------------------------------------------------------
(* sled: a tree; a batch maps each key it touches to its last write, an    *)
(* insertion <<v>> or a removal <<>>.                                      *)

TreeNew == <<>>
BatchNew == <<>>

TreeApply(tree, o) == Inserted(o) @@ Without(tree, Removed(o))

BatchApply(batch, o) ==
    LET ins == Inserted(o)
    IN  [k \in DOMAIN ins |-> <<ins[k]>>] @@ [k \in Removed(o) |-> <<>>] @@ batch

TreeCommit(tree, batch) ==
    LET gone == {k \in DOMAIN batch : batch[k] = <<>>}
    IN  [k \in DOMAIN batch \ gone |-> batch[k][1]] @@ Without(tree, gone)

TreeView(tree) == MapView(tree)

(* update_and_fetch                                                        *)
TreeIncrement(tree, keychain) ==
    LET prev == Lookup(tree, LastIndex(keychain))
    IN  (LastIndex(keychain) :> (IF prev = <<>> THEN 0 ELSE prev[1] + 1)) @@ tree

TreeChecksum(tree, keychain, bytes) ==
    LET prev == Lookup(tree, DescriptorChecksum(keychain))
    IN  [ok |-> prev \in {<<>>, <<bytes>>},
         db |-> IF prev = <<>> THEN (DescriptorChecksum(keychain) :> bytes) @@ tree ELSE tree]

-----------------------------------------------------------------------------
(* sqlite.  Tables with a unique index are functions of their key; the     *)
(* tables `transactions` and `transaction_details` have none and are       *)
(* sequences of rows.                                                      *)

SqliteNew == [script_pubkeys |-> <<>>, utxos |-> <<>>, transactions |-> <<>>,
              transaction_details |-> <<>>, last_derivation_indices |-> <<>>,
              checksums |-> <<>>, sync_time |-> <<>>]

(* UPDATE ... WHERE txid = :txid                                           *)
Updated(rows, txid, row) == [i \in DOMAIN rows |-> IF rows[i].txid = txid THEN row ELSE rows[i]]
(* DELETE ... WHERE txid = :txid                                           *)
Deleted(rows, txid) == SelectSeq(rows, LAMBDA r : r.txid # txid)
Matching(rows, txid) == SelectSeq(rows, LAMBDA r : r.txid = txid)

select_transaction_by_txid(db, txid) ==
    LET m == Matching(db.transactions, txid) IN IF m = <<>> THEN <<>> ELSE <<Head(m)>>

(* The details are joined with the raw transaction.                        *)
Joined(db) ==
    {[d EXCEPT !.transaction = select_transaction_by_txid(db, d.txid)] :
        d \in {d \in Range(db.transaction_details) :
                  select_transaction_by_txid(db, d.txid) # <<>>}}
select_transaction_details_by_txid(db, txid) ==
    Option({d \in Joined(db) : d.txid = txid}, LAMBDA d : d)

select_utxos(db) ==
    {[outpoint |-> o, txout |-> db.utxos[o].txout, keychain |-> db.utxos[o].keychain,
      is_spent |-> db.utxos[o].is_spent] : o \in DOMAIN db.utxos}
select_script_pubkeys(db) == {<<p[1], p[2], db.script_pubkeys[p]>> : p \in DOMAIN db.script_pubkeys}
(* keychain and child of a script                                          *)
select_script_pubkey_by_script(db) ==
    {<<db.script_pubkeys[p], p[1], p[2]>> : p \in DOMAIN db.script_pubkeys}

(* Writes to one table.                                                    *)
insert_script_pubkey(db, keychain, child, script) ==
    [db EXCEPT !.script_pubkeys = (<<keychain, child>> :> script) @@ @]
insert_utxo(db, u) ==
    [db EXCEPT !.utxos = (u.outpoint :> [txout |-> u.txout, keychain |-> u.keychain,
                                         is_spent |-> u.is_spent]) @@ @]
insert_transaction(db, tx) == [db EXCEPT !.transactions = Append(@, tx)]
update_transaction(db, tx) == [db EXCEPT !.transactions = Updated(@, tx.txid, tx)]
insert_transaction_details(db, row) == [db EXCEPT !.transaction_details = Append(@, row)]
update_transaction_details(db, row) ==
    [db EXCEPT !.transaction_details = Updated(@, row.txid, row)]
update_last_derivation_index(db, keychain, value) ==
    [db EXCEPT !.last_derivation_indices = (keychain :> value) @@ @]
insert_checksum(db, keychain, checksum) ==
    [db EXCEPT !.checksums = (keychain :> checksum) @@ @]
update_sync_time(db, time) == [db EXCEPT !.sync_time = <<time>>]

delete_script_pubkey_by_path(db, keychain, child) ==
    [db EXCEPT !.script_pubkeys = Without(@, {<<keychain, child>>})]
delete_script_pubkey_by_script(db, script) ==
    [db EXCEPT !.script_pubkeys = Without(@, {p \in DOMAIN @ : @[p] = script})]
delete_utxo_by_outpoint(db, outpoint) == [db EXCEPT !.utxos = Without(@, {outpoint})]
delete_transaction_by_txid(db, txid) == [db EXCEPT !.transactions = Deleted(@, txid)]
delete_transaction_details_by_txid(db, txid) ==
    [db EXCEPT !.transaction_details = Deleted(@, txid)]
delete_last_derivation_index_by_keychain(db, keychain) ==
    [db EXCEPT !.last_derivation_indices = Without(@, {keychain})]
delete_sync_time(db) == [db EXCEPT !.sync_time = <<>>]

(* Select, then update or insert.                                          *)
SqliteSetRaw(db, tx) ==
    IF select_transaction_by_txid(db, tx.txid) # <<>> THEN update_transaction(db, tx)
    ELSE insert_transaction(db, tx)

SqliteSetTxAlone(db, details) ==
    LET row == [details EXCEPT !.transaction = <<>>]
    IN  IF select_transaction_details_by_txid(db, row.txid) # <<>>
        THEN update_transaction_details(db, row) ELSE insert_transaction_details(db, row)
SqliteSetTx(db, details) ==
    LET row == [details EXCEPT !.transaction = <<>>]
        set == IF select_transaction_details_by_txid(db, row.txid) # <<>>
               THEN update_transaction_details(db, row) ELSE insert_transaction_details(db, row)
    IN  IF details.transaction = <<>> THEN set ELSE SqliteSetRaw(set, details.transaction[1])

SqliteSet(db, o) ==
    CASE o.op = "set_script_pubkey" -> insert_script_pubkey(db, o.keychain, o.child, o.script)
      [] o.op = "set_utxo"       -> insert_utxo(db, o.utxo)
      [] o.op = "set_raw_tx"     -> SqliteSetRaw(db, o.tx)
      [] o.op = "set_tx"         -> SqliteSetTx(db, o.details)
      [] o.op = "set_last_index" -> update_last_derivation_index(db, o.keychain, o.value)
      [] o.op = "set_sync_time"  -> update_sync_time(db, o.time)

(* A row is selected first and deleted when it is found; a script's row is *)
(* gone whichever way it is deleted.                                       *)
SqliteDel(db, o) ==
    CASE o.op = "del_script_pubkey_from_path" -> delete_script_pubkey_by_path(db, o.keychain, o.child)
      [] o.op = "del_path_from_script_pubkey" -> delete_script_pubkey_by_script(db, o.script)
      [] o.op = "del_utxo"   -> delete_utxo_by_outpoint(db, o.outpoint)
      [] o.op = "del_raw_tx" -> delete_transaction_by_txid(db, o.txid)
      [] o.op = "del_tx" ->
             IF select_transaction_details_by_txid(db, o.txid) = <<>> THEN db
             ELSE LET gone == delete_transaction_details_by_txid(db, o.txid)
                  IN  IF o.include_raw THEN delete_transaction_by_txid(gone, o.txid) ELSE gone
      [] o.op = "del_last_index" -> delete_last_derivation_index_by_keychain(db, o.keychain)
      [] o.op = "del_sync_time"  -> delete_sync_time(db)

Sets == {"set_script_pubkey", "set_utxo", "set_raw_tx", "set_tx", "set_last_index",
         "set_sync_time"}

SqliteApply(db, o) == IF o.op \in Sets THEN SqliteSet(db, o) ELSE SqliteDel(db, o)

(* A batch is a transaction on a copy; COMMIT makes it the database.       *)
SqliteBegin(db) == db
SqliteCommit(db, batch) == batch

select_transactions(db) == Range(db.transactions)
select_transaction_details(db) == Range(db.transaction_details)
select_last_derivation_index_by_keychain(db, kc) == Lookup(db.last_derivation_indices, kc)
select_sync_time(db) == db.sync_time
select_checksum_by_keychain(db, kc) == Lookup(db.checksums, kc)

SqliteView(db) ==
    [scripts    |-> select_script_pubkeys(db),
     paths      |-> select_script_pubkey_by_script(db),
     utxos      |-> select_utxos(db),
     raw_txs    |-> select_transactions(db),
     txs        |-> select_transaction_details(db),
     txs_raw    |-> Joined(db),
     last_index |-> [kc \in KeychainKind |-> select_last_derivation_index_by_keychain(db, kc)],
     sync_time  |-> select_sync_time(db)]

SqliteIncrement(db, keychain) ==
    LET value == select_last_derivation_index_by_keychain(db, keychain)
    IN  update_last_derivation_index(db, keychain, IF value = <<>> THEN 0 ELSE value[1] + 1)

SqliteChecksum(db, keychain, bytes) ==
    LET prev == select_checksum_by_keychain(db, keychain)
    IN  IF prev = <<>> THEN [ok |-> TRUE, db |-> insert_checksum(db, keychain, bytes)]
        ELSE [ok |-> prev = <<bytes>>, db |-> db]

-----------------------------------------------------------------------------
(* The three side by side, as the wallet drives them.                      *)

New == [memory |-> MemoryNew, tree |-> TreeNew, sqlite |-> SqliteNew]

Apply(db, o) == [memory |-> MemoryApply(db.memory, o), tree |-> TreeApply(db.tree, o),
                 sqlite |-> SqliteApply(db.sqlite, o)]

(* begin_batch, the operations in order, commit_batch                      *)
Batched(db, ops) ==
    LET memory == FoldLeft(MemoryApply, MemoryNew, ops)
        tree   == FoldLeft(BatchApply, BatchNew, ops)
        sqlite == FoldLeft(SqliteApply, SqliteBegin(db.sqlite), ops)
    IN  [memory |-> MemoryCommit(db.memory, memory), tree |-> TreeCommit(db.tree, tree),
         sqlite |-> SqliteCommit(db.sqlite, sqlite)]

Increment(db, keychain) ==
    [memory |-> MemoryIncrement(db.memory, keychain), tree |-> TreeIncrement(db.tree, keychain),
     sqlite |-> SqliteIncrement(db.sqlite, keychain)]

CheckChecksum(db, keychain, bytes) ==
    LET m == MemoryChecksum(db.memory, keychain, bytes)
        t == TreeChecksum(db.tree, keychain, bytes)
        s == SqliteChecksum(db.sqlite, keychain, bytes)
    IN  [ok |-> <<m.ok, t.ok, s.ok>>, db |-> [memory |-> m.db, tree |-> t.db, sqlite |-> s.db]]

(* Reads, as the wallet makes them.                                        *)
iter_utxos(db) == IterUtxos(db.memory.map)
iter_txs(db) == IterTxs(db.memory.map)
iter_raw(db) == WithRaw(db.memory.map)
iter_scripts(db) == IterScripts(db.memory.map)

get_script_pubkey_from_path(db, keychain, child) == Lookup(db.memory.map, Path(keychain, child))
get_path_from_script_pubkey(db, script) == Lookup(db.memory.map, Script(script))
get_raw_tx(db, txid) == Lookup(db.memory.map, RawTx(txid))
get_tx(db, txid) ==
    LET details == Lookup(db.memory.map, Transaction(txid))
    IN  [i \in DOMAIN details |-> [details[i] EXCEPT !.transaction = get_raw_tx(db, txid)]]
get_last_index(db, keychain) == Lookup(db.memory.map, LastIndex(keychain))
get_sync_time(db) == Lookup(db.memory.map, SyncTime)

(* The scripts of a keychain, by their child number.                       *)
iter_script_pubkeys(db, keychain) ==
    LET children == {k[3] : k \in {k \in WithPrefix(db.memory.map, "p") : k[2] = keychain}}
        nth(i)   == CHOOSE c \in children : Cardinality({d \in children : d < c}) = i - 1
    IN  [i \in 1..Cardinality(children) |-> db.memory.map[Path(keychain, nth(i))]]

is_mine(db, script) == get_path_from_script_pubkey(db, script) # <<>>

=============================================================================
