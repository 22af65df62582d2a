----------------------------- MODULE WalletSync -----------------------------
(***************************************************************************)
(* Synchronising the Bitcoin wallet (crates/bdk): `Wallet::sync` with its  *)
(* cache of addresses, the script synchronisation shared by the Electrum   *)
(* and Esplora clients (blockchain/script_sync.rs), and the client of      *)
(* Bitcoin Core's own wallet (blockchain/rpc.rs).                          *)
(*                                                                         *)
(* The wallet asks in several calls while the chain moves: transactions    *)
(* arrive, are replaced, mined, and mined out again.  Each call reads the  *)
(* chain of its own moment.  Errors end a synchronisation; only its last   *)
(* step writes to the database.                                            *)
(*                                                                         *)
(* A transaction is a constant; an outpoint is <<txid, n>> with outputs    *)
(* counted from 1; a script is <<keychain, child>> or Foreign.             *)
(***************************************************************************)
EXTENDS WalletDatabase

LOCAL INSTANCE SequencesExt
LOCAL INSTANCE FiniteSetsExt

CONSTANTS
    TxOf,                   \* txid -> raw transaction
    ForeignValue,           \* value of an output the wallet does not know
    Setups,                 \* pairs of a client and the keychains that are derivable
    stop_gap,
    CACHE_ADDR_BATCH_SIZE,
    start_script_count,     \* RpcSyncParams
    LIST_TX_PAGE_SIZE,
    COINBASE_MATURITY,
    ResetIndexes,           \* indexes to reset an address to
    MaxTip,                 \* bound on the height of the chain
    MaxChanges,             \* bound on the changes of the chain
    MaxCalls                \* bound on the wallet's calls

VARIABLES
    status,     \* txid -> absent <<>>, in the mempool <<0>>, in a block <<height>>
    tip,        \* height of the chain
    changes,    \* how often the chain changed
    wildcard,   \* keychain -> is its descriptor derivable
    source,     \* the client in use
    core,       \* Bitcoin Core's wallet: scripts imported, transactions listed since
    db,         \* the database
    calls,      \* calls made on the wallet
    sync,       \* the synchronisation in progress
    calm        \* the chain has not changed since the synchronisation began

chainVars == <<status, tip, changes>>
setup == <<wildcard, source>>
vars == <<chainVars, setup, core, db, calls, sync, calm>>

Txids == DOMAIN TxOf
Foreign == <<"Foreign", 0>>
Null == <<"null", 0>>           \* the outpoint a coinbase spends
Script_of(keychain, child) == <<keychain, child>>

(* The elements of a set in some order.                                    *)
InOrder(S) == FoldSet(LAMBDA x, seq : Append(seq, x), <<>>, S)

-----------------------------------------------------------------------------
(* The chain, as a server shows it.                                        *)

Present == {t \in Txids : status[t] # <<>>}
Spends == [t \in Txids |-> {TxOf[t].input[i] : i \in DOMAIN TxOf[t].input}]
Parents == [t \in Txids |-> {o[1] : o \in Spends[t]} \cap Txids]
Conflicts == [t \in Txids |-> {u \in Txids \ {t} : Spends[u] \cap Spends[t] # {}}]
IsCoinbase(t) == Null \in Spends[t]

PrevOut(outpoint) ==
    IF outpoint[1] \in Txids THEN TxOf[outpoint[1]].output[outpoint[2]]
    ELSE [value |-> ForeignValue, script_pubkey |-> Foreign]

(* Scripts a transaction pays or spends from.                              *)
Touches == [t \in Txids |-> {TxOf[t].output[i].script_pubkey : i \in DOMAIN TxOf[t].output}
                            \cup {PrevOut(o).script_pubkey : o \in Spends[t] \ {Null}}]

(* t and everything that spends from it                                    *)
Family ==
    LET step(S) == S \cup {u \in Txids : Parents[u] \cap S # {}}
    IN  [t \in Txids |-> step(step({t}))]

Height(t) == IF status[t] \in {<<>>, <<0>>} THEN <<>> ELSE status[t]

(* Core's wallet notices what touches an imported script.                  *)
Watched(t, scripts) == Touches[t] \cap scripts # {}

Noticed(S) ==
    LET new == {t \in S : Watched(t, core.imported) /\ t \notin ToSet(core.known)}
    IN  core' = [core EXCEPT !.known = @ \o InOrder(new)]

Changed == changes < MaxChanges /\ changes' = changes + 1 /\ calm' = FALSE
NotWallet == UNCHANGED <<setup, db, calls, sync>>

(* A transaction enters the mempool, in the place of those it conflicts    *)
(* with.                                                                   *)
Arrives(t) ==
    LET out == UNION {Family[u] : u \in Conflicts[t] \cap Present}
    IN  /\ status[t] = <<>> /\ ~IsCoinbase(t)
        /\ Parents[t] \subseteq Present \ out
        /\ \A u \in out : status[u] = <<0>>
        /\ status' = [u \in Txids |-> IF u = t THEN <<0>> ELSE IF u \in out THEN <<>> ELSE status[u]]
        /\ Noticed({t}) /\ Changed /\ UNCHANGED tip /\ NotWallet

Mined(S, coinbase) ==
    /\ tip < MaxTip
    /\ \A t \in S : status[t] = <<0>> /\ Parents[t] \subseteq S \cup {u \in Txids : Height(u) # <<>>}
    /\ tip' = tip + 1
    /\ status' = [t \in Txids |-> IF t \in S \cup coinbase THEN <<tip + 1>> ELSE status[t]]
    /\ Noticed(coinbase) /\ Changed /\ NotWallet

Mine ==
    \E S \in SUBSET {t \in Txids : status[t] = <<0>>} :
        \/ Mined(S, {})
        \/ \E t \in {t \in Txids : IsCoinbase(t) /\ status[t] = <<>>} : Mined(S, {t})

(* The last block is disconnected: its transactions return to the mempool, *)
(* its coinbase is gone with what was spent from it.                       *)
Disconnect ==
    LET last == {t \in Txids : status[t] = <<tip>>}
        gone == UNION {Family[t] : t \in {t \in last : IsCoinbase(t)}}
    IN  /\ tip > 1 /\ tip' = tip - 1
        /\ status' = [t \in Txids |-> IF t \in gone THEN <<>> ELSE
                                      IF t \in last THEN <<0>> ELSE status[t]]
        /\ Changed /\ UNCHANGED core /\ NotWallet

-----------------------------------------------------------------------------
(* Addresses (wallet/mod.rs).                                              *)

CacheOps(keychain, from, count) ==
    [i \in 1..count |-> [op |-> "set_script_pubkey", script |-> Script_of(keychain, from + i - 1),
                         keychain |-> keychain, child |-> from + i - 1]]

(* A descriptor that is not derivable has one address.                     *)
cache_addresses(d, keychain, from, count) ==
    IF wildcard[keychain] THEN Batched(d, CacheOps(keychain, from, count))
    ELSE IF from > 0 THEN d ELSE Batched(d, CacheOps(keychain, from, 1))

max_address(keychain, max_addresses) == IF wildcard[keychain] THEN max_addresses ELSE 0

Missing(d, keychain, max_addresses) ==
    LET n == max_address(keychain, max_addresses)
    IN  get_script_pubkey_from_path(d, keychain, IF n = 0 THEN 0 ELSE n - 1) = <<>>

ensure_one(d, keychain, max_addresses) ==
    IF Missing(d, keychain, max_addresses)
    THEN cache_addresses(d, keychain, 0, max_address(keychain, max_addresses)) ELSE d

ensure_addresses_cached(d, max_addresses) ==
    [db  |-> ensure_one(ensure_one(d, "External", max_addresses), "Internal", max_addresses),
     new |-> \E kc \in KeychainKind : Missing(d, kc, max_addresses)]

(* The next index and the database that has its script.                    *)
fetch_and_increment_index(d, keychain) ==
    LET d1    == IF wildcard[keychain] THEN Increment(d, keychain) ELSE d
        index == IF wildcard[keychain] THEN get_last_index(d1, keychain)[1] ELSE 0
    IN  IF get_script_pubkey_from_path(d1, keychain, index) # <<>> THEN d1
        ELSE cache_addresses(d1, keychain, index, CACHE_ADDR_BATCH_SIZE)

fetch_index(d, keychain) ==
    IF ~wildcard[keychain] THEN <<0>> ELSE get_last_index(d, keychain)

Called == calls < MaxCalls /\ calls' = calls + 1 /\ sync = <<>>

get_new_address(keychain) ==
    /\ Called
    /\ db' = fetch_and_increment_index(db, keychain)
    /\ UNCHANGED <<chainVars, setup, core, sync, calm>>

(* The current address, or a new one when it was paid (or there is none).  *)
found_used(d, script) ==
    \E t \in iter_raw(d) : \E i \in DOMAIN t.transaction :
        \E n \in DOMAIN t.transaction[i].output :
            t.transaction[i].output[n].script_pubkey = script

get_unused_address(keychain) ==
    LET d1    == IF fetch_index(db, keychain) = <<>> THEN fetch_and_increment_index(db, keychain) ELSE db
        index == fetch_index(d1, keychain)[1]
    IN  /\ Called
        /\ db' = IF found_used(d1, Script_of(keychain, index))
                 THEN fetch_and_increment_index(d1, keychain) ELSE d1
        /\ UNCHANGED <<chainVars, setup, core, sync, calm>>

reset_address(keychain, index) ==
    /\ Called
    /\ db' = Apply(db, [op |-> "set_last_index", keychain |-> keychain, value |-> index])
    /\ UNCHANGED <<chainVars, setup, core, sync, calm>>

(* get_balance looks up the transaction of every unspent output.           *)
list_unspent(d) == {u \in iter_utxos(d) : ~u.is_spent}

get_balance(d) ==
    LET value(S)  == MapThenSumSet(LAMBDA u : u.txout.value, S)
        tx(u)     == get_tx(d, u.outpoint[1])[1]
        height(u) == tx(u).confirmation_time
        young(u)  == /\ Null \in ToSet(tx(u).transaction[1].input)
                     /\ get_sync_time(d)[1] - height(u)[1] < COINBASE_MATURITY
        unspent   == IF get_sync_time(d) = <<>> THEN {} ELSE list_unspent(d)
        confirmed == {u \in unspent : height(u) # <<>>}
    IN  [immature  |-> value({u \in confirmed : young(u)}),
         confirmed |-> value({u \in confirmed : ~young(u)}),
         trusted_pending   |-> value({u \in unspent \ confirmed : u.keychain = "Internal"}),
         untrusted_pending |-> value({u \in unspent \ confirmed : u.keychain = "External"})]

-----------------------------------------------------------------------------
(* Script synchronisation (blockchain/script_sync.rs).  The request in     *)
(* progress is one record; `heights` is what the client remembers of the   *)
(* answers (Electrum: txid_to_height, Esplora: tx_index).                  *)

(* Wallet::sync may go more than one round only if all is derivable.       *)
max_rounds == IF \A kc \in KeychainKind : wildcard[kc] THEN 100 ELSE 1

larger(a, b) == IF a > b THEN a ELSE b

Phase(name) == sync # <<>> /\ sync[1].phase = name
Goes(req) == sync' = <<req>>
Works == UNCHANGED <<chainVars, setup, calls, calm>>

(* Wallet::sync returns an error: nothing was written but addresses.       *)
Ends == sync' = <<>> /\ UNCHANGED db /\ Works

Request(phase, round) ==
    [phase |-> phase, round |-> round, next |-> <<>>, keychain |-> "External",
     script_index |-> 0, initial |-> 0, scripts_needed |-> <<>>, last_active_index |-> <<>>,
     tx_needed |-> {}, tx_missing_conftime |-> <<>>, finished_txs |-> <<>>,
     heights |-> <<>>]

(* The keychains are visited in a random order.                            *)
WithKeychain(req, keychain, next) ==
    LET scripts == iter_script_pubkeys(db, keychain)
    IN  [req EXCEPT !.keychain = keychain, !.next = next, !.script_index = 0,
                    !.initial = Len(scripts), !.scripts_needed = scripts]

Start ==
    /\ Phase("begin") /\ source # "rpc"
    /\ \E keychain \in KeychainKind :
           Goes(WithKeychain(Request("script", sync[1].round), keychain,
                             <<CHOOSE kc \in KeychainKind : kc # keychain>>))
    /\ UNCHANGED <<core, db>> /\ Works

(* The history of a script: its transactions with their heights.           *)
History(script) ==
    InOrder({<<t, Height(t)>> : t \in {t \in Present : script \in Touches[t]}})

chunk_size == IF source = "electrum" THEN stop_gap + 1 ELSE 1

(* What to do with one transaction of a history.                           *)
Verdict(txid, height) ==
    LET known == get_tx(db, txid)
        old   == known[1].confirmation_time
    IN  IF known = <<>> THEN "needed"
        ELSE IF height # <<>> /\ old # height THEN "conftime"
        ELSE IF height = <<>> /\ old # <<>> THEN "unconfirmed"
        ELSE "finished"

(* Electrum keeps the heights of confirmed transactions, Esplora the last  *)
(* answer about each.                                                      *)
txid_to_height(old, seen) == [t \in {t \in seen : Height(t) # <<>>} |-> Height(t)] @@ old
tx_index(old, seen) == [t \in seen |-> Height(t)] @@ old

Satisfied(req, answers) ==
    LET found   == FlattenSeq(answers)
        of(v)   == SelectSeq(found, LAMBDA e : Verdict(e[1], e[2]) = v)
        done    == SelectSeq(found, LAMBDA e : Verdict(e[1], e[2]) \in {"unconfirmed", "finished"})
        details(e) == IF Verdict(e[1], e[2]) = "finished" THEN get_tx(db, e[1])[1]
                      ELSE [get_tx(db, e[1])[1] EXCEPT !.confirmation_time = <<>>]
        active  == {req.script_index + i - 1 : i \in {i \in DOMAIN answers : answers[i] # <<>>}}
        seen    == {e[1] : e \in ToSet(found)}
    IN  [req EXCEPT
            !.last_active_index = IF active = {} THEN @ ELSE (req.keychain :> Max(active)) @@ @,
            !.tx_needed = @ \cup {e[1] : e \in ToSet(of("needed"))},
            !.tx_missing_conftime = [t \in {e[1] : e \in ToSet(of("conftime"))} |-> get_tx(db, t)[1]] @@ @,
            !.finished_txs = @ \o [i \in DOMAIN done |-> details(done[i])],
            !.heights = IF source = "electrum" THEN txid_to_height(@, seen) ELSE tx_index(@, seen),
            !.script_index = @ + Len(answers),
            !.scripts_needed = SubSeq(@, Len(answers) + 1, Len(@))]

ActiveCountLast(req) == IF req.keychain \in DOMAIN req.last_active_index
             THEN req.last_active_index[req.keychain] ELSE 0
ActiveCount(req) == IF req.keychain \in DOMAIN req.last_active_index
             THEN req.last_active_index[req.keychain] + 1 ELSE 0
Gap(req) == req.script_index - ActiveCount(req)
is_derivable(req) == req.initial > 1

(* Another round if new addresses were cached.  `complete` tells a round   *)
(* that wrote its result from one that asked for more addresses.           *)
NextRound(d, wanted) ==
    LET cached == ensure_addresses_cached(d, wanted)
        round  == sync[1].round + 1
    IN  /\ db' = cached.db
        /\ Goes([phase    |-> IF cached.new /\ round <= max_rounds THEN "begin" ELSE "height",
                  round    |-> round,
                  complete |-> wanted = 0])

MissingCachedScripts(last_count, missing_count) ==
    NextRound(db, last_count + larger(missing_count, CACHE_ADDR_BATCH_SIZE))

ScriptStep ==
    /\ Phase("script")
    /\ LET req     == sync[1]
           n       == IF chunk_size < Len(req.scripts_needed) THEN chunk_size
                      ELSE Len(req.scripts_needed)
           answers == [i \in 1..n |-> History(req.scripts_needed[i])]
           after   == Satisfied(req, answers)
       IN  IF is_derivable(after) /\ after.scripts_needed # <<>>
           THEN Goes(after) /\ UNCHANGED db
           ELSE IF is_derivable(after) /\ ActiveCount(after) > 0 /\ Gap(after) < stop_gap
           THEN MissingCachedScripts(after.script_index, stop_gap - Gap(after))
           ELSE IF after.next # <<>>
           THEN Goes(WithKeychain(after, after.next[1], <<>>)) /\ UNCHANGED db
           ELSE Goes([after EXCEPT !.phase = "tx"]) /\ UNCHANGED db
    /\ UNCHANGED core /\ Works

(* sent, received and fee of a transaction that was not known.             *)
FullDetails(txid) ==
    LET tx   == TxOf[txid]
        ins  == SelectSeq(tx.input, LAMBDA o : o # Null)
        sum(s, mine) == FoldLeft(LAMBDA a, x : a + (IF ~mine \/ is_mine(db, x.script_pubkey)
                                                    THEN x.value ELSE 0), 0, s)
        prev == [i \in DOMAIN ins |-> PrevOut(ins[i])]
        fee  == sum(prev, FALSE) - sum(tx.output, FALSE)
    IN  [txid |-> txid, transaction |-> <<tx>>, received |-> sum(tx.output, TRUE),
         sent |-> sum(prev, TRUE), fee |-> <<IF fee < 0 THEN 0 ELSE fee>>, confirmation_time |-> <<>>]

(* Electrum is asked for the transactions it named, and for those they     *)
(* spend; one that it no longer has is an error.  Esplora sent them along. *)
CanFetch(t) == source # "electrum" \/ t \in Present \/ get_raw_tx(db, t) # <<>>

TxStep ==
    /\ Phase("tx") /\ UNCHANGED core
    /\ LET needed == sync[1].tx_needed
       IN  IF \A t \in needed \cup UNION {Parents[u] : u \in needed} : CanFetch(t)
           THEN /\ Goes([sync[1] EXCEPT !.tx_needed = {}, !.phase = "conftime",
                            !.tx_missing_conftime = [t \in needed |-> FullDetails(t)] @@ @])
                /\ UNCHANGED db /\ Works
           ELSE Ends

(* The winner of each spent output is the first of those with the largest  *)
(* fee; a transaction stays if it wins one of its outputs.                 *)
make_txs_consistent(txs) ==
    LET input(i)  == txs[i].transaction[1].input
        coinbase  == {i \in DOMAIN txs : Null \in ToSet(input(i))}
        fee(i)    == IF txs[i].fee = <<>> THEN -1 ELSE txs[i].fee[1]
        rivals(o) == {i \in DOMAIN txs \ coinbase : o \in ToSet(input(i))}
        winner(o) == Min({i \in rivals(o) : \A j \in rivals(o) : fee(j) <= fee(i)})
        spent     == UNION {ToSet(input(i)) : i \in DOMAIN txs \ coinbase}
    IN  [k \in {winner(o) : o \in spent} \cup coinbase |-> txs[k]]

Forget(t) ==
    LET output == get_raw_tx(db, t)[1].output
    IN  [n \in DOMAIN output |-> [op |-> "del_utxo", outpoint |-> <<t, n>>]]
        \o <<[op |-> "del_tx", txid |-> t, include_raw |-> TRUE]>>

(* "Ensure `last_active_index` does not decrement database's current       *)
(* state."                                                                 *)
IndexUpdateOfSync(req, kc) == req.last_active_index[kc]
IndexUpdate(req, kc) ==
    LET in_db == get_last_index(db, kc)
    IN  IF in_db = <<>> THEN req.last_active_index[kc]
        ELSE larger(in_db[1], req.last_active_index[kc])

(* The batch: transactions that are gone with their outputs, then every    *)
(* transaction seen with the outputs that are ours, then the indexes.      *)
into_db_update(req) ==
    LET kept     == make_txs_consistent(req.finished_txs)
        order    == SelectSeq([i \in DOMAIN req.finished_txs |-> i], LAMBDA i : i \in DOMAIN kept)
        observed == {kept[i].txid : i \in DOMAIN kept}
        gone     == InOrder({t.txid : t \in iter_txs(db)} \ observed)
        spent    == UNION {ToSet(kept[i].transaction[1].input) : i \in DOMAIN kept}
        mine(t)  == SelectSeq([n \in DOMAIN TxOf[t].output |-> n],
                              LAMBDA n : is_mine(db, TxOf[t].output[n].script_pubkey))
        utxo(t, n) == [outpoint |-> <<t, n>>, txout |-> TxOf[t].output[n],
                       keychain |-> get_path_from_script_pubkey(db, TxOf[t].output[n].script_pubkey)[1].t,
                       is_spent |-> <<t, n>> \in spent]
        add(d)   == [k \in DOMAIN mine(d.txid) |->
                        [op |-> "set_utxo", utxo |-> utxo(d.txid, mine(d.txid)[k])]]
                    \o <<[op |-> "set_tx", details |-> d]>>
        kcs      == InOrder(DOMAIN req.last_active_index)
    IN  FlattenSeq([i \in DOMAIN gone |-> Forget(gone[i])])
        \o FlattenSeq([i \in DOMAIN order |-> add(kept[order[i]])])
        \o [i \in DOMAIN kcs |-> [op |-> "set_last_index", keychain |-> kcs[i],
                                  value |-> IndexUpdate(req, kcs[i])]]

(* Confirmation times come from the heights remembered; Electrum is asked  *)
(* for the headers of those blocks.                                        *)
ConftimeStep ==
    /\ Phase("conftime") /\ UNCHANGED core
    /\ LET req     == sync[1]
           missing == req.tx_missing_conftime
           txids   == InOrder(DOMAIN missing)
           height(t) == IF t \in DOMAIN req.heights THEN req.heights[t] ELSE <<>>
           heights == {height(t) : t \in DOMAIN missing} \ {<<>>}
           done    == [req EXCEPT !.finished_txs = @ \o
                          [i \in DOMAIN txids |-> [missing[txids[i]] EXCEPT
                                                      !.confirmation_time = height(txids[i])]]]
       IN  IF source = "electrum" /\ \E h \in heights : h[1] > tip
           THEN Ends
           ELSE /\ NextRound(Batched(db, into_db_update(done)), 0)
                /\ Works

-----------------------------------------------------------------------------
(* Bitcoin Core's wallet (external): the scripts imported and the          *)
(* transactions it has listed since, oldest first.                         *)

(* A rescan from a height finds the blocks after it and the mempool.       *)
Rescanned(scripts, from) ==
    LET all == core.imported \cup scripts
        new == {t \in Present \ ToSet(core.known) :
                   Watched(t, all) /\ (Height(t) = <<>> \/ Height(t)[1] > from)}
    IN  [imported |-> all, known |-> core.known \o InOrder(new)]

(* One page of listtransactions, the newest page first.                    *)
Page(index) ==
    LET last  == Len(core.known) - index * LIST_TX_PAGE_SIZE
        first == larger(1, last - LIST_TX_PAGE_SIZE + 1)
        item(t) == [txid |-> t, height |-> Height(t),
                    fee |-> IF \E o \in Spends[t] : PrevOut(o).script_pubkey \in core.imported
                            THEN FullDetails(t).fee ELSE <<>>,
                    immature |-> IsCoinbase(t) /\ Height(t) # <<>>
                                 /\ tip - Height(t)[1] < COINBASE_MATURITY]
    IN  [i \in 1..(last - first + 1) |-> item(core.known[first + i - 1])]

(* listunspent: no immature outputs.                                       *)
CoreUnspent ==
    {o \in {<<t, n>> : t \in ToSet(core.known) \cap Present, n \in 1..2} :
        /\ o[2] \in DOMAIN TxOf[o[1]].output
        /\ TxOf[o[1]].output[o[2]].script_pubkey \in core.imported
        /\ \A t \in Present : o \notin Spends[t]
        /\ IsCoinbase(o[1]) => tip - Height(o[1])[1] >= COINBASE_MATURITY}

-----------------------------------------------------------------------------
(* The RPC client (blockchain/rpc.rs): DbState.                            *)

DbState(round) ==
    [phase |-> "import", round |-> round, page |-> 0, listed |-> <<>>,
     txs |-> [t \in {t.txid : t \in iter_txs(db)} |-> get_tx(db, t)[1]],
     last_indexes |-> [kc \in {kc \in KeychainKind : get_last_index(db, kc) # <<>>} |->
                          get_last_index(db, kc)[1]],
     retained_txs |-> {}, updated_txs |-> {}, updated_utxos |-> {}]

DbState_new ==
    /\ Phase("begin") /\ source = "rpc"
    /\ LET count(kc)  == Len(iter_script_pubkeys(db, kc))
           last_count == larger(count("External"), count("Internal"))
       IN  IF last_count > 1 /\ last_count < start_script_count
           THEN MissingCachedScripts(last_count, start_script_count - last_count)
           ELSE Goes(DbState(sync[1].round)) /\ UNCHANGED db
    /\ UNCHANGED core /\ Works

(* All scripts are imported, to be scanned from the last synchronisation   *)
(* on; the client waits for the scan.                                      *)
ImportStep ==
    /\ Phase("import")
    /\ core' = Rescanned(ToSet(iter_script_pubkeys(db, "External"))
                         \cup ToSet(iter_script_pubkeys(db, "Internal")),
                         IF get_sync_time(db) = <<>> THEN 0 ELSE get_sync_time(db)[1])
    /\ Goes([sync[1] EXCEPT !.phase = "list"]) /\ UNCHANGED db /\ Works

ListStep ==
    /\ Phase("list")
    /\ LET page == Page(sync[1].page)
       IN  Goes(IF page = <<>> THEN [sync[1] EXCEPT !.phase = "mempool"]
                ELSE [sync[1] EXCEPT !.page = @ + 1, !.listed = page \o @])
    /\ UNCHANGED <<core, db>> /\ Works

update_last_index(st, keychain, index) ==
    [st EXCEPT !.last_indexes = (keychain :> (IF keychain \in DOMAIN @ THEN larger(@[keychain], index)
                                              ELSE index)) @@ @]

LocalUtxo(outpoint, is_spent) ==
    LET txout == PrevOut(outpoint)
    IN  [outpoint |-> outpoint, txout |-> txout, is_spent |-> is_spent,
         keychain |-> get_path_from_script_pubkey(db, txout.script_pubkey)[1].t]

(* update_last_index for the owner of each of a set of outputs             *)
Indexed(st, outpoints) ==
    FoldLeft(LAMBDA a, o : LET path == get_path_from_script_pubkey(db, PrevOut(o).script_pubkey)[1]
                           IN  update_last_index(a, path.t, path.p),
             st, InOrder(outpoints))

Own(outpoints) == {o \in outpoints : is_mine(db, PrevOut(o).script_pubkey)}

(* One entry of the list, unless it is neither confirmed nor in the        *)
(* mempool by now.                                                         *)
Entry(st, item) ==
    LET t     == item.txid
        old   == IF t \in DOMAIN st.txs THEN st.txs[t]
                 ELSE [txid |-> t, transaction |-> <<>>, received |-> 0, sent |-> 0,
                       fee |-> <<>>, confirmation_time |-> <<>>]
        new   == [old EXCEPT !.transaction = <<TxOf[t]>>,
                             !.fee = IF @ = <<>> THEN item.fee ELSE @,
                             !.confirmation_time = item.height,
                             !.received = FullDetails(t).received]
        mine  == IF item.immature THEN Own({<<t, n>> : n \in DOMAIN TxOf[t].output}) ELSE {}
    IN  IF item.height = <<>> /\ status[t] # <<0>> THEN st
        ELSE [Indexed(st, mine) EXCEPT
                 !.txs = (t :> new) @@ @,
                 !.updated_utxos = @ \cup {LocalUtxo(o, FALSE) : o \in mine},
                 !.retained_txs = @ \cup {t},
                 !.updated_txs = IF t \in DOMAIN st.txs /\ new = old THEN @ ELSE @ \cup {t}]

(* Only spent outputs of transactions at hand are counted.                 *)
sent_from_raw_tx(st, t) ==
    MapThenSumSet(LAMBDA o : PrevOut(o).value,
                  Own({o \in Spends[t] : o[1] \in DOMAIN st.txs /\ st.txs[o[1]].transaction # <<>>}))

EntriesStep ==
    /\ Phase("mempool")
    /\ LET st  == FoldLeft(Entry, sync[1], sync[1].listed)
           upd == {t \in st.retained_txs : st.txs[t].sent # sent_from_raw_tx(st, t)}
       IN  Goes([st EXCEPT !.phase = "unspent", !.updated_txs = @ \cup upd,
                           !.txs = [t \in upd |-> [st.txs[t] EXCEPT !.sent = sent_from_raw_tx(st, t)]] @@ @])
    /\ UNCHANGED <<core, db>> /\ Works

(* An output may be in the set twice, spent and unspent; the last one      *)
(* written stays, and the order of a HashSet is anyone's.                  *)
LastWritten(updated) ==
    LET twice == {u.outpoint : u \in {u \in updated : \E v \in updated : v # u /\ v.outpoint = u.outpoint}}
    IN  {{u \in updated : u.outpoint \in twice => u.is_spent = (u.outpoint \in S)} : S \in SUBSET twice}

as_db_batch(st, utxos) ==
    LET del  == InOrder(DOMAIN st.txs \ st.retained_txs)
        upd  == InOrder(st.updated_txs)
        outs == InOrder(utxos)
        kcs  == InOrder(DOMAIN st.last_indexes)
    IN  [i \in DOMAIN del |-> [op |-> "del_tx", txid |-> del[i], include_raw |-> FALSE]]
        \o [i \in DOMAIN upd |-> [op |-> "set_tx", details |-> st.txs[upd[i]]]]
        \o [i \in DOMAIN outs |-> [op |-> "set_utxo", utxo |-> outs[i]]]
        \o [i \in DOMAIN kcs |-> [op |-> "set_last_index", keychain |-> kcs[i],
                                  value |-> st.last_indexes[kcs[i]]]]

UnspentStep ==
    /\ Phase("unspent")
    /\ LET outpoints  == Own(CoreUnspent)
           core_utxos == {LocalUtxo(o, FALSE) : o \in outpoints}
           utxos      == iter_utxos(db)
           spent      == {[u EXCEPT !.is_spent = TRUE] : u \in utxos \ core_utxos}
           st         == Indexed(sync[1], outpoints)
       IN  \E written \in LastWritten(st.updated_utxos \cup spent \cup (core_utxos \ utxos)) :
               NextRound(Batched(db, as_db_batch(st, written)), 0)
    /\ UNCHANGED core /\ Works

-----------------------------------------------------------------------------
(* Wallet::sync                                                            *)

BeginSync ==
    /\ calls < MaxCalls /\ calls' = calls + 1 /\ sync = <<>>
    /\ db' = ensure_addresses_cached(db, CACHE_ADDR_BATCH_SIZE).db
    /\ calm' = TRUE
    /\ Goes([phase |-> "begin", round |-> 1, complete |-> FALSE])
    /\ UNCHANGED <<chainVars, setup, core>>

(* The height of the synchronisation is asked for last.                    *)
FinishSync ==
    /\ Phase("height")
    /\ db' = Apply(db, [op |-> "set_sync_time", time |-> tip])
    /\ sync' = <<>>
    /\ UNCHANGED core /\ Works

(* Any request may fail.                                                   *)
RequestFails == sync # <<>> /\ Ends /\ UNCHANGED core

-----------------------------------------------------------------------------
Checksum(keychain) == <<"descriptor", keychain>>

(* Wallet::new stores the checksums of both descriptors.                   *)
Opened(d) ==
    CheckChecksum(CheckChecksum(d, "External", Checksum("External")).db,
                  "Internal", Checksum("Internal")).db

Init ==
    /\ status = [t \in Txids |-> <<>>] /\ tip = 1 /\ changes = 0
    /\ \E s \in Setups : source = s[1] /\ wildcard = s[2]
    /\ core = [imported |-> {}, known |-> <<>>]
    /\ db = Opened(New)
    /\ calls = 0 /\ sync = <<>> /\ calm = FALSE

ResetAddress == \E kc \in KeychainKind, index \in ResetIndexes : reset_address(kc, index)

Next ==
    \/ \E t \in Txids : Arrives(t)
    \/ Mine
    \/ Disconnect
    \/ \E kc \in KeychainKind : get_new_address(kc)
    \/ \E kc \in KeychainKind : get_unused_address(kc)
    \/ ResetAddress
    \/ BeginSync
    \/ Start \/ ScriptStep \/ TxStep \/ ConftimeStep
    \/ DbState_new \/ ImportStep \/ ListStep \/ EntriesStep \/ UnspentStep
    \/ FinishSync
    \/ RequestFails

Spec == Init /\ [][Next]_vars

-----------------------------------------------------------------------------
(* Memory, sled and sqlite answer every question alike, after single       *)
(* operations as after batches, and accept the descriptor they were        *)
(* created with and no other.                                              *)
BackendsAgree ==
    /\ MemoryView(db.memory) = TreeView(db.tree)
    /\ MemoryView(db.memory) = SqliteView(db.sqlite)
    /\ \A kc, other \in KeychainKind :
           CheckChecksum(db, kc, Checksum(other)).ok = [i \in 1..3 |-> kc = other]

(* get_balance finds the transaction of every unspent output ("Transaction *)
(* not found in database", "No transaction" are its panics).               *)
HasTransaction(u) ==
    LET tx == get_tx(db, u.outpoint[1]) IN tx # <<>> /\ tx[1].transaction # <<>>
BalanceNeverPanics == \A u \in list_unspent(db) : HasTransaction(u)

(* The same for the clients that go by scripts: a batch is one picture of  *)
(* the chain, however it moved between the requests.                       *)
ScriptBalanceNeverPanics == source # "rpc" => BalanceNeverPanics

(* Holes in the cache: an address above them was cached by itself.         *)
Cached(kc) == {r[2] : r \in {r \in iter_scripts(db) : r[1] = kc}}
Contiguous(kc) == Cached(kc) = 0..(Cardinality(Cached(kc)) - 1)

Relevant == {t \in Present : \E s \in Touches[t] : is_mine(db, s)}
OwnOutputs(S) == Own(UNION {{<<t, n>> : n \in DOMAIN TxOf[t].output} : t \in S})
Used(kc) == {c \in Cached(kc) : \E t \in Present : Script_of(kc, c) \in Touches[t]}

BalanceOf(outpoints) ==
    LET value(S)   == MapThenSumSet(LAMBDA o : PrevOut(o).value, S)
        pending    == {o \in outpoints : Height(o[1]) = <<>>}
        young      == {o \in outpoints \ pending : IsCoinbase(o[1]) /\ tip - Height(o[1])[1] < COINBASE_MATURITY}
        change     == {o \in pending : PrevOut(o).script_pubkey[1] = "Internal"}
    IN  [immature |-> value(young), confirmed |-> value(outpoints \ (pending \cup young)),
         trusted_pending |-> value(change), untrusted_pending |-> value(pending \ change)]

(* What a synchronisation by scripts leaves in the database: the           *)
(* transactions of the chain that touch a cached script, at their heights, *)
(* every own output with its true spent flag, the balance of those         *)
(* outputs, and an index past every used address; unless the cache has     *)
(* holes it ends with a gap of stop_gap unused addresses behind the last   *)
(* used one.  With Core's wallet it leaves what that wallet lists, and no  *)
(* output is taken for unspent that is spent.                              *)
Picture ==
    LET seen    == IF source = "rpc" THEN Present \cap ToSet(core.known) ELSE Relevant
        spent   == UNION {Spends[t] : t \in Present}
        unspent == {u.outpoint : u \in list_unspent(db)}
    IN  /\ {<<t.txid, t.confirmation_time>> : t \in iter_txs(db)} = {<<t, Height(t)>> : t \in seen}
        /\ unspent \subseteq OwnOutputs(seen) \ spent
        /\ source # "rpc" =>
               /\ {<<u.outpoint, u.is_spent>> : u \in iter_utxos(db)}
                      = {<<o, o \in spent>> : o \in OwnOutputs(seen)}
               /\ BalanceOf(OwnOutputs(seen) \ spent)
                      = get_balance(Apply(db, [op |-> "set_sync_time", time |-> tip]))
               /\ \A kc \in KeychainKind : Contiguous(kc) /\ wildcard[kc] =>
                      \A c \in Used(kc) : /\ c + stop_gap \in Cached(kc)
                                          /\ get_last_index(db, kc)[1] >= c

(* A wallet with one derivable descriptor and one that is not has a single *)
(* round.  When that round asks for more addresses they are cached, and    *)
(* the synchronisation ends well, with its time set and nothing else       *)
(* written.                                                                *)
GivenUp == ~sync[1].complete /\ {wildcard[kc] : kc \in KeychainKind} = BOOLEAN

(* When the chain stood still, a synchronisation that ends well leaves a   *)
(* picture of it, save the one that GivenUp describes.                     *)
SyncReflectsChain == Phase("height") /\ calm => Picture \/ GivenUp

(* ScriptBalanceNeverPanics and SyncReflectsChain: when the chain stood    *)
(* still a synchronisation that ends well leaves a picture of it, unless   *)
(* one of two descriptors is not derivable and the only round ended with a *)
(* request for more addresses; however the chain moved, what a             *)
(* synchronisation by scripts leaves is a balance that can be read.        *)
SyncLeavesPicture == ScriptBalanceNeverPanics /\ SyncReflectsChain

(* The index of a keychain goes down only when the caller resets it: no    *)
(* synchronisation hands out an address again.                             *)
IndexNeverBack ==
    [][ResetAddress \/ \A kc \in KeychainKind :
          get_last_index(db, kc) # <<>> =>
              get_last_index(db', kc) # <<>> /\ get_last_index(db', kc)[1] >= get_last_index(db, kc)[1]]_vars
=============================================================================
