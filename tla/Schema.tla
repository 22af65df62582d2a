------------------------------- MODULE Schema -------------------------------
(***************************************************************************)
(* The database schema of crates/storage: the three migrations as the      *)
(* statements that they execute, and the entities that the code reads and  *)
(* writes the tables through.  A migration runs in a transaction: when one *)
(* of its statements fails the database stays as it is.  Of the columns    *)
(* the names are known and whether they may be NULL, of the rows what a    *)
(* statement may fail for: whether a table has any, whether some agree in  *)
(* all but their keys, and whether some have NULL in a column that a       *)
(* migration makes mandatory.                                              *)
(***************************************************************************)
EXTENDS Naturals, FiniteSets, Sequences

CONSTANTS
  Populated,    \* the tables that the node writes rows to
  Repeated      \* those that may have rows which agree in all but their keys

VARIABLES
  level,    \* the migrations applied
  db        \* tables, indexes and enum types; the tables that have rows, the
            \* ones that have rows alike, and the columns that have a NULL

vars == <<level, db>>

Failed == [failed |-> TRUE]

-----------------------------------------------------------------------------
(* What a statement does.                                                  *)

(* A table: columns, those of them that may be NULL, unique keys, and the  *)
(* key of another table that its rows refer to and go with (ON DELETE      *)
(* CASCADE).                                                               *)
Table(columns, keys, refs) ==
  [columns |-> columns \cup {"id"}, nullable |-> {}, keys |-> keys \cup {{"id"}},
   refs |-> refs]

Ref(table, columns) == {[table |-> table, columns |-> columns]}

TablesOf(d) == DOMAIN d.tables

Column(table, column) == [table |-> table, column |-> column]

Put(f, k, v) == [j \in DOMAIN f \cup {k} |-> IF j = k THEN v ELSE f[j]]

(* CREATE TABLE IF NOT EXISTS: a foreign key needs a unique key.           *)
CreateTable(d, s) ==
  IF s.table \in TablesOf(d) THEN d
  ELSE IF \E r \in s.def.refs : \/ r.table \notin TablesOf(d)
                                \/ r.columns \notin d.tables[r.table].keys
  THEN Failed
  ELSE [d EXCEPT !.tables = Put(@, s.table, s.def)]

(* DROP TABLE: with CASCADE the references to it go, without they forbid   *)
(* it.  Its indexes go in any case.                                        *)
DropTable(d, s) ==
  LET t == s.table
      users == {u \in TablesOf(d) \ {t} : \E r \in d.tables[u].refs : r.table = t}
  IN  CASE t \notin TablesOf(d) -> IF s.if_exists THEN d ELSE Failed
        [] t \in TablesOf(d) /\ users # {} /\ ~s.cascade -> Failed
        [] OTHER ->
             [d EXCEPT !.tables =
                         [u \in TablesOf(d) \ {t} |->
                            [d.tables[u] EXCEPT !.refs = {r \in @ : r.table # t}]],
                       !.indexes = {i \in @ : i.table # t},
                       !.filled = @ \ {t},
                       !.alike = @ \ {t},
                       !.nulls = {c \in @ : c.table # t}]

(* A column without default that must not be null cannot be added where    *)
(* there are rows.                                                         *)
AddColumn(d, s) ==
  IF s.required /\ s.table \in d.filled THEN Failed
  ELSE [d EXCEPT !.tables[s.table].columns = @ \cup {s.column},
                 !.tables[s.table].nullable = IF s.required THEN @ ELSE @ \cup {s.column}]

(* NOT NULL for a column that is there; without not_null modify_column     *)
(* sets the type of the column alone.                                      *)
ModifyColumn(d, s) ==
  IF ~s.required THEN d
  ELSE IF Column(s.table, s.column) \in d.nulls THEN Failed
  ELSE [d EXCEPT !.tables[s.table].nullable = @ \ {s.column}]

(* The indexes over a column go with it.                                   *)
DropColumn(d, s) ==
  IF s.column \notin d.tables[s.table].columns THEN Failed
  ELSE [d EXCEPT !.tables[s.table].columns = @ \ {s.column},
                 !.tables[s.table].nullable = @ \ {s.column},
                 !.nulls = @ \ {Column(s.table, s.column)},
                 !.indexes = {i \in @ : i.table = s.table => s.column \notin i.columns}]

(* Rows of a table that agree in all but its keys agree in what the index  *)
(* has to tell apart.                                                      *)
Violates(d, i) == i.unique /\ i.table \in d.alike

CreateIndex(d, s) ==
  IF \E i \in d.indexes : i.name = s.index.name
  THEN IF s.if_not_exists THEN d ELSE Failed
  ELSE IF ~(s.index.columns \subseteq d.tables[s.index.table].columns) THEN Failed
  ELSE IF Violates(d, s.index) THEN Failed
  ELSE [d EXCEPT !.indexes = @ \cup {s.index}]

DropIndex(d, s) ==
  IF \E i \in d.indexes : i.name = s.name
  THEN [d EXCEPT !.indexes = {i \in @ : i.name # s.name}]
  ELSE IF s.if_exists THEN d ELSE Failed

Execute(d, s) ==
  CASE d = Failed -> Failed
    [] d # Failed /\ s.do = "create_table" -> CreateTable(d, s)
    [] d # Failed /\ s.do = "drop_table"   -> DropTable(d, s)
    [] d # Failed /\ s.do = "add_column"   -> AddColumn(d, s)
    [] d # Failed /\ s.do = "modify_column" -> ModifyColumn(d, s)
    [] d # Failed /\ s.do = "drop_column"  -> DropColumn(d, s)
    [] d # Failed /\ s.do = "create_index" -> CreateIndex(d, s)
    [] d # Failed /\ s.do = "drop_index"   -> DropIndex(d, s)
    [] d # Failed /\ s.do = "create_types" -> [d EXCEPT !.types = @ \cup s.types]
    [] d # Failed /\ s.do = "drop_types"   -> [d EXCEPT !.types = @ \ s.types]
    [] d # Failed /\ s.do = "insert"       -> [d EXCEPT !.filled = @ \cup {s.table}]

(* The columns of the first migration without not_null.                    *)
Nullable ==
  [proof |-> {"spend_txid", "spend_vout", "metadata"},
   lightning_htlc_proof |-> {"cltv_expiry"},
   mempool_transaction |-> {"sender"},
   spark_transaction |-> {"network"},
   spark_output |-> {"exit_script", "revocation_secret_key", "is_frozen", "withdraw_txid",
                     "withdraw_vout", "withdraw_blockhash", "spend_txid", "spend_vout"},
   operator_signature |-> {"signature", "type"},
   indexer_state |-> {"last_block_hash", "last_block_height", "updated_at"}]

Run(d, statements) ==
  LET after[i \in 0..Len(statements)] ==
        IF i = 0 THEN d ELSE Execute(after[i - 1], statements[i])
  IN  after[Len(statements)]

create(table, def) ==
  [do |-> "create_table", table |-> table,
   def |-> [def EXCEPT !.nullable = IF table \in DOMAIN Nullable THEN Nullable[table] ELSE {}]]
drop(table) == [do |-> "drop_table", table |-> table, if_exists |-> TRUE, cascade |-> FALSE]
drop_cascade(table) == [drop(table) EXCEPT !.cascade = TRUE]
drop_existing(table) == [drop(table) EXCEPT !.if_exists = FALSE]
add(table, column, required) ==
  [do |-> "add_column", table |-> table, column |-> column, required |-> required]
modify(table, column, required) ==
  [add(table, column, required) EXCEPT !.do = "modify_column"]
remove(table, column) == [do |-> "drop_column", table |-> table, column |-> column]
index(name, table, columns, unique) ==
  [do |-> "create_index", if_not_exists |-> FALSE,
   index |-> [name |-> name, table |-> table, columns |-> columns, unique |-> unique]]
index_again(name, table, columns, unique) ==
  [index(name, table, columns, unique) EXCEPT !.if_not_exists = TRUE]
unindex(name) == [do |-> "drop_index", name |-> name, if_exists |-> FALSE]
unindex_any(name) == [unindex(name) EXCEPT !.if_exists = TRUE]

-----------------------------------------------------------------------------
(* m20250312_143952_add_lrc20_tables.                                      *)

Types ==
  [signature_type |-> {"schnorr", "ecdsa"},
   l1_tx_status |-> {"handling", "attached", "invalid_issue"},
   mempool_status |-> {"initialized", "waiting_mined", "pending", "mined", "attaching"},
   l1_tx_type |-> {"issue", "transfer", "spark_exit", "announcement"},
   proof_type |-> {"spark_exit", "p2tr", "p2wsh", "p2wpkh", "empty", "multisig",
                   "lightning", "lightning_htlc", "bulletproof"},
   script_type |-> {"p2tr", "p2wsh", "p2wpkh"},
   announcement_type |-> {"issue", "tx_freeze", "pubkey_freeze", "transfer_ownership",
                          "token_pubkey", "token_logo"},
   operation_type |-> {"user_transfer", "user_burn", "issuer_announce", "issuer_mint",
                       "issuer_transfer", "issuer_freeze", "issuer_unfreeze", "issuer_burn"},
   status |-> {"started", "signed", "finalized"},
   network |-> {"mainnet", "regtest", "testnet", "signet"}]

(* The columns that the Iden enums name, without the id.                   *)
L1Columns ==
  [l1_transaction |-> {"txid", "raw_tx", "block_number", "block_hash", "timestamp",
                       "status", "tx_type"},
   token |-> {"txid", "vout", "token_pubkey", "token_amount"},
   proof |-> {"txid", "vout", "spend_txid", "spend_vout", "is_frozen", "script",
              "script_type", "proof_type", "metadata"},
   inner_key |-> {"txid", "vout", "pubkey"},
   announcement |-> {"txid", "type", "token_pubkey"},
   token_pubkey_announcement |-> {"txid", "name", "symbol", "decimal", "max_supply",
                                  "is_freezable"},
   token_logo_announcement |-> {"txid", "logo_url"},
   tx_freeze_announcement |-> {"txid", "freeze_txid", "freeze_vout"},
   pubkey_freeze_announcement |-> {"txid", "freeze_pubkey"},
   issue_announcement |-> {"txid", "amount"},
   transfer_ownership_announcement |-> {"txid", "new_owner"},
   p2wsh_proof |-> {"txid", "vout", "script"},
   bulletproof |-> {"txid", "vout", "sender_key", "commitment", "proof", "signature",
                    "token_pubkey_signature"}]

OtherColumns ==
  [spark_exit_proof |-> {"txid", "vout", "revocation_key", "delay_key", "locktime"},
   multisig_proof |-> {"txid", "vout", "m"},
   lightning_commitment_proof |-> {"txid", "vout", "revocation_pubkey",
                                   "local_delayed_pubkey", "to_self_delay"},
   lightning_htlc_proof |-> {"txid", "vout", "revocation_key_hash", "remote_htlc_key",
                             "local_htlc_key", "payment_hash", "cltv_expiry"},
   mempool_transaction |-> {"txid", "status", "created_at", "sender"},
   spark_transaction |-> {"tx_hash", "operation_type", "status", "network", "created_at"},
   spark_output |-> {"spark_id", "tx_hash", "vout", "token_pubkey", "owner_pubkey",
                     "withdrawal_bond_sats", "withdrawal_locktime", "exit_script",
                     "token_amount", "revocation_pubkey", "revocation_secret_key",
                     "is_frozen", "withdraw_txid", "withdraw_vout", "withdraw_blockhash",
                     "spend_txid", "spend_vout"},
   spark_burn |-> {"tx_hash", "vout", "token_pubkey", "amount"},
   operator_signature |-> {"tx_hash", "operator_identity_pubkey", "signature", "type"},
   spark_freeze_data |-> {"tx_hash", "issuer_pubkey", "user_pubkey",
                          "issuer_provided_timestamp", "operator_identity_pubkey",
                          "should_unfreeze", "issuer_signature"},
   indexer_state |-> {"last_block_hash", "last_block_height", "updated_at"}]

(* These two enums also name columns that come with the third migration.   *)
user_signature_columns == {"tx_hash", "owner_pubkey", "signature"}
spark_issue_data_columns ==
  {"tx_hash", "issuer_pubkey", "nonce", "issuer_provided_timestamp", "issuer_signature",
   "issue_amount"}

(* A table whose rows belong to those of another: per txid, per output of  *)
(* a transaction, or per Spark transaction.                                *)
OfTransaction(table, parent, columns) ==
  create(table, Table(columns, {{"txid"}}, Ref(parent, {"txid"})))

OfProof(table, columns) ==
  create(table, Table(columns, {{"txid", "vout"}}, Ref("proof", {"txid", "vout"})))

OfSpark(table, keys, columns) ==
  create(table, Table(columns, keys, Ref("spark_transaction", {"tx_hash"})))

CreateL1Tables ==
  << create("l1_transaction", Table(L1Columns.l1_transaction, {{"txid"}}, {})),
     OfTransaction("announcement", "l1_transaction", L1Columns.announcement),
     create("proof", Table(L1Columns.proof, {{"txid", "vout"}},
                           Ref("l1_transaction", {"txid"}))) >>

CreateProofTables ==
  << OfProof("token", L1Columns.token),
     OfProof("p2wsh_proof", L1Columns.p2wsh_proof),
     OfProof("bulletproof", L1Columns.bulletproof),
     OfProof("spark_exit_proof", OtherColumns.spark_exit_proof) >>

CreateMoreProofTables ==
  << OfProof("multisig_proof", OtherColumns.multisig_proof),
     OfProof("lightning_commitment_proof", OtherColumns.lightning_commitment_proof),
     OfProof("lightning_htlc_proof", OtherColumns.lightning_htlc_proof) >>

CreateMempoolTables ==
  << OfTransaction("mempool_transaction", "l1_transaction", OtherColumns.mempool_transaction),
     OfProof("inner_key", L1Columns.inner_key) >>

CreateAnnouncementTables ==
  [i \in 1..4 |->
     LET t == <<"token_pubkey_announcement", "tx_freeze_announcement",
                "pubkey_freeze_announcement", "issue_announcement">>[i]
     IN  OfTransaction(t, "announcement", L1Columns[t])]

CreateOwnershipTables ==
  [i \in 1..2 |->
     LET t == <<"transfer_ownership_announcement", "token_logo_announcement">>[i]
     IN  OfTransaction(t, "announcement", L1Columns[t])]

CreateSparkTables ==
  << create("spark_transaction", Table(OtherColumns.spark_transaction, {{"tx_hash"}}, {})),
     OfSpark("spark_output", {{"spark_id"}}, OtherColumns.spark_output),
     OfSpark("spark_burn", {}, OtherColumns.spark_burn) >>

CreateSparkDataTables ==
  << OfSpark("operator_signature", {}, OtherColumns.operator_signature),
     OfSpark("user_signature", {}, user_signature_columns),
     OfSpark("spark_issue_data", {{"tx_hash"}}, spark_issue_data_columns) >>

CreateStateTables ==
  << OfSpark("spark_freeze_data", {{"tx_hash"}}, OtherColumns.spark_freeze_data),
     create("indexer_state", Table(OtherColumns.indexer_state, {}, {})),
     [do |-> "insert", table |-> "indexer_state"] >>

Up1 ==
  << [do |-> "create_types", types |-> DOMAIN Types] >>
  \o CreateL1Tables \o CreateProofTables \o CreateMoreProofTables \o CreateMempoolTables
  \o CreateAnnouncementTables \o CreateOwnershipTables
  \o CreateSparkTables \o CreateSparkDataTables \o CreateStateTables

DropSparkTables ==
  << [do |-> "drop_types",
      types |-> DOMAIN Types \ {"operation_type", "status", "network"}],
     drop("spark_freeze_data"), drop("spark_issue_data"), drop("user_signature"),
     drop("operator_signature"), drop("spark_burn"), drop_cascade("spark_output"),
     drop_cascade("spark_transaction") >>

DropL1Tables ==
  << drop("transfer_ownership_announcement"), drop("issue_announcement"),
     drop("pubkey_freeze_announcement"), drop("tx_freeze_announcement"),
     drop("token_pubkey_announcement"), drop("token_logo_announcement"),
     drop("inner_key"), drop_cascade("proof"), drop_cascade("l1_transaction"),
     drop("bulletproof"), drop("lightning_commitment_proof"),
     drop("lightning_htlc_proof"), drop("multisig_proof"), drop("mempool_transaction"),
     drop_existing("p2wsh_proof"), drop("spark_exit_proof"),
     drop_cascade("announcement"), drop_existing("token"), drop("indexer_state") >>

Down1 == DropSparkTables \o DropL1Tables

-----------------------------------------------------------------------------
(* m20250312_143954_add_spark_indexes.                                     *)

Up2 ==
  << index("idx_spark_transaction_created_at", "spark_transaction", {"created_at"}, FALSE),
     index("idx_spark_output_tx_hash_vout", "spark_output", {"tx_hash", "vout"}, TRUE),
     index("idx_spark_output_token_pubkey", "spark_output", {"token_pubkey"}, FALSE),
     index("idx_spark_output_owner_pubkey", "spark_output", {"owner_pubkey"}, FALSE),
     index("idx_spark_output_spend", "spark_output", {"spend_txid", "spend_vout"}, TRUE),
     index("idx_spark_burn_tx_hash_vout", "spark_burn", {"tx_hash", "vout"}, TRUE),
     index("idx_spark_burn_token_pubkey", "spark_burn", {"token_pubkey"}, FALSE),
     index("idx_operator_signature_tx_hash_operator", "operator_signature",
           {"tx_hash", "operator_identity_pubkey"}, TRUE),
     index("idx_user_signature_tx_hash_owner", "user_signature",
           {"tx_hash", "owner_pubkey"}, TRUE),
     index("idx_spark_output_spend_txid_vout", "spark_output",
           {"spend_txid", "spend_vout"}, FALSE),
     index("idx_user_signature_owner_pubkey", "user_signature", {"owner_pubkey"}, FALSE),
     index("idx_spark_issue_data_issuer_pubkey", "spark_issue_data", {"issuer_pubkey"}, FALSE),
     index("idx_spark_issue_data_timestamp", "spark_issue_data",
           {"issuer_provided_timestamp"}, FALSE),
     index("idx_spark_freeze_data_issuer_pubkey", "spark_freeze_data", {"issuer_pubkey"}, FALSE),
     index("idx_spark_freeze_data_user_pubkey", "spark_freeze_data", {"user_pubkey"}, FALSE),
     index("idx_spark_freeze_data_timestamp", "spark_freeze_data",
           {"issuer_provided_timestamp"}, FALSE) >>

Down2 ==
  << unindex("idx_spark_freeze_data_timestamp"),
     unindex("idx_spark_freeze_data_user_pubkey"),
     unindex("idx_spark_freeze_data_issuer_pubkey"),
     unindex("idx_spark_issue_data_timestamp"),
     unindex("idx_spark_issue_data_issuer_pubkey"),
     unindex("idx_user_signature_tx_hash_owner"),
     unindex("idx_operator_signature_tx_hash_operator"),
     unindex("idx_spark_burn_token_pubkey"), unindex("idx_spark_burn_tx_hash_vout"),
     unindex("idx_spark_output_spend"), unindex("idx_spark_output_owner_pubkey"),
     unindex("idx_spark_output_token_pubkey"), unindex("idx_spark_output_tx_hash_vout"),
     unindex("idx_spark_transaction_created_at"),
     unindex("idx_user_signature_owner_pubkey"),
     unindex("idx_spark_output_spend_txid_vout") >>

-----------------------------------------------------------------------------
(* m20250424_081507_add_operator_pubkey.                                   *)

Up3 ==
  << OfSpark("operator_pubkey", {{"tx_hash", "operator_identity_pubkey"}},
             {"tx_hash", "operator_identity_pubkey"}),
     remove("user_signature", "owner_pubkey"),
     add("user_signature", "operator_public_key", FALSE),
     add("user_signature", "type", FALSE),
     add("user_signature", "index", TRUE),
     index("idx_user_signature_tx_hash_signature", "user_signature",
           {"tx_hash", "signature"}, TRUE),
     modify("operator_signature", "signature", TRUE),
     add("spark_issue_data", "operator_pubkey", FALSE),
     add("spark_issue_data", "signature_type", FALSE),
     unindex_any("idx_user_signature_tx_hash_owner"),
     unindex_any("idx_spark_output_spend_txid_vout"),
     unindex_any("idx_user_signature_owner_pubkey") >>

(* Faulty: the index over the owner is not made again.                     *)
Down3IndexLost ==
  << drop("operator_pubkey"),
     add("user_signature", "owner_pubkey", TRUE),
     remove("user_signature", "operator_public_key"), remove("user_signature", "type"),
     remove("user_signature", "index"),
     unindex("idx_user_signature_tx_hash_signature"),
     modify("operator_signature", "signature", FALSE),
     remove("spark_issue_data", "operator_pubkey"),
     remove("spark_issue_data", "signature_type"),
     index_again("idx_user_signature_tx_hash_owner", "user_signature",
                 {"tx_hash", "owner_pubkey"}, TRUE),
     index_again("idx_spark_output_spend_txid_vout", "spark_output",
                 {"spend_txid", "spend_vout"}, FALSE) >>

Down3 ==
  << drop("operator_pubkey"),
     add("user_signature", "owner_pubkey", TRUE),
     remove("user_signature", "operator_public_key"),
     remove("user_signature", "type"),
     remove("user_signature", "index"),
     unindex("idx_user_signature_tx_hash_signature"),
     modify("operator_signature", "signature", FALSE),
     remove("spark_issue_data", "operator_pubkey"),
     remove("spark_issue_data", "signature_type"),
     index_again("idx_user_signature_tx_hash_owner", "user_signature",
                 {"tx_hash", "owner_pubkey"}, TRUE),
     index_again("idx_spark_output_spend_txid_vout", "spark_output",
                 {"spend_txid", "spend_vout"}, FALSE),
     index_again("idx_user_signature_owner_pubkey", "user_signature",
                 {"owner_pubkey"}, FALSE) >>

migrations ==
  << [up |-> Up1, down |-> Down1], [up |-> Up2, down |-> Down2], [up |-> Up3, down |-> Down3] >>

-----------------------------------------------------------------------------
(* The migrator, and a node that writes and deletes rows in between.       *)

Empty ==
  [tables |-> [t \in {} |-> {}], indexes |-> {}, types |-> {},
   filled |-> {}, alike |-> {}, nulls |-> {}]

Init == level = 0 /\ db = Empty

Up ==
  /\ level < Len(migrations)
  /\ level' = level + 1
  /\ db' = Run(db, migrations[level'].up)
  /\ db' # Failed

Down ==
  /\ level > 0
  /\ level' = level - 1
  /\ db' = Run(db, migrations[level].down)
  /\ db' # Failed

ParentsOf(t) == {r.table : r \in db.tables[t].refs}

InsertRow(t) ==
  /\ t \in TablesOf(db) \ db.filled
  /\ ParentsOf(t) \subseteq db.filled
  /\ db' = [db EXCEPT !.filled = @ \cup {t}]
  /\ UNCHANGED level

(* A row that differs from another in the keys of the table alone.         *)
InsertAlike(t) ==
  /\ t \in db.filled \ db.alike
  /\ \A i \in db.indexes : i.table = t => ~i.unique
  /\ db' = [db EXCEPT !.alike = @ \cup {t}]
  /\ UNCHANGED level

(* A row without a value for a column that some migration modifies.        *)
InsertNull(t, c) ==
  /\ t \in TablesOf(db)
  /\ c \in db.tables[t].nullable
  /\ ParentsOf(t) \subseteq db.filled
  /\ db' = [db EXCEPT !.filled = @ \cup {t}, !.nulls = @ \cup {Column(t, c)}]
  /\ UNCHANGED level

(* The rows of a table go, and those that refer to them.                   *)
DeleteRows(t) ==
  LET below == {u \in TablesOf(db) : t \in ParentsOf(u)}
      lower == {u \in TablesOf(db) : ParentsOf(u) \cap below # {}}
      all   == {t} \cup below \cup lower
               \cup {u \in TablesOf(db) : ParentsOf(u) \cap lower # {}}
  IN  /\ t \in db.filled
      /\ db' = [db EXCEPT !.filled = @ \ all, !.alike = @ \ all,
                          !.nulls = {c \in @ : c.table \notin all}]
      /\ UNCHANGED level

Next ==
  \/ Up
  \/ Down
  \/ \E t \in Populated : InsertRow(t)
  \/ \E t \in Repeated : InsertAlike(t)
  \/ InsertNull("operator_signature", "signature")
  \/ \E t \in Populated : DeleteRows(t)

Spec == Init /\ [][Next]_vars

-----------------------------------------------------------------------------
(* The entities.                                                           *)

Entity(columns, parents) == [columns |-> columns \cup {"id"}, parents |-> parents]

(* The fields of the entities that are an Option.                          *)
Optional ==
  [indexer_state |-> {"last_block_hash", "last_block_height", "updated_at"},
   lightning_htlc_proof |-> {"cltv_expiry"},
   mempool_transaction |-> {"sender"},
   operator_signature |-> {"type"},
   proof |-> {"spend_txid", "spend_vout", "metadata"},
   spark_issue_data |-> {"operator_pubkey", "signature_type"},
   spark_output |-> {"exit_script", "revocation_secret_key", "is_frozen", "withdraw_txid",
                     "withdraw_vout", "withdraw_blockhash", "spend_txid", "spend_vout"},
   spark_transaction |-> {"network"},
   user_signature |-> {"operator_public_key", "type"}]

announcement_entity ==
  Entity({"txid", "token_pubkey", "type"}, {"l1_transaction"})

bulletproof_entity ==
  Entity({"txid", "vout", "sender_key", "commitment", "proof", "signature",
          "token_pubkey_signature"}, {"proof"})

indexer_state_entity ==
  Entity({"last_block_hash", "last_block_height", "updated_at"}, {})

inner_key_entity ==
  Entity({"txid", "vout", "pubkey"}, {"proof"})

issue_announcement_entity ==
  Entity({"txid", "amount"}, {"announcement"})

l1_transaction_entity ==
  Entity({"txid", "raw_tx", "block_number", "block_hash", "timestamp", "status",
          "tx_type"}, {})

lightning_commitment_proof_entity ==
  Entity({"txid", "vout", "revocation_pubkey", "local_delayed_pubkey", "to_self_delay"},
         {"proof"})

lightning_htlc_proof_entity ==
  Entity({"txid", "vout", "cltv_expiry", "local_htlc_key", "payment_hash",
          "remote_htlc_key", "revocation_key_hash"}, {"proof"})

mempool_transaction_entity ==
  Entity({"txid", "status", "created_at", "sender"}, {"l1_transaction"})

multisig_proof_entity ==
  Entity({"txid", "vout", "m"}, {"proof"})

operator_pubkey_entity ==
  Entity({"tx_hash", "operator_identity_pubkey"}, {"spark_transaction"})

operator_signature_entity ==
  Entity({"tx_hash", "operator_identity_pubkey", "signature", "type"},
         {"spark_transaction"})

p2wsh_proof_entity ==
  Entity({"txid", "vout", "script"}, {"proof"})

proof_entity ==
  Entity({"txid", "vout", "spend_txid", "spend_vout", "is_frozen", "script",
          "metadata", "script_type", "proof_type"}, {"l1_transaction"})

pubkey_freeze_announcement_entity ==
  Entity({"txid", "freeze_pubkey"}, {"announcement"})

spark_burn_entity ==
  Entity({"tx_hash", "vout", "token_pubkey", "amount"}, {"spark_transaction"})

spark_exit_proof_entity ==
  Entity({"txid", "vout", "delay_key", "revocation_key", "locktime"}, {"proof"})

spark_freeze_data_entity ==
  Entity({"tx_hash", "issuer_pubkey", "user_pubkey", "issuer_provided_timestamp",
          "operator_identity_pubkey", "should_unfreeze", "issuer_signature"},
         {"spark_transaction"})

spark_issue_data_entity ==
  Entity({"tx_hash", "issuer_pubkey", "nonce", "issuer_provided_timestamp",
          "issuer_signature", "issue_amount", "operator_pubkey", "signature_type"},
         {"spark_transaction"})

spark_output_entity ==
  Entity({"spark_id", "tx_hash", "vout", "token_pubkey", "owner_pubkey",
          "withdrawal_bond_sats", "withdrawal_locktime", "exit_script",
          "token_amount", "revocation_pubkey", "revocation_secret_key", "is_frozen",
          "withdraw_txid", "withdraw_vout", "withdraw_blockhash", "spend_txid",
          "spend_vout"}, {"spark_transaction"})

spark_transaction_entity ==
  Entity({"tx_hash", "operation_type", "status", "network", "created_at"}, {})

token_entity ==
  Entity({"txid", "vout", "token_pubkey", "token_amount"}, {"proof"})

token_logo_announcement_entity ==
  Entity({"txid", "logo_url"}, {"announcement"})

token_pubkey_announcement_entity ==
  Entity({"txid", "name", "symbol", "decimal", "max_supply", "is_freezable"},
         {"announcement"})

transfer_ownership_announcement_entity ==
  Entity({"txid", "new_owner"}, {"announcement"})

tx_freeze_announcement_entity ==
  Entity({"txid", "freeze_txid", "freeze_vout"}, {"announcement"})

user_signature_entity ==
  Entity({"tx_hash", "signature", "operator_public_key", "type", "index"},
         {"spark_transaction"})

Entities ==
  [announcement |-> announcement_entity,
   bulletproof |-> bulletproof_entity,
   indexer_state |-> indexer_state_entity,
   inner_key |-> inner_key_entity,
   issue_announcement |-> issue_announcement_entity,
   l1_transaction |-> l1_transaction_entity,
   lightning_commitment_proof |-> lightning_commitment_proof_entity,
   lightning_htlc_proof |-> lightning_htlc_proof_entity,
   mempool_transaction |-> mempool_transaction_entity,
   multisig_proof |-> multisig_proof_entity,
   operator_pubkey |-> operator_pubkey_entity,
   operator_signature |-> operator_signature_entity,
   p2wsh_proof |-> p2wsh_proof_entity,
   proof |-> proof_entity,
   pubkey_freeze_announcement |-> pubkey_freeze_announcement_entity,
   spark_burn |-> spark_burn_entity,
   spark_exit_proof |-> spark_exit_proof_entity,
   spark_freeze_data |-> spark_freeze_data_entity,
   spark_issue_data |-> spark_issue_data_entity,
   spark_output |-> spark_output_entity,
   spark_transaction |-> spark_transaction_entity,
   token |-> token_entity,
   token_logo_announcement |-> token_logo_announcement_entity,
   token_pubkey_announcement |-> token_pubkey_announcement_entity,
   transfer_ownership_announcement |-> transfer_ownership_announcement_entity,
   tx_freeze_announcement |-> tx_freeze_announcement_entity,
   user_signature |-> user_signature_entity]

(* The enums of the entities.                                              *)
ActiveEnums ==
  [announcement_type |-> {"issue", "tx_freeze", "pubkey_freeze", "transfer_ownership",
                          "token_pubkey", "token_logo"},
   l1_tx_status |-> {"handling", "attached", "invalid_issue"},
   l1_tx_type |-> {"issue", "transfer", "spark_exit", "announcement"},
   mempool_status |-> {"initialized", "waiting_mined", "pending", "mined", "attaching"},
   operation_type |-> {"user_transfer", "user_burn", "issuer_announce", "issuer_mint",
                       "issuer_transfer", "issuer_freeze", "issuer_unfreeze", "issuer_burn"},
   proof_type |-> {"spark_exit", "p2tr", "p2wsh", "p2wpkh", "empty", "multisig",
                   "lightning", "lightning_htlc", "bulletproof"},
   script_type |-> {"p2tr", "p2wsh", "p2wpkh"},
   signature_type |-> {"schnorr", "ecdsa"},
   status |-> {"started", "signed", "finalized"}]

-----------------------------------------------------------------------------
(* Properties.                                                             *)

(* The schema after the first migrations on an empty database.             *)
Straight[n \in 0..3] ==
  IF n = 0 THEN Empty ELSE Run(Straight[n - 1], migrations[n].up)

(* Up and down in any order, with rows coming and going in between: the    *)
(* tables, their columns, keys and references and the indexes depend on    *)
(* nothing but the migrations that are applied.  One thing does not come   *)
(* back: the signature of operator_signature, which the third migration    *)
(* makes mandatory, is so until the first one is taken back.  (down leaves *)
(* three enum types; up creates a type only where it is missing.)          *)
SchemaByLevel ==
  /\ \/ db.tables = Straight[level].tables
     \/ /\ level \in {1, 2}
        /\ db.tables = [Straight[level].tables EXCEPT
                         !["operator_signature"].nullable = @ \ {"signature"}]
  /\ db.indexes = Straight[level].indexes
  /\ level > 0 => db.types = DOMAIN Types

(* Fully migrated, the database is what the entities read and write:       *)
(* every table has the columns of its entity, NULL is allowed where the    *)
(* entity has an Option and nowhere else, the relations of an entity are   *)
(* the references of its table, and the enums have the same values.        *)
EntitiesFit ==
  level = Len(migrations) =>
    /\ TablesOf(db) = DOMAIN Entities
    /\ \A t \in TablesOf(db) :
         db.tables[t].nullable = IF t \in DOMAIN Optional THEN Optional[t] ELSE {}
    /\ \A t \in TablesOf(db) : /\ db.tables[t].columns = Entities[t].columns
                               /\ ParentsOf(t) = Entities[t].parents
    /\ \A e \in DOMAIN ActiveEnums : e \in db.types /\ ActiveEnums[e] = Types[e]

(* A migration that has been applied can be taken back and applied again,  *)
(* whatever rows there are, with three exceptions: add_spark_indexes needs *)
(* rows that its unique indexes can tell apart, and add_operator_pubkey an *)
(* empty user_signature, in both directions, for the column that it makes  *)
(* mandatory there, and a signature in every row of operator_signature.    *)
MigrationsGoThrough ==
  /\ level < Len(migrations) =>
       (Run(db, migrations[level + 1].up) = Failed
          <=> \/ /\ level = 1
                 /\ db.alike \cap {"spark_output", "spark_burn", "operator_signature",
                                   "user_signature"} # {}
              \/ /\ level = 2
                 /\ \/ "user_signature" \in db.filled
                    \/ Column("operator_signature", "signature") \in db.nulls)
  /\ level > 0 =>
       (Run(db, migrations[level].down) = Failed
          <=> level = 3 /\ "user_signature" \in db.filled)

=============================================================================
