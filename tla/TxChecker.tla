----------------------------- MODULE TxChecker -----------------------------
(***************************************************************************)
(* crates/tx-check, for L1 transactions: the isolated check of new ones,   *)
(* which looks at nothing but the transaction, and the full check of       *)
(* confirmed ones, which reads the storage and awaits it at every          *)
(* transaction: one step each.  What a check concludes from the contents   *)
(* of a transaction is given by constants.                                 *)
(***************************************************************************)
EXTENDS Controller

CONSTANTS
  Parents,         \* ids whose outputs a transaction spends with a proof
  EmptyParents,    \* those of them whose proof is the empty one
  Sound,           \* transactions that check_transaction accepts
  Permitted,       \* transactions whose full check finds nothing wrong
  FromPeer         \* transactions whose mempool entry names a sender

ASSUME CheckerAssumption ==
  /\ Parents \in [Tx -> SUBSET Txid] /\ EmptyParents \in [Tx -> SUBSET Txid]
  /\ Sound \subseteq Tx /\ Permitted \subseteq Tx /\ FromPeer \subseteq Tx

VARIABLES
  checking,           \* inside check_txs_full
  unchecked,          \* the transactions it has not come to
  checked_txs,        \* those it accepts
  invalid_txs,        \* those it rejects
  not_found_parents   \* parents to ask the senders for

checkerVars == <<checking, unchecked, checked_txs, invalid_txs, not_found_parents>>

CheckerInit ==
  /\ checking = FALSE
  /\ unchecked = {}
  /\ checked_txs = {}
  /\ invalid_txs = {}
  /\ not_found_parents = {}

GetData(S) == [type |-> "GetData", txs |-> S]

(* An event of the checker's channel is taken between two events only.     *)
CheckerTakes(type) ==
  /\ ~checking
  /\ Next1(toChecker, type)
  /\ toChecker' = Tail(toChecker)

check_txs_isolated ==
  /\ CheckerTakes("IsolatedCheck")
  /\ LET txs == Head(toChecker).txs
     IN  toController' =
           SendUnlessEmpty(SendUnlessEmpty(toController,
                                           PartiallyCheckedTxs(Ids(txs \cap Sound))),
                           InvalidTxs(Ids(txs \ Sound)))
  /\ UNCHANGED <<checkerVars, storage>>

check_txs_full ==
  /\ CheckerTakes("FullCheck")
  /\ checking' = TRUE
  /\ unchecked' = Head(toChecker).txs
  /\ UNCHANGED <<checked_txs, invalid_txs, not_found_parents, storage, toController>>

-----------------------------------------------------------------------------
(* check_lrc20_transaction, by the type of the transaction.                *)

Accept(x) == checked_txs' = checked_txs \cup {x} /\ UNCHANGED invalid_txs

Reject(x) == invalid_txs' = invalid_txs \cup {x} /\ UNCHANGED checked_txs

(* A transaction that the storage has is not looked at again.              *)
check_issue_announcement(x) == l1[TxidOf[x]] # NoRow \/ x \in Permitted

(* An issuance that passes is stored, over what is there.                  *)
check_issuance(x) ==
  /\ \/ check_issue_announcement(x) /\ Accept(x) /\ l1' = Inserted({x})
     \/ ~check_issue_announcement(x) /\ Reject(x) /\ UNCHANGED l1
  /\ UNCHANGED not_found_parents

(* Faulty: every announcement passes.                                      *)
check_announcements_unchecked(x) == Accept(x) /\ UNCHANGED <<l1, not_found_parents>>

check_announcements(x) ==
  /\ \/ /\ IF Kind[x] = "IssueAnnouncement" THEN check_issue_announcement(x)
           ELSE x \in Permitted
        /\ Accept(x)
     \/ /\ ~IF Kind[x] = "IssueAnnouncement" THEN check_issue_announcement(x)
            ELSE x \in Permitted
        /\ Reject(x)
  /\ UNCHANGED <<l1, not_found_parents>>

(* Faulty: missing parents are not asked for.                              *)
check_transfer_no_request(x) ==
  /\ \/ x \in Permitted /\ Accept(x) /\ UNCHANGED not_found_parents
     \/ x \notin Permitted /\ Reject(x) /\ UNCHANGED not_found_parents
  /\ UNCHANGED l1

(* The parents of a transfer need not be there, but its sender is asked    *)
(* for those that are neither stored nor accepted in this batch.  A        *)
(* transfer found invalid at one input may have met some of them before.   *)
check_transfer(x) ==
  LET missing == {p \in Parents[x] : l1[p] = NoRow /\ p \notin Ids(checked_txs)}
      ask(S)  == not_found_parents' =
                   IF x \in FromPeer THEN not_found_parents \cup S ELSE not_found_parents
  IN  /\ \/ x \in Permitted /\ Accept(x) /\ ask(missing)
         \/ x \notin Permitted /\ Reject(x) /\ \E S \in SUBSET missing : ask(S)
      /\ UNCHANGED l1

check_spark_exit_transaction(x) ==
  /\ \/ x \in Permitted /\ Accept(x)
     \/ x \notin Permitted /\ Reject(x)
  /\ UNCHANGED <<l1, not_found_parents>>

check_lrc20_transaction(x) ==
  /\ checking
  /\ x \in unchecked
  /\ unchecked' = unchecked \ {x}
  /\ CASE Kind[x] = "Issue"     -> check_issuance(x)
       [] IsAnnouncement(x)     -> check_announcements(x)
       [] Kind[x] = "Transfer"  -> check_transfer(x)
       [] Kind[x] = "SparkExit" -> check_spark_exit_transaction(x)
  /\ UNCHANGED <<checking, mempool, toChecker, toController>>

(* The three messages that end a full check.                               *)
FullCheckDone ==
  /\ checking
  /\ unchecked = {}
  /\ toController' =
       SendUnlessEmpty(
         SendUnlessEmpty(
           SendUnlessEmpty(toController, FullyCheckedTxs(checked_txs)),
           InvalidTxs(Ids(invalid_txs))),
         GetData(not_found_parents))
  /\ checking' = FALSE
  /\ checked_txs' = {}
  /\ invalid_txs' = {}
  /\ not_found_parents' = {}
  /\ UNCHANGED <<unchecked, storage, toChecker>>

=============================================================================
