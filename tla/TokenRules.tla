----------------------------- MODULE TokenRules -----------------------------
(***************************************************************************)
(* What the full check of crates/tx-check asks of announcements, issuances *)
(* and transfers, on the tables it reads: l1_transaction with the          *)
(* announcement tables (one row each per transaction), and proof.  The     *)
(* rows are written when a transaction arrives, long before its check, so  *)
(* a check reads rows of transactions that are themselves unchecked.       *)
(*                                                                         *)
(* The stages between arrival and Mined follow one another in one step     *)
(* here (AttachPipeline has their interleavings), and of the graph builder *)
(* only its promise is left.  A transaction has one output, so an outpoint *)
(* is an id.  Owners and inputs are keys (P2WPKH).  No two transactions    *)
(* arrive in the same millisecond.                                         *)
(***************************************************************************)
EXTENDS Controller, FiniteSetsExt

CONSTANTS
  Key,
  Body,        \* what is in a transaction
  Issuer,      \* the key a token is named by
  MaxAmount,   \* the largest amount (2^128 - 1)
  MaxStored,   \* bound on the transactions that are stored at a time
  MaxCrashes,  \* bound on the crashes of a behaviour
  NoInfo, NoKey

Announcements ==
  {"TokenPubkey", "TokenLogo", "TxFreeze", "PubkeyFreeze", "IssueAnnouncement",
   "TransferOwnership"}

ASSUME TokenAssumption ==
  /\ \A x \in Tx :
       /\ Body[x].type \in Announcements \cup {"Issue", "Transfer"}
       /\ IsAnnouncement(x) <=> Body[x].type \in Announcements
       /\ Kind[x] \in {"Issue", "IssueAnnouncement"} => Kind[x] = Body[x].type
       /\ Body[x].signers \subseteq Key /\ Body[x].spends \subseteq Txid
  /\ MaxAmount \in Nat /\ MaxStored \in Nat /\ MaxCrashes \in Nat
  /\ NoKey \notin Key

(* An id names one transaction, or an issuance and its announcement.       *)
ASSUME IdAssumption ==
  \A x, y \in Tx :
    TxidOf[x] = TxidOf[y] =>
      x = y \/ {Kind[x], Kind[y]} \subseteq {"Issue", "IssueAnnouncement"}

VARIABLES
  arrivals,      \* ids by the timestamp of their row
  proofs,        \* is_frozen of an id's proof row
  waiting,       \* ids the confirmator has
  checking,      \* inside check_txs_full
  unchecked,     \* the rest of its batch
  checked_txs,
  invalid_txs,
  attaching,     \* ids the graph builder has
  crashes,       \* crashes so far
  late           \* history: freezes that came when their target was attached

tables == <<l1, arrivals, proofs>>

checkerVars == <<checking, unchecked, checked_txs, invalid_txs>>

vars == <<channels, cancelled, mempool, tables, waiting, checkerVars, attaching,
          crashes, late>>

Init ==
  /\ ChannelsInit
  /\ StorageInit
  /\ arrivals = <<>>
  /\ proofs = [t \in Txid |-> FALSE]
  /\ waiting = {}
  /\ checking = FALSE
  /\ unchecked = {}
  /\ checked_txs = {}
  /\ invalid_txs = {}
  /\ attaching = {}
  /\ crashes = 0
  /\ late = {}

Present(t) == l1[t] # NoRow

Stored(t) == Body[l1[t].tx]

Attached(t) == Present(t) /\ l1[t].status = "Attached"

Spendable(x) == ~IsAnnouncement(x)

-----------------------------------------------------------------------------
(* The storage.                                                            *)

(* insert_lrc20_transaction: the status starts again, the timestamp stays, *)
(* and the proof row is as new.                                            *)
Insert(x) ==
  LET t == TxidOf[x]
  IN  /\ l1' = Inserted({x})
      /\ arrivals' = IF Present(t) THEN arrivals ELSE Append(arrivals, t)
      /\ proofs' = IF Spendable(x) THEN [proofs EXCEPT ![t] = FALSE] ELSE proofs

(* The rows of other tables go with a row of l1_transaction.               *)
Cascade ==
  /\ arrivals' = SelectSeq(arrivals, LAMBDA t : l1'[t] # NoRow)
  /\ proofs' = [t \in Txid |-> l1'[t] # NoRow /\ proofs[t]]

(* toggle_proof_freeze: does nothing without a proof row.                  *)
toggle_proof_freeze(t) ==
  IF Present(t) /\ Spendable(l1[t].tx) THEN [proofs EXCEPT ![t] = ~proofs[t]]
  ELSE proofs

Rows(token, types) ==
  {t \in Txid : Present(t) /\ Stored(t).type \in types /\ Stored(t).token = token}

(* is_pubkey_frozen: every row counts, whatever became of the check.       *)
is_pubkey_frozen(key, token) ==
  Cardinality({t \in Rows(token, {"PubkeyFreeze"}) : Stored(t).target = key}) % 2 = 1

(* The new owner of the latest TransferOwnership row.                      *)
LatestOwner(token) ==
  LET handovers == SelectSeq(arrivals, LAMBDA t : t \in Rows(token, {"TransferOwnership"}))
  IN  IF handovers = <<>> THEN NoKey ELSE Stored(handovers[Len(handovers)]).target

TotalSupply(token) ==
  Min({MaxAmount, MapThenSumSet(LAMBDA t : Stored(t).amount,
                                Rows(token, {"Issue", "IssueAnnouncement"}))})

(* get_token_pubkey_info reads one of the attached announcements of the    *)
(* token, whichever the database returns.                                  *)
TokenInfos(token) ==
  LET announced == {t \in Rows(token, {"TokenPubkey"}) : Attached(t)}
  IN  IF announced = {} THEN {NoInfo}
      ELSE {[is_freezable |-> Stored(t).freezable,
             max_supply |-> Stored(t).amount,
             total_supply |-> TotalSupply(token),
             owner |-> LatestOwner(token)] : t \in announced}

-----------------------------------------------------------------------------
(* The checks, for what get_token_pubkey_info returned.                    *)

(* Without an owner on record the issuer is the owner.                     *)
find_owner_in_txinputs(x, info) ==
  LET owner == IF info = NoInfo THEN NoKey ELSE info.owner
  IN  (IF owner = NoKey THEN Issuer[Body[x].token] ELSE owner) \in Body[x].signers

(* Once there is an announcement no other is valid; max_supply is compared *)
(* with the supply only after that, which never happens.                   *)
check_token_pubkey_announcement(x, info) ==
  find_owner_in_txinputs(x, info) /\ info = NoInfo

(* Faulty: the token need not be announced.                                *)
check_token_logo_unannounced(x, info) == find_owner_in_txinputs(x, info)

check_token_logo_announcement(x, info) ==
  find_owner_in_txinputs(x, info) /\ info # NoInfo

Freezable(info) == info # NoInfo => info.is_freezable

check_freeze_announcement(x, info) ==
  Freezable(info) /\ find_owner_in_txinputs(x, info)

(* A transaction that the storage has is not looked at again.              *)
check_issue_announcement(x, info) ==
  \/ Present(TxidOf[x])
  \/ /\ find_owner_in_txinputs(x, info)
     /\ info # NoInfo /\ info.max_supply # 0
          => (info.total_supply + Body[x].amount) % (MaxAmount + 1) <= info.max_supply

(* The row of the announcement is there before its check, so the owner is  *)
(* the new owner already.                                                  *)
check_transfer_ownership_announcement(x, info) == find_owner_in_txinputs(x, info)

check_announcements(x, info) ==
  CASE Body[x].type = "TokenPubkey"       -> check_token_pubkey_announcement(x, info)
    [] Body[x].type = "TokenLogo"         -> check_token_logo_announcement(x, info)
    [] Body[x].type \in {"TxFreeze", "PubkeyFreeze"} -> check_freeze_announcement(x, info)
    [] Body[x].type = "IssueAnnouncement" -> check_issue_announcement(x, info)
    [] Body[x].type = "TransferOwnership" -> check_transfer_ownership_announcement(x, info)

is_output_frozen(t, info) == Freezable(info) /\ proofs[t]

(* The keys are those of the input proofs that the transfer brings.        *)
is_sender_frozen(x, info) ==
  Freezable(info) /\ \E key \in Body[x].spenders : is_pubkey_frozen(key, Body[x].token)

check_transfer(x, info) ==
  /\ \A t \in Body[x].spends : ~is_output_frozen(t, info)
  /\ ~is_sender_frozen(x, info)

-----------------------------------------------------------------------------
(* The services.                                                           *)

(* A transaction arrives and is stored (handle_new_lrc20_txs), passes the  *)
(* isolated check, and the confirmator finds it mined.                     *)
Arrive(x) ==
  LET t == TxidOf[x]
  IN  /\ IsNew(x)
      /\ Len(arrivals) < MaxStored
      /\ Insert(x)
      /\ mempool' = MempoolSet({t}, "Mined")
      /\ waiting' = waiting \cup {t}
      /\ late' = IF Body[x].type = "TxFreeze" /\ Attached(Body[x].target)
                 THEN late \cup {t} ELSE late
      /\ UNCHANGED <<channels, cancelled, checkerVars, attaching, crashes>>

(* The confirmator reports transactions in whatever batches.               *)
Confirm(S) ==
  /\ S # {}
  /\ waiting' = waiting \ S
  /\ toController' = Send(toController, ConfirmedTxs(S))
  /\ UNCHANGED <<toChecker, toGraph, toConfirm, toIndexer, cancelled, mempool,
                 tables, checkerVars, attaching, crashes, late>>

check_txs_full ==
  /\ ~checking /\ toChecker # <<>>
  /\ checking' = TRUE
  /\ unchecked' = Head(toChecker).txs
  /\ toChecker' = Tail(toChecker)
  /\ UNCHANGED <<toController, toGraph, toConfirm, toIndexer, cancelled, mempool,
                 tables, waiting, checked_txs, invalid_txs, attaching, crashes, late>>

Verdict(x, valid) ==
  /\ checked_txs' = IF valid THEN checked_txs \cup {x} ELSE checked_txs
  /\ invalid_txs' = IF valid THEN invalid_txs ELSE invalid_txs \cup {x}

check_issuance(x, info) ==
  LET valid == check_issue_announcement(x, info)
  IN  /\ Verdict(x, valid)
      /\ IF valid THEN Insert(x) ELSE UNCHANGED tables

(* Faulty: the freeze is toggled before the owner is looked for.           *)
CheckAnnouncementFreezesFirst(x, info) ==
  /\ Verdict(x, check_announcements(x, info))
  /\ proofs' = IF Body[x].type = "TxFreeze" THEN toggle_proof_freeze(Body[x].target)
               ELSE proofs
  /\ UNCHANGED <<l1, arrivals>>

(* A TxFreeze that passes takes effect at once.                            *)
CheckAnnouncement(x, info) ==
  LET valid == check_announcements(x, info)
  IN  /\ Verdict(x, valid)
      /\ proofs' = IF Body[x].type = "TxFreeze" /\ valid
                   THEN toggle_proof_freeze(Body[x].target) ELSE proofs
      /\ UNCHANGED <<l1, arrivals>>

check_lrc20_transaction(x, info) ==
  \/ Body[x].type = "Issue" /\ check_issuance(x, info)
  \/ IsAnnouncement(x) /\ CheckAnnouncement(x, info)
  \/ /\ Body[x].type = "Transfer"
     /\ Verdict(x, check_transfer(x, info))
     /\ UNCHANGED tables

(* Announcements come first in the batch.                                  *)
CheckNext(x) ==
  /\ checking
  /\ x \in unchecked
  /\ IsAnnouncement(x) \/ \A y \in unchecked : ~IsAnnouncement(y)
  /\ unchecked' = unchecked \ {x}
  /\ \E info \in TokenInfos(Body[x].token) : check_lrc20_transaction(x, info)
  /\ UNCHANGED <<channels, cancelled, mempool, waiting, checking, attaching,
                 crashes, late>>

FullCheckDone ==
  /\ checking
  /\ unchecked = {}
  /\ checking' = FALSE
  /\ toController' = SendUnlessEmpty(SendUnlessEmpty(toController,
                                                     FullyCheckedTxs(checked_txs)),
                                     InvalidTxs(Ids(invalid_txs)))
  /\ checked_txs' = {}
  /\ invalid_txs' = {}
  /\ UNCHANGED <<toChecker, toGraph, toConfirm, toIndexer, cancelled, mempool,
                 tables, waiting, unchecked, attaching, crashes, late>>

ControllerStep ==
  /\ ControllerEvent
  /\ Cascade
  /\ UNCHANGED <<cancelled, waiting, checkerVars, attaching, crashes, late>>

(* The graph builder takes what it is sent, and attaches a transaction     *)
(* when its parents are there.                                             *)
GraphTakes ==
  /\ toGraph # <<>>
  /\ attaching' = attaching \cup Ids(Head(toGraph).txs)
  /\ toGraph' = Tail(toGraph)
  /\ UNCHANGED <<toController, toChecker, toConfirm, toIndexer, cancelled, mempool,
                 tables, waiting, checkerVars, crashes, late>>

GraphAttaches(t) ==
  /\ t \in attaching
  /\ Present(t) => \A p \in Stored(t).spends : Present(p)
  /\ attaching' = attaching \ {t}
  /\ toController' = Send(toController, AttachedTxs({t}))
  /\ UNCHANGED <<toChecker, toGraph, toConfirm, toIndexer, cancelled, mempool,
                 tables, waiting, checkerVars, crashes, late>>

(* The process ends, and starts again with what is in the storage.         *)
Crash ==
  /\ crashes < MaxCrashes
  /\ crashes' = crashes + 1
  /\ toGraph' = SendUnlessEmpty(<<>>, CheckedTxs(StoredTxs({t \in Txid : mempool[t] = "Attaching"})))
  /\ waiting' = {t \in Txid : mempool[t] = "Mined"}
  /\ toController' = <<>> /\ toChecker' = <<>>
  /\ checking' = FALSE /\ unchecked' = {} /\ checked_txs' = {} /\ invalid_txs' = {}
  /\ attaching' = {}
  /\ UNCHANGED <<toConfirm, toIndexer, cancelled, mempool, tables, late>>

Next ==
  \/ \E x \in Tx : Arrive(x)
  \/ \E S \in SUBSET waiting : Confirm(S)
  \/ check_txs_full
  \/ \E x \in Tx : CheckNext(x)
  \/ FullCheckDone
  \/ ControllerStep
  \/ GraphTakes
  \/ \E t \in Txid : GraphAttaches(t)
  \/ Crash

Spec == Init /\ [][Next]_vars

-----------------------------------------------------------------------------
(* Properties.                                                             *)

(* The checker is between two batches and no verdict is on its way.        *)
Quiet == ~checking /\ toController = <<>>

(* The freezes of an output that the node has attached.                    *)
FreezesOf(o) ==
  {t \in Txid : Attached(t) /\ Stored(t).type = "TxFreeze" /\ Stored(t).target = o}

(* check_tx_freeze_announcement writes is_frozen of another transaction's  *)
(* proof during the check, the announcement itself is attached by the      *)
(* controller later, and the owner may change in between.  The two agree:  *)
(* an output with a proof whose freezes all came after it was attached is  *)
(* frozen when an odd number of them was accepted.                         *)
FrozenIsOddFreezes ==
  Quiet /\ crashes = 0 =>
    \A o \in Txid :
      Attached(o) /\ Spendable(l1[o].tx) /\ FreezesOf(o) \subseteq late =>
        (proofs[o] <=> Cardinality(FreezesOf(o)) % 2 = 1)

(* A logo is accepted for an announced token only, and the announcement    *)
(* stays, whatever arrives, is rejected or dropped at a restart later.     *)
LogoOnlyOfAnnounced ==
  \A t \in Txid :
    Attached(t) /\ Stored(t).type = "TokenLogo" =>
      \E a \in Rows(Stored(t).token, {"TokenPubkey"}) : Attached(a)

(* The terms of a token are its issuer's: until they are announced nobody  *)
(* else can own it, although rows that name an owner may be there.         *)
AnnouncedByIssuer ==
  \A t \in Txid :
    Attached(t) /\ Stored(t).type = "TokenPubkey" =>
      Issuer[Stored(t).token] \in Stored(t).signers

(* AnnouncedByIssuer and LogoOnlyOfAnnounced: what check_announcements     *)
(* lets through as the terms of a token.                                   *)
TermsOfIssuer == AnnouncedByIssuer /\ LogoOnlyOfAnnounced

=============================================================================
