---------------------------- MODULE TokenProofs -----------------------------
(***************************************************************************)
(* The terms of a token are its issuer's (TermsOfIssuer), and an output    *)
(* whose freezes came after it was attached is frozen when there is an odd *)
(* number of them (FrozenIsOddFreezes), for every set of transactions, in  *)
(* whatever order they arrive, are checked, attached and rejected.         *)
(*                                                                         *)
(* The verdict of a check is a fact about the tables at the time of the    *)
(* check.  It is still true when the controller acts on it, because the    *)
(* row of an attached announcement is never touched again: nothing but a   *)
(* mempool entry lets a row go, and an attached row has none.  This part,  *)
(* TokenInv, holds wherever the process ends.                              *)
(*                                                                         *)
(* The check of a freeze toggles the output, and the freeze is attached by *)
(* the controller later, so it must be checked exactly once.  Until a      *)
(* crash, Tracked has every id that is being handled in one place only,    *)
(* with its entry; ProofInv says which rows can be frozen, LateInv that a  *)
(* late freeze has found its output attached; and ParityInv equates the    *)
(* flag with the parity of the freezes that have passed the check.  It     *)
(* needs that an id names one transaction.                                 *)
(***************************************************************************)
EXTENDS TokenRules, FiniteSetTheorems, TLAPS

(* Unless a leaf names another prover, Zenon is the one that checks it.     *)
USE Zenon

(* The ids the graph builder may be given.                                 *)
SpendableIds == Ids({x \in Tx : Spendable(x)})

IsAnnounced(token) == \E a \in Rows(token, {"TokenPubkey"}) : Attached(a)

(* The transactions whose verdict stands in the present state.             *)
Acceptable ==
  {x \in Tx :
     /\ Body[x].type = "TokenPubkey" => Issuer[Body[x].token] \in Body[x].signers
     /\ Body[x].type = "TokenLogo" => IsAnnounced(Body[x].token)}

ControllerMsgs ==
  [type : {"ConfirmedTxs", "InvalidTxs"}, txs : SUBSET Txid]
    \cup [type : {"AttachedTxs"}, txs : SUBSET SpendableIds]
    \cup [type : {"FullyCheckedTxs"}, txs : SUBSET Acceptable]

GraphMsgs == [type : {"CheckedTxs"}, txs : SUBSET {x \in Tx : TxidOf[x] \in SpendableIds}]

RowsTyped ==
  /\ l1 \in [Txid -> L1Row \cup {NoRow}]
  /\ \A t \in Txid : Present(t) => TxidOf[l1[t].tx] = t

(* A mempool entry has a row, and that one is not attached yet.            *)
EntriesOpen ==
  /\ mempool \in [Txid -> MempoolStatus]
  /\ \A t \in Txid : /\ mempool[t] # "None" => Present(t) /\ ~Attached(t)
                     /\ mempool[t] = "Attaching" => t \in SpendableIds

(* Whatever is on its way carries a verdict that stands.                   *)
VerdictsStand ==
  /\ toController \in Seq(ControllerMsgs)
  /\ checked_txs \subseteq Acceptable

HandsTyped ==
  /\ toChecker \in Seq([type : {"FullCheck"}, txs : SUBSET Tx])
  /\ toGraph \in Seq(GraphMsgs)
  /\ waiting \subseteq Txid
  /\ unchecked \subseteq Tx
  /\ invalid_txs \subseteq Tx
  /\ attaching \subseteq SpendableIds

TokenInv ==
  RowsTyped /\ EntriesOpen /\ VerdictsStand /\ HandsTyped /\ TermsOfIssuer

-----------------------------------------------------------------------------

(* The types of announcement TermsOfIssuer is about.                       *)
Terms == {"TokenPubkey", "TokenLogo"}

LEMMA WiderSeq ==
  ASSUME NEW S, NEW T, S \subseteq T, NEW s \in Seq(S)
  PROVE  s \in Seq(T)
  BY SMT

LEMMA HeadTail ==
  ASSUME NEW S, NEW s \in Seq(S), s # <<>>
  PROVE  Head(s) \in S /\ Tail(s) \in Seq(S)
  BY SMT

LEMMA TermsOwnId ==
  ASSUME NEW x \in Tx, NEW y \in Tx, TxidOf[x] = TxidOf[y], Body[x].type \in Terms
  PROVE  x = y /\ ~Spendable(y)
<1>1. Kind[x] \notin {"Issue", "IssueAnnouncement"}
  BY TokenAssumption DEF Terms
<1>2. IsAnnouncement(x)
  BY TokenAssumption DEF Terms, Announcements
<1> QED
  BY <1>1, <1>2, IdAssumption DEF Spendable

LEMMA TermsNotSpendable ==
  ASSUME NEW x \in Tx, Body[x].type \in Terms
  PROVE  TxidOf[x] \notin SpendableIds
  BY TermsOwnId DEF SpendableIds, Ids

(* A step that leaves the attached announcements of tokens alone, and      *)
(* attaches only what has a verdict that stands, leaves every verdict      *)
(* standing.                                                               *)
LEMMA TermsStay ==
  ASSUME TokenInv, RowsTyped',
         \A t \in Txid : Attached(t) /\ Stored(t).type = "TokenPubkey" => l1'[t] = l1[t],
         \A t \in Txid : Attached(t)' /\ Body[l1'[t].tx].type \in Terms =>
                           (Attached(t) /\ l1'[t] = l1[t]) \/ l1'[t].tx \in Acceptable
  PROVE  TermsOfIssuer' /\ Acceptable \subseteq Acceptable'
<1>1. ASSUME NEW token, IsAnnounced(token)
      PROVE  IsAnnounced(token)'
  BY <1>1 DEF IsAnnounced, Rows, Attached, Present, Stored
<1>2. Acceptable \subseteq Acceptable'
  BY <1>1 DEF Acceptable
<1>3. AnnouncedByIssuer'
  BY DEF AnnouncedByIssuer, TokenInv, TermsOfIssuer, Acceptable, Stored, Terms
<1>4. LogoOnlyOfAnnounced'
  <2>1. ASSUME NEW t \in Txid, Attached(t)', Body[l1'[t].tx].type = "TokenLogo",
               NEW token, token = Body[l1'[t].tx].token
        PROVE  IsAnnounced(token)
    BY <2>1 DEF TokenInv, TermsOfIssuer, LogoOnlyOfAnnounced, IsAnnounced, Acceptable, Stored, Terms
  <2> QED
    BY <1>1, <2>1 DEF LogoOnlyOfAnnounced, IsAnnounced, Stored
<1> QED
  BY <1>2, <1>3, <1>4 DEF TermsOfIssuer

LEMMA TermsUnchanged ==
  ASSUME TokenInv, UNCHANGED l1
  PROVE  RowsTyped' /\ TermsOfIssuer' /\ Acceptable \subseteq Acceptable'
<1>1. RowsTyped'
  BY DEF TokenInv, RowsTyped, Present
<1> QED
  BY <1>1, TermsStay DEF Attached, Present, Stored

LEMMA MessagesStay ==
  ASSUME TokenInv, Acceptable \subseteq Acceptable', NEW ch \in Seq(ControllerMsgs)
  PROVE  ch \in Seq(ControllerMsgs')
<1>1. ControllerMsgs \subseteq ControllerMsgs'
  BY DEF ControllerMsgs
<1> QED
  BY <1>1, WiderSeq

(* insert_lrc20_transaction, of a new transaction or of an issuance.       *)
LEMMA Inserting ==
  ASSUME TokenInv, NEW x \in Tx, IsNew(x) \/ Body[x].type = "Issue", Insert(x)
  PROVE  /\ RowsTyped' /\ TermsOfIssuer' /\ Acceptable \subseteq Acceptable'
         /\ l1'[TxidOf[x]] = [tx |-> x, status |-> "Handling"]
         /\ \A t \in Txid : t # TxidOf[x] => l1'[t] = l1[t]
<1>1. /\ l1'[TxidOf[x]] = [tx |-> x, status |-> "Handling"]
      /\ \A t \in Txid : t # TxidOf[x] => l1'[t] = l1[t]
      /\ DOMAIN l1' = Txid /\ l1' = [t \in Txid |-> l1'[t]]
  BY TxAssumption DEF Insert, Inserted
<1>2. RowsTyped'
  BY SMT, <1>1, TxAssumption DEF TokenInv, RowsTyped, L1Row, L1TxStatus, Present
<1>3. ASSUME NEW t \in Txid, Attached(t), Stored(t).type = "TokenPubkey"
      PROVE  t # TxidOf[x]
  <2>1. l1[t].tx \in Tx /\ TxidOf[l1[t].tx] = t
    BY <1>3 DEF TokenInv, RowsTyped, Attached, Present, L1Row
  <2>2. Body[l1[t].tx].type \in Terms
    BY <1>3 DEF Stored, Terms
  <2>3. SUFFICES ASSUME t = TxidOf[x] PROVE FALSE
    OBVIOUS
  <2>4. x = l1[t].tx /\ ~Spendable(x)
    BY <2>1, <2>2, <2>3, TermsOwnId
  <2>5. Body[x].type # "Issue" /\ Kind[x] # "Issue"
    BY <1>3, <2>4, TokenAssumption DEF Stored
  <2> QED
    BY <1>3, <2>3, <2>5 DEF IsNew, Attached, Present
<1>4. ASSUME NEW t \in Txid, Attached(t)'
      PROVE  Attached(t) /\ l1'[t] = l1[t]
  BY SMT, <1>1, <1>4 DEF Attached, Present
<1> QED
  BY <1>1, <1>2, <1>3, <1>4, TermsStay

-----------------------------------------------------------------------------
(* The steps.                                                              *)

LEMMA ArriveStep ==
  ASSUME TokenInv, NEW x \in Tx, Arrive(x)
  PROVE  TokenInv'
<1>1. /\ RowsTyped' /\ TermsOfIssuer' /\ Acceptable \subseteq Acceptable'
      /\ l1'[TxidOf[x]] = [tx |-> x, status |-> "Handling"]
      /\ \A t \in Txid : t # TxidOf[x] => l1'[t] = l1[t]
  BY Inserting DEF Arrive
<1>2. TxidOf[x] \in Txid /\ [tx |-> x, status |-> "Handling"] # NoRow
  BY SMT, TxAssumption DEF L1Row, L1TxStatus
<1>3. EntriesOpen'
  BY SMT, <1>1, <1>2
  DEF TokenInv, EntriesOpen, Arrive, MempoolSet, MempoolStatus, Attached, Present
<1>4. VerdictsStand'
  BY <1>1, MessagesStay DEF TokenInv, VerdictsStand, Arrive, channels, checkerVars
<1>5. HandsTyped'
  BY <1>2 DEF TokenInv, HandsTyped, GraphMsgs, Arrive, channels, checkerVars
<1> QED
  BY <1>1, <1>3, <1>4, <1>5 DEF TokenInv

(* The steps that leave the storage alone.                                 *)
LEMMA StorageStays ==
  ASSUME TokenInv, UNCHANGED <<l1, mempool>>
  PROVE  RowsTyped' /\ EntriesOpen' /\ TermsOfIssuer' /\ Acceptable = Acceptable'
<1>1. RowsTyped' /\ TermsOfIssuer'
  BY TermsUnchanged
<1>2. EntriesOpen'
  BY DEF TokenInv, EntriesOpen, Attached, Present
<1>3. Acceptable = Acceptable'
  BY DEF Acceptable, IsAnnounced, Rows, Attached, Present, Stored
<1> QED
  BY <1>1, <1>2, <1>3

LEMMA ConfirmStep ==
  ASSUME TokenInv, NEW S \in SUBSET waiting, Confirm(S)
  PROVE  TokenInv'
<1>1. /\ RowsTyped' /\ EntriesOpen' /\ TermsOfIssuer' /\ Acceptable = Acceptable'
      /\ ControllerMsgs' = ControllerMsgs
  BY StorageStays DEF Confirm, tables, ControllerMsgs
<1>2. ConfirmedTxs(S) \in ControllerMsgs
  BY DEF TokenInv, HandsTyped, ConfirmedTxs, ControllerMsgs
<1>3. toController' \in Seq(ControllerMsgs) /\ checked_txs' \subseteq Acceptable
  BY SMT, <1>2 DEF TokenInv, VerdictsStand, Confirm, checkerVars, Send
<1>4. HandsTyped'
  BY DEF TokenInv, HandsTyped, GraphMsgs, Confirm, checkerVars
<1> QED
  BY <1>1, <1>3, <1>4 DEF TokenInv, VerdictsStand

LEMMA check_txs_fullStep ==
  ASSUME TokenInv, check_txs_full
  PROVE  TokenInv'
<1>1. /\ RowsTyped' /\ EntriesOpen' /\ TermsOfIssuer' /\ Acceptable = Acceptable'
      /\ ControllerMsgs' = ControllerMsgs
  BY StorageStays DEF check_txs_full, tables, ControllerMsgs
<1>2. toController' \in Seq(ControllerMsgs) /\ checked_txs' \subseteq Acceptable
  BY DEF TokenInv, VerdictsStand, check_txs_full
<1>3. /\ Head(toChecker) \in [type : {"FullCheck"}, txs : SUBSET Tx]
      /\ Tail(toChecker) \in Seq([type : {"FullCheck"}, txs : SUBSET Tx])
  BY HeadTail DEF TokenInv, HandsTyped, check_txs_full
<1>4. HandsTyped'
  BY <1>3 DEF TokenInv, HandsTyped, GraphMsgs, check_txs_full
<1> QED
  BY <1>1, <1>2, <1>4 DEF TokenInv, VerdictsStand

(* What check_announcements lets through is Acceptable.                    *)
LEMMA PassedIsAcceptable ==
  ASSUME NEW x \in Tx, IsAnnouncement(x), NEW info \in TokenInfos(Body[x].token),
         check_announcements(x, info)
  PROVE  x \in Acceptable
<1>1. ASSUME Body[x].type = "TokenPubkey"
      PROVE  Issuer[Body[x].token] \in Body[x].signers
  BY <1>1 DEF check_announcements, check_token_pubkey_announcement, find_owner_in_txinputs
<1>2. ASSUME Body[x].type = "TokenLogo"
      PROVE  IsAnnounced(Body[x].token)
  BY <1>2 DEF check_announcements, check_token_logo_announcement, TokenInfos, IsAnnounced
<1> QED
  BY <1>1, <1>2 DEF Acceptable

LEMMA CheckNextStep ==
  ASSUME TokenInv, NEW x \in Tx, CheckNext(x)
  PROVE  TokenInv'
<1>1. PICK info \in TokenInfos(Body[x].token) : check_lrc20_transaction(x, info)
  BY DEF CheckNext
<1>2. ASSUME Acceptable \subseteq Acceptable', NEW valid \in BOOLEAN, Verdict(x, valid),
             valid => x \in Acceptable
      PROVE  VerdictsStand' /\ HandsTyped'
  <2>1. VerdictsStand'
    BY <1>2, MessagesStay DEF TokenInv, VerdictsStand, Verdict, CheckNext, channels
  <2>2. HandsTyped'
    BY <1>2 DEF TokenInv, HandsTyped, GraphMsgs, Verdict, CheckNext, channels
  <2> QED
    BY <2>1, <2>2
<1>3. CASE Body[x].type = "Issue" /\ check_issuance(x, info)
  <2>1. x \in Acceptable
    BY <1>3 DEF Acceptable
  <2>2. CASE check_issue_announcement(x, info)
    <3>1. Insert(x) /\ Verdict(x, TRUE)
      BY <1>3, <2>2 DEF check_issuance, Verdict
    <3>2. /\ RowsTyped' /\ TermsOfIssuer' /\ Acceptable \subseteq Acceptable'
          /\ l1'[TxidOf[x]] = [tx |-> x, status |-> "Handling"]
          /\ \A t \in Txid : t # TxidOf[x] => l1'[t] = l1[t]
      BY <1>3, <3>1, Inserting
    <3>3. EntriesOpen'
      BY SMT, <3>2, TxAssumption
      DEF TokenInv, EntriesOpen, CheckNext, Attached, Present, L1Row, L1TxStatus
    <3> QED
      BY <1>2, <2>1, <3>1, <3>2, <3>3 DEF TokenInv
  <2>3. CASE ~check_issue_announcement(x, info)
    <3>1. UNCHANGED <<l1, mempool>> /\ Verdict(x, FALSE)
      BY <1>3, <2>3 DEF check_issuance, tables, CheckNext, Verdict
    <3> QED
      BY <1>2, <3>1, StorageStays DEF TokenInv
  <2> QED
    BY <2>2, <2>3
<1>4. CASE IsAnnouncement(x) /\ CheckAnnouncement(x, info)
  <2>1. UNCHANGED <<l1, mempool>>
    BY <1>4 DEF CheckAnnouncement, CheckNext
  <2>2. CASE check_announcements(x, info)
    <3>1. Verdict(x, TRUE)
      BY <1>4, <2>2 DEF CheckAnnouncement, Verdict
    <3> QED
      BY <1>2, <1>4, <2>1, <2>2, <3>1, PassedIsAcceptable, StorageStays DEF TokenInv
  <2>3. CASE ~check_announcements(x, info)
    <3>1. Verdict(x, FALSE)
      BY <1>4, <2>3 DEF CheckAnnouncement, Verdict
    <3> QED
      BY <1>2, <2>1, <3>1, StorageStays DEF TokenInv
  <2> QED
    BY <2>2, <2>3
<1>5. CASE Body[x].type = "Transfer" /\ Verdict(x, check_transfer(x, info)) /\ UNCHANGED tables
  <2>1. UNCHANGED <<l1, mempool>> /\ x \in Acceptable
    BY <1>5 DEF tables, CheckNext, Acceptable
  <2>2. Verdict(x, TRUE) \/ Verdict(x, FALSE)
    BY <1>5 DEF Verdict
  <2> QED
    BY <1>2, <2>1, <2>2, StorageStays DEF TokenInv
<1> QED
  BY <1>1, <1>3, <1>4, <1>5 DEF check_lrc20_transaction

LEMMA FullCheckDoneStep ==
  ASSUME TokenInv, FullCheckDone
  PROVE  TokenInv'
<1>1. /\ RowsTyped' /\ EntriesOpen' /\ TermsOfIssuer' /\ Acceptable = Acceptable'
      /\ ControllerMsgs' = ControllerMsgs
  BY StorageStays DEF FullCheckDone, tables, ControllerMsgs
<1>2. Ids(invalid_txs) \subseteq Txid
  BY TxAssumption DEF TokenInv, HandsTyped, Ids
<1>3. FullyCheckedTxs(checked_txs) \in ControllerMsgs /\ InvalidTxs(Ids(invalid_txs)) \in ControllerMsgs
  BY <1>2 DEF TokenInv, VerdictsStand, FullyCheckedTxs, InvalidTxs, ControllerMsgs
<1>4. toController' \in Seq(ControllerMsgs) /\ checked_txs' \subseteq Acceptable
  BY SMT, <1>3 DEF TokenInv, VerdictsStand, FullCheckDone, SendUnlessEmpty, Send
<1>5. HandsTyped'
  BY DEF TokenInv, HandsTyped, GraphMsgs, FullCheckDone
<1> QED
  BY <1>1, <1>4, <1>5 DEF TokenInv, VerdictsStand

LEMMA GraphTakesStep ==
  ASSUME TokenInv, GraphTakes
  PROVE  TokenInv'
<1>1. /\ RowsTyped' /\ EntriesOpen' /\ TermsOfIssuer' /\ Acceptable = Acceptable'
      /\ ControllerMsgs' = ControllerMsgs
  BY StorageStays DEF GraphTakes, tables, ControllerMsgs
<1>2. Ids(Head(toGraph).txs) \subseteq SpendableIds /\ Tail(toGraph) \in Seq(GraphMsgs)
  <2>1. Head(toGraph) \in GraphMsgs /\ Tail(toGraph) \in Seq(GraphMsgs)
    BY HeadTail DEF TokenInv, HandsTyped, GraphTakes
  <2> QED
    BY <2>1 DEF GraphMsgs, Ids
<1>3. toController' \in Seq(ControllerMsgs) /\ checked_txs' \subseteq Acceptable
  BY DEF TokenInv, VerdictsStand, GraphTakes, checkerVars
<1>4. HandsTyped'
  BY <1>2 DEF TokenInv, HandsTyped, GraphMsgs, GraphTakes, checkerVars
<1> QED
  BY <1>1, <1>3, <1>4 DEF TokenInv, VerdictsStand

LEMMA GraphAttachesStep ==
  ASSUME TokenInv, NEW t \in Txid, GraphAttaches(t)
  PROVE  TokenInv'
<1>1. /\ RowsTyped' /\ EntriesOpen' /\ TermsOfIssuer' /\ Acceptable = Acceptable'
      /\ ControllerMsgs' = ControllerMsgs
  BY StorageStays DEF GraphAttaches, tables, ControllerMsgs
<1>2. AttachedTxs({t}) \in ControllerMsgs
  BY DEF TokenInv, HandsTyped, GraphAttaches, AttachedTxs, ControllerMsgs
<1>3. toController' \in Seq(ControllerMsgs) /\ checked_txs' \subseteq Acceptable
  BY SMT, <1>2 DEF TokenInv, VerdictsStand, GraphAttaches, checkerVars, Send
<1>4. HandsTyped'
  BY DEF TokenInv, HandsTyped, GraphMsgs, GraphAttaches, checkerVars
<1> QED
  BY <1>1, <1>3, <1>4 DEF TokenInv, VerdictsStand

LEMMA CrashStep ==
  ASSUME TokenInv, Crash
  PROVE  TokenInv'
<1>1. /\ RowsTyped' /\ EntriesOpen' /\ TermsOfIssuer' /\ Acceptable = Acceptable'
  BY StorageStays DEF Crash, tables
<1>2. VerdictsStand'
  BY SMT DEF VerdictsStand, Crash
<1>3. ASSUME NEW t \in Txid, mempool[t] = "Attaching"
      PROVE  l1[t].tx \in Tx /\ TxidOf[l1[t].tx] \in SpendableIds
  BY <1>3 DEF TokenInv, EntriesOpen, RowsTyped, Present, L1Row
<1>4. CheckedTxs(StoredTxs({t \in Txid : mempool[t] = "Attaching"})) \in GraphMsgs
  BY <1>3 DEF GraphMsgs, CheckedTxs, StoredTxs
<1>5. toGraph' \in Seq(GraphMsgs)
  BY SMT, <1>4 DEF Crash, SendUnlessEmpty, Send
<1>6. HandsTyped'
  BY SMT, <1>5 DEF HandsTyped, GraphMsgs, Crash
<1> QED
  BY <1>1, <1>2, <1>6 DEF TokenInv

-----------------------------------------------------------------------------
(* The controller.  An attached announcement of a token has no entry, so   *)
(* handle_invalid_txs does not reach it.                                   *)

LEMMA InvalidStep ==
  ASSUME TokenInv, NEW S \in SUBSET Txid, handle_invalid_txs(S, Entries(S))
  PROVE  RowsTyped' /\ EntriesOpen' /\ TermsOfIssuer' /\ Acceptable \subseteq Acceptable'
<1>1. ASSUME NEW t \in Txid
      PROVE  \/ l1'[t] = l1[t]
             \/ t \in Entries(S) /\ Present(t) /\ l1'[t] = [l1[t] EXCEPT !.status = "InvalidIssue"]
             \/ t \in Entries(S) /\ l1'[t] = NoRow
  BY DEF handle_invalid_txs, Entries, TokenInv, EntriesOpen
<1>2. DOMAIN l1' = Txid /\ l1' = [t \in Txid |-> l1'[t]]
  BY DEF handle_invalid_txs
<1>3. ASSUME NEW t \in Txid, Present(t)
      PROVE  /\ [l1[t] EXCEPT !.status = "InvalidIssue"] \in L1Row
             /\ [l1[t] EXCEPT !.status = "InvalidIssue"].tx = l1[t].tx
             /\ [l1[t] EXCEPT !.status = "InvalidIssue"].status = "InvalidIssue"
  BY <1>3 DEF TokenInv, RowsTyped, Present, L1Row, L1TxStatus
<1>4. RowsTyped'
  <2>1. ASSUME NEW t \in Txid
        PROVE  /\ l1'[t] \in L1Row \cup {NoRow}
               /\ l1'[t] # NoRow => TxidOf[l1'[t].tx] = t
    BY <1>1, <1>3 DEF TokenInv, RowsTyped, Present
  <2> QED
    BY <1>2, <2>1 DEF RowsTyped, Present
<1>5. ASSUME NEW t \in Txid, Attached(t)
      PROVE  l1'[t] = l1[t]
  BY <1>1, <1>5 DEF TokenInv, EntriesOpen, Entries
<1>6. ASSUME NEW t \in Txid, Attached(t)'
      PROVE  Attached(t) /\ l1'[t] = l1[t]
  BY <1>1, <1>3, <1>6 DEF Attached, Present
<1>7. EntriesOpen'
  <2>1. ASSUME NEW t \in Txid
        PROVE  /\ mempool'[t] \in MempoolStatus
               /\ mempool'[t] # "None" => t \notin S /\ mempool'[t] = mempool[t]
    BY DEF handle_invalid_txs, MempoolDelete, MempoolSet, MempoolStatus, TokenInv, EntriesOpen
  <2>2. mempool' \in [Txid -> MempoolStatus]
    BY <2>1 DEF handle_invalid_txs, MempoolDelete, MempoolSet
  <2>3. ASSUME NEW t \in Txid, t \notin S
        PROVE  l1'[t] = l1[t]
    BY <1>1, <2>3 DEF Entries
  <2> QED
    BY <2>1, <2>2, <2>3 DEF TokenInv, EntriesOpen, Attached, Present
<1> QED
  BY <1>4, <1>5, <1>6, <1>7, TermsStay

(* set_lrc20_tx_status to Attached, for ids whose entry goes.              *)
LEMMA AttachStep ==
  ASSUME TokenInv, NEW S, l1' = WithStatus(S, "Attached"),
         \A t \in Txid \cap S : Present(t) /\ Body[l1[t].tx].type \in Terms
                                  => l1[t].tx \in Acceptable
  PROVE  /\ RowsTyped' /\ TermsOfIssuer' /\ Acceptable \subseteq Acceptable'
         /\ \A t \in Txid : t \notin S => l1'[t] = l1[t]
<1>1. ASSUME NEW t \in Txid
      PROVE  \/ l1'[t] = l1[t] /\ (t \notin S \/ ~Present(t))
             \/ t \in S /\ Present(t) /\ l1'[t] = [l1[t] EXCEPT !.status = "Attached"]
  BY DEF WithStatus, Present
<1>2. DOMAIN l1' = Txid /\ l1' = [t \in Txid |-> l1'[t]]
  BY DEF WithStatus
<1>3. ASSUME NEW t \in Txid, Present(t)
      PROVE  /\ [l1[t] EXCEPT !.status = "Attached"] \in L1Row
             /\ [l1[t] EXCEPT !.status = "Attached"].tx = l1[t].tx
             /\ Attached(t) => [l1[t] EXCEPT !.status = "Attached"] = l1[t]
  BY <1>3 DEF TokenInv, RowsTyped, Present, L1Row, L1TxStatus, Attached
<1>4. RowsTyped'
  <2>1. ASSUME NEW t \in Txid
        PROVE  /\ l1'[t] \in L1Row \cup {NoRow}
               /\ l1'[t] # NoRow => TxidOf[l1'[t].tx] = t
    <3>1. CASE l1'[t] = l1[t]
      BY <3>1 DEF TokenInv, RowsTyped, Present
    <3>2. CASE Present(t) /\ l1'[t] = [l1[t] EXCEPT !.status = "Attached"]
      BY <1>3, <3>2 DEF TokenInv, RowsTyped
    <3> QED
      BY <1>1, <3>1, <3>2
  <2> QED
    BY <1>2, <2>1 DEF RowsTyped, Present
<1>5. ASSUME NEW t \in Txid, Attached(t)
      PROVE  l1'[t] = l1[t]
  BY <1>1, <1>3, <1>5 DEF Attached
<1>6. ASSUME NEW t \in Txid, Attached(t)', Body[l1'[t].tx].type \in Terms
      PROVE  (Attached(t) /\ l1'[t] = l1[t]) \/ l1'[t].tx \in Acceptable
  BY <1>1, <1>3, <1>6 DEF Attached, Present
<1> QED
  BY <1>1, <1>4, <1>5, <1>6, TermsStay

LEMMA FullyCheckedStep ==
  ASSUME TokenInv, NEW X \in SUBSET Acceptable, handle_fully_checked_txs(X)
  PROVE  /\ RowsTyped' /\ EntriesOpen' /\ TermsOfIssuer' /\ Acceptable \subseteq Acceptable'
         /\ toGraph' \in Seq(GraphMsgs)
<1> DEFINE announcements == {x \in X : IsAnnouncement(x)}
           others == X \ announcements
<1>1. X \subseteq Tx /\ Ids(others) \subseteq SpendableIds /\ Ids(others) \subseteq Txid
  BY TxAssumption DEF Acceptable, SpendableIds, Ids, Spendable
<1>2. CASE MissingEntry(Ids(others), "Attaching") /\ UNCHANGED toGraph
  <2>1. RowsTyped' /\ TermsOfIssuer' /\ Acceptable \subseteq Acceptable'
    BY <1>2, TermsUnchanged DEF MissingEntry
  <2>2. PICK done \in SUBSET Entries(Ids(others)) : mempool' = MempoolSet(done, "Attaching")
    BY <1>2 DEF MissingEntry
  <2>3. EntriesOpen'
    BY <1>1, <1>2, <2>2
    DEF MissingEntry, MempoolSet, Entries, TokenInv, EntriesOpen, MempoolStatus, Attached, Present
  <2> QED
    BY <1>2, <2>1, <2>3 DEF TokenInv, HandsTyped
<1>3. CASE /\ Entries(Ids(others)) = Ids(others)
           /\ mempool' =
                [t \in Txid |-> IF t \in Ids(announcements) THEN "None"
                                ELSE IF t \in Ids(others) THEN "Attaching"
                                ELSE mempool[t]]
           /\ l1' = WithStatus(Ids(announcements), "Attached")
           /\ toGraph' = SendUnlessEmpty(toGraph, CheckedTxs(others))
  <2>1. ASSUME NEW t \in Txid, t \in Ids(announcements), Present(t),
               Body[l1[t].tx].type \in Terms
        PROVE  l1[t].tx \in Acceptable
    <3>1. PICK x \in announcements : TxidOf[x] = t
      BY <2>1 DEF Ids
    <3>2. l1[t].tx \in Tx /\ TxidOf[l1[t].tx] = t
      BY <2>1 DEF TokenInv, RowsTyped, Present, L1Row
    <3> QED
      BY <1>1, <2>1, <3>1, <3>2, TermsOwnId
  <2>2. /\ RowsTyped' /\ TermsOfIssuer' /\ Acceptable \subseteq Acceptable'
        /\ \A t \in Txid : t \notin Ids(announcements) => l1'[t] = l1[t]
    BY <1>3, <2>1, AttachStep
  <2>3. EntriesOpen'
    <3>1. ASSUME NEW t \in Txid
          PROVE  /\ mempool'[t] \in MempoolStatus
                 /\ mempool'[t] # "None" =>
                      /\ t \notin Ids(announcements) /\ mempool[t] # "None"
                      /\ mempool'[t] = mempool[t] \/ t \in Ids(others)
      BY <1>3 DEF Entries, TokenInv, EntriesOpen, MempoolStatus
    <3>2. mempool' \in [Txid -> MempoolStatus]
      BY <1>3, <3>1
    <3> QED
      BY <1>1, <2>2, <3>1, <3>2 DEF TokenInv, EntriesOpen, Attached, Present
  <2>4. CheckedTxs(others) \in GraphMsgs
    <3>1. \A x \in others : x \in Tx /\ TxidOf[x] \in SpendableIds
      BY <1>1 DEF Ids
    <3> QED
      BY <3>1 DEF CheckedTxs, GraphMsgs
  <2>5. toGraph' \in Seq(GraphMsgs)
    BY SMT, <1>3, <2>4 DEF SendUnlessEmpty, Send, TokenInv, HandsTyped
  <2> QED
    BY <2>2, <2>3, <2>5
<1> QED
  BY <1>2, <1>3 DEF handle_fully_checked_txs

LEMMA AttachedStep ==
  ASSUME TokenInv, NEW S \in SUBSET SpendableIds, handle_attached_txs(S)
  PROVE  RowsTyped' /\ EntriesOpen' /\ TermsOfIssuer' /\ Acceptable \subseteq Acceptable'
<1>1. ASSUME NEW t \in Txid, t \in S, Present(t), Body[l1[t].tx].type \in Terms
      PROVE  FALSE
  BY <1>1, TermsNotSpendable DEF TokenInv, RowsTyped, Present, L1Row
<1>2. /\ RowsTyped' /\ TermsOfIssuer' /\ Acceptable \subseteq Acceptable'
      /\ \A t \in Txid : t \notin S => l1'[t] = l1[t]
  BY <1>1, AttachStep DEF handle_attached_txs
<1>3. EntriesOpen'
  BY <1>2 DEF handle_attached_txs, MempoolDelete, MempoolSet, TokenInv, EntriesOpen,
              MempoolStatus, Attached, Present
<1> QED
  BY <1>2, <1>3

LEMMA ControllerStepStep ==
  ASSUME TokenInv, ControllerStep
  PROVE  TokenInv'
<1> DEFINE m == Head(toController)
<1>1. m \in ControllerMsgs /\ toController' \in Seq(ControllerMsgs)
  BY HeadTail DEF TokenInv, VerdictsStand, ControllerStep, ControllerEvent
<1>2. SUFFICES /\ RowsTyped' /\ EntriesOpen' /\ TermsOfIssuer'
               /\ Acceptable \subseteq Acceptable'
               /\ toGraph' \in Seq(GraphMsgs)
               /\ toChecker' \in Seq([type : {"FullCheck"}, txs : SUBSET Tx])
  <2>1. VerdictsStand'
    BY <1>1, <1>2, MessagesStay DEF TokenInv, VerdictsStand, ControllerStep, checkerVars
  <2>2. HandsTyped'
    BY <1>2 DEF TokenInv, HandsTyped, GraphMsgs, ControllerStep, checkerVars
  <2> QED
    BY <1>2, <2>1, <2>2 DEF TokenInv
<1>3. CASE m.type = "ConfirmedTxs"
  <2>1. handle_confirmed_txs(m.txs) /\ m.txs \subseteq Txid
    BY <1>1, <1>3 DEF ControllerStep, ControllerEvent, ControllerMsgs
  <2>2. FullCheck(StoredTxs(Entries(m.txs))) \in [type : {"FullCheck"}, txs : SUBSET Tx]
    <3>1. ASSUME NEW t \in Entries(m.txs) PROVE l1[t].tx \in Tx
      BY <2>1 DEF Entries, TokenInv, EntriesOpen, RowsTyped, Present, L1Row
    <3> QED
      BY <3>1 DEF FullCheck, StoredTxs
  <2>3. /\ toChecker' \in Seq([type : {"FullCheck"}, txs : SUBSET Tx])
        /\ toGraph' \in Seq(GraphMsgs)
    BY SMT, <2>1, <2>2 DEF handle_confirmed_txs, Send, TokenInv, HandsTyped
  <2> QED
    BY <2>1, <2>3, StorageStays DEF handle_confirmed_txs
<1>4. CASE m.type = "InvalidTxs"
  <2>1. handle_invalid_txs(m.txs, Entries(m.txs)) /\ m.txs \subseteq Txid
    BY <1>1, <1>4 DEF ControllerStep, ControllerEvent, ControllerMsgs
  <2> QED
    BY <2>1, InvalidStep DEF handle_invalid_txs, TokenInv, HandsTyped
<1>5. CASE m.type = "AttachedTxs"
  <2>1. handle_attached_txs(m.txs) /\ m.txs \subseteq SpendableIds
    BY <1>1, <1>5 DEF ControllerStep, ControllerEvent, ControllerMsgs
  <2> QED
    BY <2>1, AttachedStep DEF handle_attached_txs, TokenInv, HandsTyped
<1>6. CASE m.type = "FullyCheckedTxs"
  <2>1. handle_fully_checked_txs(m.txs) /\ m.txs \subseteq Acceptable
    BY <1>1, <1>6 DEF ControllerStep, ControllerEvent, ControllerMsgs
  <2>2. UNCHANGED toChecker
    BY <2>1 DEF handle_fully_checked_txs
  <2> QED
    BY <2>1, <2>2, FullyCheckedStep DEF TokenInv, HandsTyped
<1> QED
  BY <1>1, <1>3, <1>4, <1>5, <1>6 DEF ControllerMsgs

-----------------------------------------------------------------------------

LEMMA TokenInvInit ==
  ASSUME Init
  PROVE  TokenInv
<1>1. RowsTyped /\ \A t \in Txid : ~Present(t)
  BY DEF Init, StorageInit, RowsTyped, Present
<1>2. EntriesOpen
  BY DEF Init, StorageInit, EntriesOpen, MempoolStatus
<1>3. VerdictsStand /\ HandsTyped
  BY SMT DEF Init, ChannelsInit, VerdictsStand, HandsTyped
<1>4. TermsOfIssuer
  BY <1>1 DEF TermsOfIssuer, AnnouncedByIssuer, LogoOnlyOfAnnounced, Attached
<1> QED
  BY <1>1, <1>2, <1>3, <1>4 DEF TokenInv

LEMMA TokenInvNext ==
  ASSUME TokenInv, [Next]_vars
  PROVE  TokenInv'
<1>1. CASE UNCHANGED vars
  <2>1. UNCHANGED <<l1, mempool, toController, toChecker, toGraph, waiting, unchecked,
                    checked_txs, invalid_txs, attaching>>
    BY <1>1 DEF vars, tables, channels, checkerVars
  <2>2. /\ RowsTyped' /\ EntriesOpen' /\ TermsOfIssuer' /\ Acceptable = Acceptable'
        /\ ControllerMsgs' = ControllerMsgs
    BY <2>1, StorageStays DEF ControllerMsgs
  <2>3. toController' \in Seq(ControllerMsgs) /\ checked_txs' \subseteq Acceptable
    BY <2>1 DEF TokenInv, VerdictsStand
  <2>4. HandsTyped'
    BY <2>1 DEF TokenInv, HandsTyped, GraphMsgs
  <2> QED
    BY <2>2, <2>3, <2>4 DEF TokenInv, VerdictsStand
<1> QED
  BY <1>1, ArriveStep, ConfirmStep, check_txs_fullStep, CheckNextStep, FullCheckDoneStep,
     ControllerStepStep, GraphTakesStep, GraphAttachesStep, CrashStep DEF Next

(* An accepted announcement of a token is signed by the key the token is   *)
(* named by, and a logo belongs to an announced token: check_announcements *)
(* decides it and handle_fully_checked_txs acts on it several steps later, *)
(* after whatever has been stored, rejected or dropped in between.         *)
THEOREM TermsAlwaysOfIssuer == Spec => []TermsOfIssuer
<1>1. TokenInv => TermsOfIssuer
  BY DEF TokenInv
<1> QED
  BY <1>1, TokenInvInit, TokenInvNext, PTL DEF Spec

-----------------------------------------------------------------------------
(* An output is frozen by an odd number of freezes.  Until the process     *)
(* ends, a transaction that has an entry is in one place, so it is checked *)
(* once, and a freeze that has taken effect is attached in the end.        *)

(* Different transactions have different ids.                              *)
OneTxPerId == \A x, y \in Tx : TxidOf[x] = TxidOf[y] => x = y

(* The message has t.                                                      *)
Names(m, t) ==
  \/ m.type \in {"ConfirmedTxs", "InvalidTxs", "AttachedTxs"} /\ t \in m.txs
  \/ m.type \in {"FullyCheckedTxs", "FullCheck", "CheckedTxs"} /\ t \in Ids(m.txs)

On(ch, t) == \E i \in 1..Len(ch) : Names(ch[i], t)

Once(ch, t) == \A i, j \in 1..Len(ch) : Names(ch[i], t) /\ Names(ch[j], t) => i = j

Places ==
  {"waiting", "toController", "toChecker", "toGraph", "unchecked", "checked", "invalid",
   "attaching"}

At(p, t) ==
  CASE p = "waiting"      -> t \in waiting
    [] p = "toController" -> On(toController, t)
    [] p = "toChecker"    -> On(toChecker, t)
    [] p = "toGraph"      -> On(toGraph, t)
    [] p = "unchecked"    -> t \in Ids(unchecked)
    [] p = "checked"      -> t \in Ids(checked_txs)
    [] p = "invalid"      -> t \in Ids(invalid_txs)
    [] p = "attaching"    -> t \in attaching

(* t is in one place only, and nowhere without an entry.                   *)
TrackedTx(t) ==
  /\ Once(toController, t) /\ Once(toChecker, t) /\ Once(toGraph, t)
  /\ \A p, q \in Places : At(p, t) /\ At(q, t) => p = q
  /\ \A p \in Places : At(p, t) => mempool[t] # "None"

Tracked == \A t \in Txid : TrackedTx(t)

BatchInv == ~checking => unchecked = {} /\ checked_txs = {} /\ invalid_txs = {}

(* An entry belongs to a row that is not yet invalid, a frozen output to a *)
(* row with a proof.                                                       *)
ProofInv ==
  /\ proofs \in [Txid -> BOOLEAN]
  /\ \A t \in Txid : /\ mempool[t] # "None" => l1[t].status # "InvalidIssue"
                     /\ proofs[t] => Present(t) /\ Spendable(l1[t].tx)

Freezes(x, o) == Body[x].type = "TxFreeze" /\ Body[x].target = o

LateInv == \A x \in Tx, o \in Txid : Freezes(x, o) /\ TxidOf[x] \in late => Attached(o)

(* The full check has let x through, and x is not lost since.              *)
Says(m, x) == m.type = "FullyCheckedTxs" /\ x \in m.txs

Said(ch, x) == \E i \in 1..Len(ch) : Says(ch[i], x)

Passed(x) == x \in checked_txs \/ Said(toController, x) \/ Attached(TxidOf[x])

(* The freezes of o that have taken effect.                                *)
Applied(o) == {t \in Txid : \E x \in Tx : TxidOf[x] = t /\ Freezes(x, o) /\ Passed(x)}

Odd(S) == Cardinality(S) % 2 = 1

ParityTx(o) ==
  Applied(o) \subseteq late /\ (Attached(o) => Spendable(l1[o].tx)) =>
    IsFiniteSet(Applied(o)) /\ (proofs[o] <=> Odd(Applied(o)))

ParityInv == \A o \in Txid : ParityTx(o)

OddInv == Tracked /\ BatchInv /\ ProofInv /\ LateInv /\ ParityInv

FreezeInv == crashes \in Nat /\ (crashes = 0 => OddInv)

-----------------------------------------------------------------------------
(* Channels, as one transaction sees them.                                 *)

LEMMA Appended ==
  ASSUME NEW M, NEW ch \in Seq(M), NEW m \in M
  PROVE  /\ Len(ch) + 1 \in 1..Len(Append(ch, m)) /\ Append(ch, m)[Len(ch) + 1] = m
         /\ \A i \in 1..Len(ch) : i \in 1..Len(Append(ch, m)) /\ Append(ch, m)[i] = ch[i]
         /\ \A i \in 1..Len(Append(ch, m)) : i \in 1..Len(ch) \/ i = Len(ch) + 1
BY SMT

LEMMA Rest ==
  ASSUME NEW M, NEW ch \in Seq(M), ch # <<>>
  PROVE  /\ 1 \in 1..Len(ch) /\ Head(ch) = ch[1]
         /\ \A i \in 1..Len(Tail(ch)) :
              i + 1 \in 1..Len(ch) /\ i + 1 # 1 /\ Tail(ch)[i] = ch[i + 1]
         /\ \A i \in 1..Len(ch) : i = 1 \/ \E j \in 1..Len(Tail(ch)) : Tail(ch)[j] = ch[i]
         /\ \A i, j \in 1..Len(Tail(ch)) : i + 1 = j + 1 => i = j
<1>1. \A i \in 1..Len(ch) : i # 1 => i - 1 \in 1..Len(Tail(ch)) /\ Tail(ch)[i - 1] = ch[i]
  BY SMT
<1>2. \A i \in 1..Len(ch) : i = 1 \/ \E j \in 1..Len(Tail(ch)) : Tail(ch)[j] = ch[i]
  BY <1>1
<1>3. /\ 1 \in 1..Len(ch) /\ Head(ch) = ch[1]
      /\ \A i \in 1..Len(Tail(ch)) :
           i + 1 \in 1..Len(ch) /\ i + 1 # 1 /\ Tail(ch)[i] = ch[i + 1]
      /\ \A i, j \in 1..Len(Tail(ch)) : i + 1 = j + 1 => i = j
  BY SMT
<1> QED
  BY <1>2, <1>3

LEMMA Put ==
  ASSUME NEW M, NEW ch \in Seq(M), NEW m \in M, NEW t
  PROVE  /\ On(Append(ch, m), t) <=> On(ch, t) \/ Names(m, t)
         /\ Once(ch, t) /\ ~(On(ch, t) /\ Names(m, t)) => Once(Append(ch, m), t)
         /\ Said(Append(ch, m), t) <=> Said(ch, t) \/ Says(m, t)
<1> DEFINE new == Append(ch, m)
           n == Len(ch) + 1
<1>1. /\ n \in 1..Len(new) /\ new[n] = m
      /\ \A i \in 1..Len(ch) : i \in 1..Len(new) /\ new[i] = ch[i]
      /\ \A i \in 1..Len(new) : i \in 1..Len(ch) \/ i = n
  BY Appended
<1> HIDE DEF new, n
<1>2. On(new, t) <=> On(ch, t) \/ Names(m, t)
  BY <1>1 DEF On
<1>3. Said(new, t) <=> Said(ch, t) \/ Says(m, t)
  BY <1>1 DEF Said
<1>4. ASSUME Once(ch, t), ~(On(ch, t) /\ Names(m, t)) PROVE Once(new, t)
  BY <1>1, <1>4 DEF Once, On
<1> QED
  BY <1>2, <1>3, <1>4 DEF new

LEMMA Take ==
  ASSUME NEW M, NEW ch \in Seq(M), ch # <<>>, NEW t
  PROVE  /\ On(ch, t) <=> Names(Head(ch), t) \/ On(Tail(ch), t)
         /\ Once(ch, t) => Once(Tail(ch), t) /\ ~(Names(Head(ch), t) /\ On(Tail(ch), t))
         /\ Said(ch, t) <=> Says(Head(ch), t) \/ Said(Tail(ch), t)
<1> DEFINE rest == Tail(ch)
           m == Head(ch)
<1>1. /\ 1 \in 1..Len(ch) /\ m = ch[1]
      /\ \A i \in 1..Len(rest) : i + 1 \in 1..Len(ch) /\ i + 1 # 1 /\ rest[i] = ch[i + 1]
      /\ \A i \in 1..Len(ch) : i = 1 \/ \E j \in 1..Len(rest) : rest[j] = ch[i]
      /\ \A i, j \in 1..Len(rest) : i + 1 = j + 1 => i = j
  BY Rest
<1> HIDE DEF rest, m
<1>2. On(ch, t) <=> Names(m, t) \/ On(rest, t)
  BY <1>1 DEF On
<1>3. Said(ch, t) <=> Says(m, t) \/ Said(rest, t)
  BY <1>1 DEF Said
<1>4. ASSUME Once(ch, t) PROVE Once(rest, t) /\ ~(Names(m, t) /\ On(rest, t))
  <2>1. ~(Names(m, t) /\ On(rest, t))
    BY <1>1, <1>4 DEF Once, On
  <2>2. Once(rest, t)
    BY <1>1, <1>4 DEF Once
  <2> QED
    BY <2>1, <2>2
<1> QED
  BY <1>2, <1>3, <1>4 DEF rest, m

LEMMA PutUnlessEmpty ==
  ASSUME NEW M, NEW ch \in Seq(M), NEW m \in M, NEW t
  PROVE  /\ On(SendUnlessEmpty(ch, m), t) <=> On(ch, t) \/ Names(m, t)
         /\ Once(ch, t) /\ ~(On(ch, t) /\ Names(m, t)) => Once(SendUnlessEmpty(ch, m), t)
         /\ Said(SendUnlessEmpty(ch, m), t) <=> Said(ch, t) \/ Says(m, t)
<1>1. CASE m.txs = {}
  <2>1. ~Names(m, t) /\ ~Says(m, t)
    BY <1>1 DEF Names, Says, Ids
  <2> QED
    BY <1>1, <2>1 DEF SendUnlessEmpty
<1>2. CASE m.txs # {}
  BY <1>2, Put DEF SendUnlessEmpty, Send
<1> QED
  BY <1>1, <1>2

LEMMA Messages ==
  ASSUME NEW S, NEW t
  PROVE  /\ Names(ConfirmedTxs(S), t) <=> t \in S
         /\ Names(InvalidTxs(S), t) <=> t \in S
         /\ Names(AttachedTxs(S), t) <=> t \in S
         /\ Names(FullyCheckedTxs(S), t) <=> t \in Ids(S)
         /\ Names(FullCheck(S), t) <=> t \in Ids(S)
         /\ Names(CheckedTxs(S), t) <=> t \in Ids(S)
         /\ ~Says(ConfirmedTxs(S), t) /\ ~Says(InvalidTxs(S), t) /\ ~Says(AttachedTxs(S), t)
         /\ Says(FullyCheckedTxs(S), t) <=> t \in S
BY DEF ConfirmedTxs, InvalidTxs, AttachedTxs, FullyCheckedTxs, FullCheck, CheckedTxs, Names, Says

LEMMA NothingSaid == \A t : ~On(<<>>, t) /\ ~Said(<<>>, t) /\ Once(<<>>, t)
BY SMT DEF On, Said, Once

-----------------------------------------------------------------------------
(* The places.                                                             *)

LEMMA ThePlaces ==
  ASSUME NEW t
  PROVE  /\ At("waiting", t) <=> t \in waiting
         /\ At("toController", t) <=> On(toController, t)
         /\ At("toChecker", t) <=> On(toChecker, t)
         /\ At("toGraph", t) <=> On(toGraph, t)
         /\ At("unchecked", t) <=> t \in Ids(unchecked)
         /\ At("checked", t) <=> t \in Ids(checked_txs)
         /\ At("invalid", t) <=> t \in Ids(invalid_txs)
         /\ At("attaching", t) <=> t \in attaching
BY DEF At

LEMMA ThePlacesNext ==
  ASSUME NEW t
  PROVE  /\ At("waiting", t)' <=> t \in waiting'
         /\ At("toController", t)' <=> On(toController', t)
         /\ At("toChecker", t)' <=> On(toChecker', t)
         /\ At("toGraph", t)' <=> On(toGraph', t)
         /\ At("unchecked", t)' <=> t \in Ids(unchecked')
         /\ At("checked", t)' <=> t \in Ids(checked_txs')
         /\ At("invalid", t)' <=> t \in Ids(invalid_txs')
         /\ At("attaching", t)' <=> t \in attaching'
BY DEF At

(* t is where the step puts it, if anywhere.                               *)
OnlyAt(q, t) == \A p \in Places : At(p, t) => p = q

LEMMA Placed ==
  ASSUME NEW t, NEW q \in Places, OnlyAt(q, t)', mempool'[t] # "None" \/ ~At(q, t)',
         Once(toController', t), Once(toChecker', t), Once(toGraph', t)
  PROVE  TrackedTx(t)'
BY DEF TrackedTx, OnlyAt

LEMMA Unmoved ==
  ASSUME NEW t, TrackedTx(t), \A p \in Places : At(p, t)' <=> At(p, t),
         mempool[t] # "None" => mempool'[t] # "None",
         Once(toController', t), Once(toChecker', t), Once(toGraph', t)
  PROVE  TrackedTx(t)'
BY DEF TrackedTx

(* A transaction is at p and nowhere else.                                 *)
LEMMA Sole ==
  ASSUME NEW t, TrackedTx(t), NEW p \in Places, At(p, t)
  PROVE  OnlyAt(p, t) /\ mempool[t] # "None"
BY DEF TrackedTx, OnlyAt

LEMMA ChannelTypes ==
  ASSUME TokenInv
  PROVE  /\ toController \in Seq(ControllerMsgs)
         /\ toChecker \in Seq([type : {"FullCheck"}, txs : SUBSET Tx])
         /\ toGraph \in Seq(GraphMsgs)
BY DEF TokenInv, VerdictsStand, HandsTyped

(* A step that takes S from one place and puts it into another.            *)
LEMMA Moves ==
  ASSUME Tracked, NEW a \in Places, NEW b \in Places, a # b, NEW S,
         \A t \in Txid \cap S : At(a, t) /\ mempool'[t] # "None",
         \A t \in Txid : mempool[t] # "None" => mempool'[t] # "None",
         \A t \in Txid : At(a, t)' <=> At(a, t) /\ t \notin S,
         \A t \in Txid : At(b, t)' <=> At(b, t) \/ t \in S,
         \A t \in Txid, p \in Places : p # a /\ p # b => (At(p, t)' <=> At(p, t)),
         \A t \in Txid : Once(toController', t) /\ Once(toChecker', t) /\ Once(toGraph', t)
  PROVE  Tracked'
<1> SUFFICES ASSUME NEW t \in Txid PROVE TrackedTx(t)'
  BY DEF Tracked
<1>1. TrackedTx(t)
  BY DEF Tracked
<1>2. CASE t \in S
  <2>1. OnlyAt(a, t)
    BY <1>1, <1>2, Sole
  <2>2. OnlyAt(b, t)'
    BY <1>2, <2>1 DEF OnlyAt
  <2> QED
    BY <1>2, <2>2, Placed
<1>3. CASE t \notin S
  <2>1. \A p \in Places : At(p, t)' <=> At(p, t)
    BY <1>3
  <2> QED
    BY <1>1, <2>1, Unmoved
<1> QED
  BY <1>2, <1>3

LEMMA ConfirmTracked ==
  ASSUME TokenInv, Tracked, NEW S \in SUBSET waiting, Confirm(S)
  PROVE  Tracked'
<1>1. ConfirmedTxs(S) \in ControllerMsgs /\ S \subseteq Txid
  BY DEF TokenInv, HandsTyped, ConfirmedTxs, ControllerMsgs
<1>2. ASSUME NEW t \in Txid
      PROVE  /\ On(toController', t) <=> On(toController, t) \/ t \in S
             /\ Once(toController', t) /\ Once(toChecker', t) /\ Once(toGraph', t)
  <2>1. /\ On(Append(toController, ConfirmedTxs(S)), t)
             <=> On(toController, t) \/ Names(ConfirmedTxs(S), t)
        /\ Once(toController, t) /\ ~(On(toController, t) /\ Names(ConfirmedTxs(S), t))
             => Once(Append(toController, ConfirmedTxs(S)), t)
    BY <1>1, ChannelTypes, Put
  <2>2. Names(ConfirmedTxs(S), t) <=> t \in S
    BY Messages
  <2>3. toController' = Append(toController, ConfirmedTxs(S))
    BY DEF Confirm, Send
  <2>4. TrackedTx(t)
    BY DEF Tracked
  <2>5. ~(On(toController, t) /\ t \in S)
    <3> SUFFICES ASSUME At("toController", t), At("waiting", t) PROVE FALSE
      BY ThePlaces
    <3> QED
      BY <2>4 DEF TrackedTx, Places
  <2> QED
    BY <2>1, <2>2, <2>3, <2>4, <2>5 DEF TrackedTx, Confirm
<1>3. ASSUME NEW t \in Txid, NEW p \in Places, p # "waiting", p # "toController"
      PROVE  At(p, t)' <=> At(p, t)
  BY <1>3, ThePlaces, ThePlacesNext DEF Places, Confirm, checkerVars
<1>4. \A t \in Txid : At("waiting", t)' <=> At("waiting", t) /\ t \notin S
  BY ThePlaces, ThePlacesNext DEF Confirm
<1>5. \A t \in Txid : At("toController", t)' <=> At("toController", t) \/ t \in S
  BY <1>2, ThePlaces, ThePlacesNext
<1>6. \A t \in Txid \cap S : At("waiting", t) /\ mempool'[t] # "None"
  BY ThePlaces DEF Tracked, TrackedTx, Places, Confirm
<1>7. \A t \in Txid : mempool[t] # "None" => mempool'[t] # "None"
  BY DEF Confirm
<1>8. "waiting" \in Places /\ "toController" \in Places /\ "waiting" # "toController"
  BY DEF Places
<1>9. \A t \in Txid, p \in Places :
        p # "waiting" /\ p # "toController" => (At(p, t)' <=> At(p, t))
  BY <1>3
<1>10. \A t \in Txid : Once(toController', t) /\ Once(toChecker', t) /\ Once(toGraph', t)
  BY <1>2
<1> QED
  BY <1>4, <1>5, <1>6, <1>7, <1>8, <1>9, <1>10, Moves

LEMMA check_txs_fullTracked ==
  ASSUME TokenInv, Tracked, BatchInv, check_txs_full
  PROVE  Tracked'
<1> DEFINE m == Head(toChecker)
           S == Ids(m.txs)
<1>1. m \in [type : {"FullCheck"}, txs : SUBSET Tx]
  BY ChannelTypes, HeadTail DEF check_txs_full
<1>2. \A t : Names(m, t) <=> t \in S
  BY <1>1 DEF Names
<1>3. toChecker # <<>> /\ toChecker' = Tail(toChecker) /\ Ids(unchecked') = S /\ Ids(unchecked) = {}
  BY DEF check_txs_full, BatchInv, Ids
<1>4. \A t : /\ On(toChecker, t) <=> Names(m, t) \/ On(Tail(toChecker), t)
             /\ Once(toChecker, t) =>
                  Once(Tail(toChecker), t) /\ ~(Names(m, t) /\ On(Tail(toChecker), t))
  BY <1>3, ChannelTypes, Take
<1> HIDE DEF m, S
<1>5. ASSUME NEW t \in Txid
      PROVE  /\ Once(toController', t) /\ Once(toChecker', t) /\ Once(toGraph', t)
             /\ At("toChecker", t)' <=> At("toChecker", t) /\ t \notin S
  BY <1>2, <1>3, <1>4, ThePlaces, ThePlacesNext DEF Tracked, TrackedTx, check_txs_full
<1>6. \A t \in Txid, p \in Places :
        p # "toChecker" /\ p # "unchecked" => (At(p, t)' <=> At(p, t))
  BY ThePlaces, ThePlacesNext DEF Places, check_txs_full
<1>7. \A t \in Txid : At("toChecker", t)' <=> At("toChecker", t) /\ t \notin S
  BY <1>5
<1>8. \A t \in Txid : At("unchecked", t)' <=> At("unchecked", t) \/ t \in S
  BY <1>3, ThePlaces, ThePlacesNext
<1>9. "toChecker" \in Places /\ "unchecked" \in Places /\ "toChecker" # "unchecked"
  BY DEF Places
<1>10. \A t \in Txid \cap S : At("toChecker", t) /\ mempool'[t] # "None"
  BY <1>2, <1>4, <1>9, ThePlaces DEF Tracked, TrackedTx, check_txs_full
<1>11. \A t \in Txid : mempool[t] # "None" => mempool'[t] # "None"
  BY DEF check_txs_full
<1>12. \A t \in Txid : Once(toController', t) /\ Once(toChecker', t) /\ Once(toGraph', t)
  BY <1>5
<1> QED
  BY <1>6, <1>7, <1>8, <1>9, <1>10, <1>11, <1>12, Moves

LEMMA GraphTakesTracked ==
  ASSUME TokenInv, Tracked, GraphTakes
  PROVE  Tracked'
<1> DEFINE m == Head(toGraph)
           S == Ids(m.txs)
<1>1. m \in GraphMsgs
  BY ChannelTypes, HeadTail DEF GraphTakes
<1>2. \A t : Names(m, t) <=> t \in S
  BY <1>1 DEF Names, GraphMsgs
<1>3. toGraph # <<>> /\ toGraph' = Tail(toGraph) /\ attaching' = attaching \cup S
  BY DEF GraphTakes
<1>4. \A t : /\ On(toGraph, t) <=> Names(m, t) \/ On(Tail(toGraph), t)
             /\ Once(toGraph, t) =>
                  Once(Tail(toGraph), t) /\ ~(Names(m, t) /\ On(Tail(toGraph), t))
  BY <1>3, ChannelTypes, Take
<1> HIDE DEF m, S
<1>5. ASSUME NEW t \in Txid
      PROVE  /\ Once(toController', t) /\ Once(toChecker', t) /\ Once(toGraph', t)
             /\ At("toGraph", t)' <=> At("toGraph", t) /\ t \notin S
  BY <1>2, <1>3, <1>4, ThePlaces, ThePlacesNext DEF Tracked, TrackedTx, GraphTakes
<1>6. \A t \in Txid, p \in Places :
        p # "toGraph" /\ p # "attaching" => (At(p, t)' <=> At(p, t))
  BY ThePlaces, ThePlacesNext DEF Places, GraphTakes, checkerVars
<1>7. \A t \in Txid : At("toGraph", t)' <=> At("toGraph", t) /\ t \notin S
  BY <1>5
<1>8. \A t \in Txid : At("attaching", t)' <=> At("attaching", t) \/ t \in S
  BY <1>3, ThePlaces, ThePlacesNext
<1>9. "toGraph" \in Places /\ "attaching" \in Places /\ "toGraph" # "attaching"
  BY DEF Places
<1>10. \A t \in Txid \cap S : At("toGraph", t) /\ mempool'[t] # "None"
  BY <1>2, <1>4, <1>9, ThePlaces DEF Tracked, TrackedTx, GraphTakes
<1>11. \A t \in Txid : mempool[t] # "None" => mempool'[t] # "None"
  BY DEF GraphTakes
<1>12. \A t \in Txid : Once(toController', t) /\ Once(toChecker', t) /\ Once(toGraph', t)
  BY <1>5
<1> QED
  BY <1>6, <1>7, <1>8, <1>9, <1>10, <1>11, <1>12, Moves

(* What a service has in hand is in no message.                            *)
LEMMA Apart ==
  ASSUME Tracked, NEW t \in Txid, NEW p \in Places, NEW q \in Places, p # q, At(p, t)
  PROVE  ~At(q, t)
BY DEF Tracked, TrackedTx

LEMMA GraphAttachesTracked ==
  ASSUME TokenInv, Tracked, NEW u \in Txid, GraphAttaches(u)
  PROVE  Tracked'
<1> DEFINE m == AttachedTxs({u})
<1>1. m \in ControllerMsgs
  BY DEF TokenInv, HandsTyped, GraphAttaches, AttachedTxs, ControllerMsgs
<1>2. \A t : Names(m, t) <=> t \in {u}
  BY Messages
<1>3. toController' = Append(toController, m) /\ attaching' = attaching \ {u} /\ u \in attaching
  BY DEF GraphAttaches, Send
<1>4. \A t : /\ On(Append(toController, m), t) <=> On(toController, t) \/ Names(m, t)
             /\ Once(toController, t) /\ ~(On(toController, t) /\ Names(m, t))
                  => Once(Append(toController, m), t)
  BY <1>1, ChannelTypes, Put
<1> HIDE DEF m
<1>5. "attaching" \in Places /\ "toController" \in Places /\ "attaching" # "toController"
  BY DEF Places
<1>6. \A t \in Txid \cap {u} : At("attaching", t) /\ ~On(toController, t)
  BY <1>3, <1>5, ThePlaces, Apart
<1>7. \A t \in Txid \cap {u} : At("attaching", t) /\ mempool'[t] # "None"
  BY <1>5, <1>6 DEF Tracked, TrackedTx, GraphAttaches
<1>8. \A t \in Txid : Once(toController', t) /\ Once(toChecker', t) /\ Once(toGraph', t)
  BY <1>2, <1>3, <1>4, <1>6 DEF Tracked, TrackedTx, GraphAttaches
<1>9. \A t \in Txid, p \in Places :
        p # "attaching" /\ p # "toController" => (At(p, t)' <=> At(p, t))
  BY ThePlaces, ThePlacesNext DEF Places, GraphAttaches, checkerVars
<1>10. \A t \in Txid : At("attaching", t)' <=> At("attaching", t) /\ t \notin {u}
  BY <1>3, ThePlaces, ThePlacesNext
<1>11. \A t \in Txid : At("toController", t)' <=> At("toController", t) \/ t \in {u}
  BY <1>2, <1>3, <1>4, ThePlaces, ThePlacesNext
<1>12. \A t \in Txid : mempool[t] # "None" => mempool'[t] # "None"
  BY DEF GraphAttaches
<1> QED
  BY <1>5, <1>7, <1>8, <1>9, <1>10, <1>11, <1>12, Moves

(* A verdict: x goes from the batch to the valid or to the invalid ones.   *)
LEMMA CheckNextTracked ==
  ASSUME TokenInv, Tracked, OneTxPerId, NEW x \in Tx, CheckNext(x), NEW valid \in BOOLEAN,
         Verdict(x, valid)
  PROVE  Tracked'
<1> DEFINE u == TxidOf[x]
           b == IF valid THEN "checked" ELSE "invalid"
<1>1. "unchecked" \in Places /\ b \in Places /\ "unchecked" # b
  BY DEF Places
<1>2. u \in Ids(unchecked) /\ \A t : t \in Ids(unchecked') <=> t \in Ids(unchecked) /\ t \notin {u}
  BY DEF CheckNext, Ids, TokenInv, HandsTyped, OneTxPerId
<1>3. \A t : At(b, t)' <=> At(b, t) \/ t \in {u}
  <2>1. CASE valid
    <3>1. \A t : t \in Ids(checked_txs') <=> t \in Ids(checked_txs) \/ t \in {u}
      BY <2>1 DEF Verdict, Ids
    <3> QED
      BY <2>1, <3>1, ThePlaces, ThePlacesNext
  <2>2. CASE ~valid
    <3>1. \A t : t \in Ids(invalid_txs') <=> t \in Ids(invalid_txs) \/ t \in {u}
      BY <2>2 DEF Verdict, Ids
    <3> QED
      BY <2>2, <3>1, ThePlaces, ThePlacesNext
  <2> QED
    BY <2>1, <2>2
<1>4. \A t \in Txid, p \in Places : p # "unchecked" /\ p # b => (At(p, t)' <=> At(p, t))
  <2>1. CASE valid
    BY <2>1, ThePlaces, ThePlacesNext DEF Places, CheckNext, Verdict, channels
  <2>2. CASE ~valid
    BY <2>2, ThePlaces, ThePlacesNext DEF Places, CheckNext, Verdict, channels
  <2> QED
    BY <2>1, <2>2
<1> HIDE DEF u, b
<1>5. \A t \in Txid : At("unchecked", t)' <=> At("unchecked", t) /\ t \notin {u}
  BY <1>2, ThePlaces, ThePlacesNext
<1>6. \A t \in Txid \cap {u} : At("unchecked", t) /\ mempool'[t] # "None"
  BY <1>1, <1>2, ThePlaces DEF Tracked, TrackedTx, CheckNext
<1>7. \A t \in Txid : Once(toController', t) /\ Once(toChecker', t) /\ Once(toGraph', t)
  BY DEF Tracked, TrackedTx, CheckNext, channels
<1>8. \A t \in Txid : mempool[t] # "None" => mempool'[t] # "None"
  BY DEF CheckNext
<1>9. \A t \in Txid : At(b, t)' <=> At(b, t) \/ t \in {u}
  BY <1>3
<1> QED
  BY <1>1, <1>4, <1>5, <1>6, <1>7, <1>8, <1>9, Moves

(* The end of a batch: what it decided is sent in two messages.            *)
LEMMA FullCheckDoneTracked ==
  ASSUME TokenInv, Tracked, FullCheckDone
  PROVE  /\ Tracked'
         /\ \A x \in Tx : Said(toController', x) <=> Said(toController, x) \/ x \in checked_txs
<1> DEFINE m == FullyCheckedTxs(checked_txs)
           n == InvalidTxs(Ids(invalid_txs))
           mid == SendUnlessEmpty(toController, m)
<1>1. m \in ControllerMsgs /\ n \in ControllerMsgs
  <2>1. Ids(invalid_txs) \subseteq Txid
    BY TxAssumption DEF TokenInv, HandsTyped, Ids
  <2> QED
    BY <2>1 DEF TokenInv, VerdictsStand, FullyCheckedTxs, InvalidTxs, ControllerMsgs
<1>2. mid \in Seq(ControllerMsgs)
  BY SMT, <1>1 DEF TokenInv, VerdictsStand, SendUnlessEmpty, Send
<1>3. \A t : /\ Names(m, t) <=> t \in Ids(checked_txs)
             /\ Names(n, t) <=> t \in Ids(invalid_txs)
             /\ Says(m, t) <=> t \in checked_txs
             /\ ~Says(n, t)
  BY Messages
<1>4. toController' = SendUnlessEmpty(mid, n) /\ Ids(checked_txs') = {} /\ Ids(invalid_txs') = {}
  BY DEF FullCheckDone, Ids
<1>5. \A t : /\ On(mid, t) <=> On(toController, t) \/ Names(m, t)
             /\ Once(toController, t) /\ ~(On(toController, t) /\ Names(m, t)) => Once(mid, t)
             /\ Said(mid, t) <=> Said(toController, t) \/ Says(m, t)
  BY <1>1, ChannelTypes, PutUnlessEmpty
<1> HIDE DEF m, mid
<1>6. \A t : /\ On(toController', t) <=> On(mid, t) \/ Names(n, t)
             /\ Once(mid, t) /\ ~(On(mid, t) /\ Names(n, t)) => Once(toController', t)
             /\ Said(toController', t) <=> Said(mid, t) \/ Says(n, t)
  BY <1>1, <1>2, <1>4, PutUnlessEmpty
<1> HIDE DEF n
<1>7. ASSUME NEW t \in Txid PROVE TrackedTx(t)'
  <2>1. TrackedTx(t)
    BY DEF Tracked
  <2>2. /\ At("toController", t)' <=> At("toController", t) \/ At("checked", t) \/ At("invalid", t)
        /\ ~At("checked", t)' /\ ~At("invalid", t)'
    BY <1>3, <1>4, <1>5, <1>6, ThePlaces, ThePlacesNext
  <2>3. ASSUME NEW p \in Places, p # "toController", p # "checked", p # "invalid"
        PROVE  At(p, t)' <=> At(p, t)
    BY <2>3, ThePlaces, ThePlacesNext DEF Places, FullCheckDone
  <2>4. {"toController", "checked", "invalid"} \subseteq Places
    BY DEF Places
  <2>5. /\ ~(On(toController, t) /\ Names(m, t))
        /\ ~((On(toController, t) \/ Names(m, t)) /\ Names(n, t))
    BY <1>3, <2>1, <2>4, ThePlaces DEF TrackedTx
  <2>6. Once(toController', t) /\ Once(toChecker', t) /\ Once(toGraph', t)
    BY <1>5, <1>6, <2>1, <2>5 DEF TrackedTx, FullCheckDone
  <2>7. mempool' = mempool
    BY DEF FullCheckDone
  <2>8. CASE At("checked", t) \/ At("invalid", t)
    <3>1. PICK p \in {"checked", "invalid"} : At(p, t)
      BY <2>8
    <3>2. OnlyAt(p, t) /\ mempool[t] # "None"
      BY <2>1, <2>4, <3>1, Sole
    <3>3. OnlyAt("toController", t)'
      BY <2>2, <2>3, <3>1, <3>2 DEF OnlyAt
    <3> QED
      BY <2>4, <2>6, <2>7, <3>2, <3>3, Placed
  <2>9. CASE ~At("checked", t) /\ ~At("invalid", t)
    <3>1. \A p \in Places : At(p, t)' <=> At(p, t)
      BY <2>2, <2>3, <2>9
    <3> QED
      BY <2>1, <2>6, <2>7, <3>1, Unmoved
  <2> QED
    BY <2>8, <2>9
<1> QED
  BY <1>3, <1>5, <1>6, <1>7 DEF Tracked

LEMMA NewHasNoEntry ==
  ASSUME TokenInv, ProofInv, OneTxPerId, NEW x \in Tx, IsNew(x)
  PROVE  mempool[TxidOf[x]] = "None" /\ ~Attached(TxidOf[x])
<1>1. TxidOf[x] \in Txid
  BY TxAssumption
<1>2. CASE l1[TxidOf[x]] = NoRow
  BY <1>1, <1>2 DEF TokenInv, EntriesOpen, Present, Attached
<1>3. CASE Kind[x] = "Issue" /\ IsStoredIssueAnnouncement(TxidOf[x])
  <2>1. l1[TxidOf[x]].tx = x
    BY <1>1, <1>3
    DEF TokenInv, RowsTyped, Present, L1Row, IsStoredIssueAnnouncement, OneTxPerId
  <2>2. l1[TxidOf[x]].status = "InvalidIssue"
    BY <1>3, <2>1 DEF IsStoredIssueAnnouncement
  <2> QED
    BY <1>1, <2>2 DEF ProofInv, Attached
<1> QED
  BY <1>2, <1>3 DEF IsNew

LEMMA ArriveTracked ==
  ASSUME TokenInv, Tracked, ProofInv, OneTxPerId, NEW x \in Tx, Arrive(x)
  PROVE  Tracked'
<1> DEFINE u == TxidOf[x]
<1>1. u \in Txid /\ mempool[u] = "None"
  BY TxAssumption, NewHasNoEntry DEF Arrive
<1> SUFFICES ASSUME NEW t \in Txid PROVE TrackedTx(t)'
  BY DEF Tracked
<1>2. TrackedTx(t)
  BY DEF Tracked
<1>3. Once(toController', t) /\ Once(toChecker', t) /\ Once(toGraph', t)
  BY <1>2 DEF TrackedTx, Arrive, channels
<1>4. ASSUME NEW p \in Places, p # "waiting" PROVE At(p, t)' <=> At(p, t)
  BY <1>4, ThePlaces, ThePlacesNext DEF Places, Arrive, channels, checkerVars
<1>5. At("waiting", t)' <=> At("waiting", t) \/ t = u
  BY ThePlaces, ThePlacesNext DEF Arrive
<1>6. mempool'[u] = "Mined" /\ (t # u => mempool'[t] = mempool[t])
  BY <1>1 DEF Arrive, MempoolSet
<1>7. CASE t = u
  <2>1. OnlyAt("waiting", t)'
    BY <1>1, <1>2, <1>4, <1>7 DEF OnlyAt, TrackedTx
  <2> QED
    BY <1>3, <1>6, <1>7, <2>1, Placed DEF Places
<1>8. CASE t # u
  <2>1. \A p \in Places : At(p, t)' <=> At(p, t)
    BY <1>4, <1>5, <1>8
  <2> QED
    BY <1>2, <1>3, <1>6, <1>8, <2>1, Unmoved
<1> QED
  BY <1>7, <1>8

-----------------------------------------------------------------------------
(* The controller takes its next message.                                  *)

LEMMA ControllerTakes ==
  ASSUME TokenInv, Tracked, ControllerStep, NEW t \in Txid
  PROVE  /\ Once(toController', t)
         /\ Names(Head(toController), t) =>
              OnlyAt("toController", t) /\ ~On(toController', t) /\ mempool[t] # "None"
         /\ ~Names(Head(toController), t) => (On(toController', t) <=> On(toController, t))
<1>1. toController # <<>> /\ toController' = Tail(toController)
  BY DEF ControllerStep, ControllerEvent
<1>2. /\ On(toController, t) <=> Names(Head(toController), t) \/ On(toController', t)
      /\ Once(toController, t) =>
           Once(toController', t) /\ ~(Names(Head(toController), t) /\ On(toController', t))
  BY <1>1, ChannelTypes, Take
<1>3. TrackedTx(t)
  BY DEF Tracked
<1>4. "toController" \in Places
  BY DEF Places
<1>5. At("toController", t) => OnlyAt("toController", t) /\ mempool[t] # "None"
  BY <1>3, <1>4, Sole
<1> QED
  BY <1>2, <1>3, <1>5, ThePlaces DEF TrackedTx

(* It is the only one that has what it names; what it does not name stays. *)
LEMMA ControllerPlaces ==
  ASSUME TokenInv, Tracked, ControllerStep, NEW t \in Txid, NEW p \in Places,
         p \notin {"toController", "toChecker", "toGraph"}
  PROVE  At(p, t)' <=> At(p, t)
BY ThePlaces, ThePlacesNext DEF Places, ControllerStep, checkerVars

LEMMA ControllerKeeps ==
  ASSUME TokenInv, Tracked, ControllerStep, NEW t \in Txid, ~Names(Head(toController), t),
         mempool[t] # "None" => mempool'[t] # "None",
         On(toChecker', t) <=> On(toChecker, t), On(toGraph', t) <=> On(toGraph, t),
         Once(toChecker', t), Once(toGraph', t)
  PROVE  TrackedTx(t)'
<1>1. Once(toController', t) /\ (On(toController', t) <=> On(toController, t))
  BY ControllerTakes
<1>2. ASSUME NEW p \in Places PROVE At(p, t)' <=> At(p, t)
  <2>1. CASE p \in {"toController", "toChecker", "toGraph"}
    BY <1>1, <2>1, ThePlaces, ThePlacesNext
  <2>2. CASE p \notin {"toController", "toChecker", "toGraph"}
    BY <2>2, ControllerPlaces
  <2> QED
    BY <2>1, <2>2
<1>3. TrackedTx(t)
  BY DEF Tracked
<1> QED
  BY <1>1, <1>2, <1>3, Unmoved

LEMMA ControllerMovesOn ==
  ASSUME TokenInv, Tracked, ControllerStep, NEW t \in Txid, Names(Head(toController), t),
         NEW q \in {"toChecker", "toGraph"},
         q = "toChecker" \/ ~On(toChecker', t), q = "toGraph" \/ ~On(toGraph', t),
         mempool'[t] # "None" \/ ~At(q, t)',
         Once(toChecker', t), Once(toGraph', t)
  PROVE  TrackedTx(t)'
<1>1. Once(toController', t) /\ OnlyAt("toController", t) /\ ~On(toController', t)
  BY ControllerTakes
<1>2. ASSUME NEW p \in Places, At(p, t)' PROVE p = q
  <2>1. CASE p \in {"toController", "toChecker", "toGraph"}
    <3>1. ASSUME p = "toController" PROVE FALSE
      BY <1>1, <1>2, <3>1, ThePlacesNext
    <3>2. ASSUME p = "toChecker" PROVE p = q
      BY <1>2, <3>2, ThePlacesNext
    <3>3. ASSUME p = "toGraph" PROVE p = q
      BY <1>2, <3>3, ThePlacesNext
    <3> QED
      BY <2>1, <3>1, <3>2, <3>3
  <2>2. CASE p \notin {"toController", "toChecker", "toGraph"}
    BY <1>1, <1>2, <2>2, ControllerPlaces DEF OnlyAt
  <2> QED
    BY <2>1, <2>2
<1>3. OnlyAt(q, t)' /\ q \in Places
  BY <1>2 DEF OnlyAt, Places
<1> QED
  BY <1>1, <1>3, Placed

LEMMA ConfirmedTracked ==
  ASSUME TokenInv, Tracked, ControllerStep, Head(toController).type = "ConfirmedTxs"
  PROVE  Tracked'
<1> DEFINE m == Head(toController)
           S == m.txs
           out == FullCheck(StoredTxs(S))
<1>1. m \in ControllerMsgs
  BY ChannelTypes, HeadTail DEF ControllerStep, ControllerEvent
<1>2. handle_confirmed_txs(S) /\ S \subseteq Txid
  BY <1>1 DEF ControllerStep, ControllerEvent, ControllerMsgs
<1>3. \A t : Names(m, t) <=> t \in S
  BY DEF Names
<1>4. Entries(S) = S
  <2>1. \A t \in S : mempool[t] # "None"
    BY <1>2, <1>3, ControllerTakes
  <2> QED
    BY <2>1 DEF Entries
<1>5. ASSUME NEW t \in S PROVE l1[t].tx \in Tx /\ TxidOf[l1[t].tx] = t
  BY <1>2, <1>4 DEF Entries, TokenInv, EntriesOpen, RowsTyped, Present, L1Row
<1>6. Ids(StoredTxs(S)) = S /\ StoredTxs(S) \subseteq Tx
  <2>1. StoredTxs(S) \subseteq Tx
    BY <1>5 DEF StoredTxs
  <2>2. ASSUME NEW t \in Ids(StoredTxs(S)) PROVE t \in S
    <3>1. PICK x \in StoredTxs(S) : t = TxidOf[x]
      BY <2>2 DEF Ids
    <3>2. PICK u \in S : x = l1[u].tx
      BY <3>1 DEF StoredTxs
    <3> QED
      BY <1>5, <3>1, <3>2
  <2>3. ASSUME NEW t \in S PROVE t \in Ids(StoredTxs(S))
    <3>1. l1[t].tx \in StoredTxs(S) /\ TxidOf[l1[t].tx] = t
      BY <1>5, <2>3 DEF StoredTxs
    <3> QED
      BY <3>1 DEF Ids
  <2> QED
    BY <2>1, <2>2, <2>3
<1>7. out \in [type : {"FullCheck"}, txs : SUBSET Tx] /\ \A t : Names(out, t) <=> t \in S
  <2>3. \A t : Names(out, t) <=> t \in Ids(StoredTxs(S))
    BY Messages
  <2>1. \A t : Names(out, t) <=> t \in S
    BY <1>6, <2>3
  <2>2. out \in [type : {"FullCheck"}, txs : SUBSET Tx]
    BY <1>6 DEF FullCheck
  <2> QED
    BY <2>1, <2>2
<1>8. toChecker' = Append(toChecker, out) /\ UNCHANGED <<mempool, toGraph>>
  BY <1>2, <1>4 DEF handle_confirmed_txs, Send
<1> HIDE DEF m, S, out
<1>9. \A t : /\ On(toChecker', t) <=> On(toChecker, t) \/ Names(out, t)
             /\ Once(toChecker, t) /\ ~(On(toChecker, t) /\ Names(out, t)) => Once(toChecker', t)
  BY <1>7, <1>8, ChannelTypes, Put
<1> SUFFICES ASSUME NEW t \in Txid PROVE TrackedTx(t)'
  BY DEF Tracked
<1>10. TrackedTx(t)
  BY DEF Tracked
<1>11. CASE t \in S
  <2>1. OnlyAt("toController", t) /\ mempool[t] # "None"
    BY <1>3, <1>11, ControllerTakes DEF m
  <2>2. ~On(toChecker, t) /\ ~On(toGraph, t)
    BY <2>1, ThePlaces DEF OnlyAt, Places
  <2>3. Once(toChecker', t) /\ Once(toGraph', t) /\ ~On(toGraph', t) /\ mempool'[t] # "None"
    BY <1>8, <1>9, <1>10, <2>1, <2>2 DEF TrackedTx
  <2>4. Names(Head(toController), t)
    BY <1>3, <1>11 DEF m
  <2> QED
    BY <2>3, <2>4, ControllerMovesOn
<1>12. CASE t \notin S
  <2>1. Once(toChecker', t) /\ Once(toGraph', t) /\ mempool' = mempool
    BY <1>7, <1>8, <1>9, <1>10, <1>12 DEF TrackedTx
  <2>2. (On(toChecker', t) <=> On(toChecker, t)) /\ (On(toGraph', t) <=> On(toGraph, t))
    BY <1>7, <1>8, <1>9, <1>12
  <2>3. ~Names(Head(toController), t)
    BY <1>3, <1>12 DEF m
  <2> QED
    BY <2>1, <2>2, <2>3, ControllerKeeps
<1> QED
  BY <1>11, <1>12

(* A message whose transactions leave the mempool.                         *)
LEMMA DroppedTracked ==
  ASSUME TokenInv, Tracked, ControllerStep, UNCHANGED <<toChecker, toGraph>>, NEW S,
         \A t : Names(Head(toController), t) <=> t \in S, mempool' = MempoolDelete(S)
  PROVE  Tracked'
<1> SUFFICES ASSUME NEW t \in Txid PROVE TrackedTx(t)'
  BY DEF Tracked
<1>1. TrackedTx(t)
  BY DEF Tracked
<1>2. Once(toChecker', t) /\ Once(toGraph', t)
  BY <1>1 DEF TrackedTx
<1>3. CASE t \in S
  <2>1. OnlyAt("toController", t)
    BY <1>3, ControllerTakes
  <2>2. ~On(toChecker', t) /\ ~On(toGraph', t)
    BY <2>1, ThePlaces DEF OnlyAt, Places
  <2>3. ~At("toChecker", t)'
    BY <2>2, ThePlacesNext
  <2> QED
    BY <1>2, <1>3, <2>2, <2>3, ControllerMovesOn
<1>4. CASE t \notin S
  <2>1. mempool'[t] = mempool[t]
    BY <1>4 DEF MempoolDelete, MempoolSet
  <2> QED
    BY <1>2, <1>4, <2>1, ControllerKeeps
<1> QED
  BY <1>3, <1>4

Announced(X) == {x \in X : IsAnnouncement(x)}

Others(X) == X \ Announced(X)

(* An entry that the checker is done with is still there.                  *)
LEMMA FullyCheckedDone ==
  ASSUME TokenInv, Tracked, ControllerStep, Head(toController).type = "FullyCheckedTxs",
         Head(toController).txs \subseteq Tx
  PROVE  /\ mempool' = [t \in Txid |-> IF t \in Ids(Announced(Head(toController).txs)) THEN "None"
                                       ELSE IF t \in Ids(Others(Head(toController).txs)) THEN "Attaching"
                                       ELSE mempool[t]]
         /\ l1' = WithStatus(Ids(Announced(Head(toController).txs)), "Attached")
         /\ toGraph' = SendUnlessEmpty(toGraph, CheckedTxs(Others(Head(toController).txs)))
         /\ UNCHANGED toChecker
<1> DEFINE X == Head(toController).txs
<1>1. \A t : Names(Head(toController), t) <=> t \in Ids(X)
  BY DEF Names
<1>2. handle_fully_checked_txs(X)
  BY DEF ControllerStep, ControllerEvent
<1>3. Ids(Others(X)) \subseteq Ids(X) /\ Ids(Others(X)) \subseteq Txid
  BY TxAssumption DEF Ids, Others
<1>4. \A t \in Ids(Others(X)) : mempool[t] # "None"
  BY <1>1, <1>3, ControllerTakes
<1>5. Entries(Ids(Others(X))) = Ids(Others(X))
  BY <1>4 DEF Entries
<1>6. ~MissingEntry(Ids(Others(X)), "Attaching")
  BY <1>5 DEF MissingEntry
<1> QED
  BY <1>2, <1>6 DEF handle_fully_checked_txs, Announced, Others

LEMMA FullyCheckedTracked ==
  ASSUME TokenInv, Tracked, OneTxPerId, ControllerStep,
         Head(toController).type = "FullyCheckedTxs"
  PROVE  Tracked'
<1> DEFINE X == Head(toController).txs
           announcements == Announced(X)
           others == Others(X)
           out == CheckedTxs(others)
<1>1. Head(toController) \in ControllerMsgs
  BY ChannelTypes, HeadTail DEF ControllerStep, ControllerEvent
<1>2. X \subseteq Tx
  BY <1>1 DEF ControllerMsgs, Acceptable
<1>3. /\ mempool' = [t \in Txid |-> IF t \in Ids(announcements) THEN "None"
                                    ELSE IF t \in Ids(others) THEN "Attaching"
                                    ELSE mempool[t]]
      /\ l1' = WithStatus(Ids(announcements), "Attached")
      /\ toGraph' = SendUnlessEmpty(toGraph, CheckedTxs(others))
      /\ UNCHANGED toChecker
  BY <1>2, FullyCheckedDone
<1>4. /\ \A t : Names(Head(toController), t) <=> t \in Ids(announcements) \/ t \in Ids(others)
      /\ \A t : t \in Ids(announcements) => t \notin Ids(others)
  BY <1>2 DEF Names, Ids, OneTxPerId, Announced, Others
<1>5. out \in GraphMsgs
  <2>1. \A x \in others : x \in Tx /\ TxidOf[x] \in SpendableIds
    BY <1>2 DEF SpendableIds, Spendable, Ids, Announced, Others
  <2> QED
    BY <2>1 DEF CheckedTxs, GraphMsgs
<1>6. \A t : Names(out, t) <=> t \in Ids(others)
  BY Messages
<1> HIDE DEF X, announcements, others, out
<1>7. \A t : /\ On(toGraph', t) <=> On(toGraph, t) \/ Names(out, t)
             /\ Once(toGraph, t) /\ ~(On(toGraph, t) /\ Names(out, t)) => Once(toGraph', t)
  BY <1>3, <1>5, ChannelTypes, PutUnlessEmpty DEF out
<1> SUFFICES ASSUME NEW t \in Txid PROVE TrackedTx(t)'
  BY DEF Tracked
<1>8. TrackedTx(t)
  BY DEF Tracked
<1>9. CASE Names(Head(toController), t)
  <2>1. OnlyAt("toController", t) /\ mempool[t] # "None"
    BY <1>9, ControllerTakes
  <2>2. ~On(toChecker, t) /\ ~On(toGraph, t)
    BY <2>1, ThePlaces DEF OnlyAt, Places
  <2>3. Once(toChecker', t) /\ Once(toGraph', t) /\ ~On(toChecker', t)
    BY <1>3, <1>7, <1>8, <2>2 DEF TrackedTx
  <2>4. mempool'[t] # "None" \/ ~On(toGraph', t)
    <3>1. CASE t \in Ids(announcements)
      BY <1>4, <1>6, <1>7, <2>2, <3>1
    <3>2. CASE t \in Ids(others)
      BY <1>3, <1>4, <3>2
    <3> QED
      BY <1>4, <1>9, <3>1, <3>2
  <2>5. mempool'[t] # "None" \/ ~At("toGraph", t)'
    BY <2>4, ThePlacesNext
  <2> QED
    BY <1>9, <2>3, <2>5, ControllerMovesOn
<1>10. CASE ~Names(Head(toController), t)
  <2>1. t \notin Ids(announcements) /\ t \notin Ids(others)
    BY <1>4, <1>10
  <2>2. mempool'[t] = mempool[t]
    BY <1>3, <2>1
  <2>3. (On(toGraph', t) <=> On(toGraph, t)) /\ Once(toGraph', t)
    BY <1>6, <1>7, <1>8, <2>1 DEF TrackedTx
  <2>4. (On(toChecker', t) <=> On(toChecker, t)) /\ Once(toChecker', t)
    BY <1>3, <1>8 DEF TrackedTx
  <2> QED
    BY <1>10, <2>2, <2>3, <2>4, ControllerKeeps
<1> QED
  BY <1>9, <1>10

LEMMA ControllerTracked ==
  ASSUME TokenInv, Tracked, OneTxPerId, ControllerStep
  PROVE  Tracked'
<1> DEFINE m == Head(toController)
<1>1. m \in ControllerMsgs
  BY ChannelTypes, HeadTail DEF ControllerStep, ControllerEvent
<1>2. CASE m.type = "ConfirmedTxs"
  BY <1>2, ConfirmedTracked
<1>3. CASE m.type = "FullyCheckedTxs"
  BY <1>3, FullyCheckedTracked
<1>4. CASE m.type = "InvalidTxs"
  <2>1. handle_invalid_txs(m.txs, Entries(m.txs))
    BY <1>4 DEF ControllerStep, ControllerEvent
  <2>2. \A t : Names(m, t) <=> t \in m.txs
    BY <1>4 DEF Names
  <2> QED
    BY <2>1, <2>2, DroppedTracked DEF handle_invalid_txs
<1>5. CASE m.type = "AttachedTxs"
  <2>1. handle_attached_txs(m.txs)
    BY <1>5 DEF ControllerStep, ControllerEvent
  <2>2. \A t : Names(m, t) <=> t \in m.txs
    BY <1>5 DEF Names
  <2> QED
    BY <2>1, <2>2, DroppedTracked DEF handle_attached_txs
<1> QED
  BY <1>1, <1>2, <1>3, <1>4, <1>5 DEF ControllerMsgs

-----------------------------------------------------------------------------
(* The parity.                                                             *)

(* A step that lets through no freeze, freezes nothing, and neither takes  *)
(* away nor changes what is attached.                                      *)
LEMMA NothingFrozen ==
  ASSUME ParityInv, LateInv', late \subseteq late',
         \A x \in Tx, o \in Txid : Freezes(x, o) => (Passed(x)' <=> Passed(x)),
         \A x \in Tx : Passed(x) /\ TxidOf[x] \in late' => TxidOf[x] \in late,
         \A o \in Txid : Attached(o) => Attached(o)',
         \A o \in Txid : Attached(o)' => proofs'[o] = proofs[o] /\ l1'[o].tx = l1[o].tx,
         \A o \in Txid : proofs'[o] => proofs[o]
  PROVE  ParityInv'
<1> SUFFICES ASSUME NEW o \in Txid, Applied(o)' \subseteq late',
                    Attached(o)' => Spendable(l1'[o].tx)
             PROVE  IsFiniteSet(Applied(o)') /\ (proofs'[o] <=> Odd(Applied(o)'))
  BY DEF ParityInv, ParityTx, Odd, Spendable
<1>1. Applied(o)' = Applied(o)
  BY DEF Applied
<1>2. Applied(o) \subseteq late
  BY <1>1 DEF Applied
<1>3. CASE Attached(o)'
  <2>1. Attached(o) => Spendable(l1[o].tx)
    BY <1>3
  <2>2. IsFiniteSet(Applied(o)) /\ (proofs[o] <=> Odd(Applied(o)))
    BY <1>2, <2>1 DEF ParityInv, ParityTx
  <2> QED
    BY <1>1, <1>3, <2>2
<1>4. CASE ~Attached(o)'
  <2>1. Applied(o)' = {}
    BY <1>4 DEF Applied, LateInv
  <2>2. ~Attached(o)
    BY <1>4
  <2>3. IsFiniteSet(Applied(o)) /\ (proofs[o] <=> Odd(Applied(o)))
    BY <1>2, <2>2 DEF ParityInv, ParityTx
  <2>4. ~Odd({})
    <3>1. Cardinality({}) = 0
      BY FS_EmptySet
    <3> QED
      BY SMT, <3>1 DEF Odd
  <2>5. ~Odd(Applied(o))
    BY <1>1, <2>1, <2>4
  <2> QED
    BY <1>1, <2>3, <2>5
<1> QED
  BY <1>3, <1>4

(* The steps that leave the tables alone.                                  *)
LEMMA TablesStay ==
  ASSUME ProofInv, LateInv, ParityInv, UNCHANGED <<l1, mempool, proofs, late>>,
         \A x \in Tx, o \in Txid : Freezes(x, o) => (Passed(x)' <=> Passed(x))
  PROVE  ProofInv' /\ LateInv' /\ ParityInv'
<1>1. \A o : Attached(o)' <=> Attached(o)
  BY DEF Attached, Present
<1>2. ProofInv'
  BY DEF ProofInv, Present
<1>3. LateInv'
  BY <1>1 DEF LateInv
<1>4. ParityInv'
  BY <1>1, <1>3, NothingFrozen
<1> QED
  BY <1>2, <1>3, <1>4

(* A step that only moves transactions among services other than the       *)
(* checker: nothing is passed by it.                                       *)
LEMMA ConfirmOdd ==
  ASSUME TokenInv, OddInv, NEW S \in SUBSET waiting, Confirm(S)
  PROVE  OddInv'
<1>1. ConfirmedTxs(S) \in ControllerMsgs
  BY DEF TokenInv, HandsTyped, ConfirmedTxs, ControllerMsgs
<1>2. UNCHANGED <<l1, mempool, proofs, late, checking, unchecked, checked_txs, invalid_txs>>
  BY DEF Confirm, tables, checkerVars
<1>3. ASSUME NEW x PROVE Said(toController', x) <=> Said(toController, x)
  <2>1. Said(Append(toController, ConfirmedTxs(S)), x)
          <=> Said(toController, x) \/ Says(ConfirmedTxs(S), x)
    BY <1>1, ChannelTypes, Put
  <2> QED
    BY <2>1, Messages DEF Confirm, Send
<1>4. \A x \in Tx, o \in Txid : Freezes(x, o) => (Passed(x)' <=> Passed(x))
  BY <1>2, <1>3 DEF Passed, Attached, Present
<1>5. ProofInv' /\ LateInv' /\ ParityInv'
  BY <1>2, <1>4, TablesStay DEF OddInv
<1>6. Tracked' /\ BatchInv'
  BY <1>2, ConfirmTracked DEF OddInv, BatchInv
<1> QED
  BY <1>5, <1>6 DEF OddInv

LEMMA GraphAttachesOdd ==
  ASSUME TokenInv, OddInv, NEW t \in Txid, GraphAttaches(t)
  PROVE  OddInv'
<1>1. AttachedTxs({t}) \in ControllerMsgs
  BY DEF TokenInv, HandsTyped, GraphAttaches, AttachedTxs, ControllerMsgs
<1>2. UNCHANGED <<l1, mempool, proofs, late, checking, unchecked, checked_txs, invalid_txs>>
  BY DEF GraphAttaches, tables, checkerVars
<1>3. ASSUME NEW x PROVE Said(toController', x) <=> Said(toController, x)
  <2>1. Said(Append(toController, AttachedTxs({t})), x)
          <=> Said(toController, x) \/ Says(AttachedTxs({t}), x)
    BY <1>1, ChannelTypes, Put
  <2> QED
    BY <2>1, Messages DEF GraphAttaches, Send
<1>4. \A x \in Tx, o \in Txid : Freezes(x, o) => (Passed(x)' <=> Passed(x))
  BY <1>2, <1>3 DEF Passed, Attached, Present
<1>5. ProofInv' /\ LateInv' /\ ParityInv'
  BY <1>2, <1>4, TablesStay DEF OddInv
<1>6. Tracked' /\ BatchInv'
  BY <1>2, GraphAttachesTracked DEF OddInv, BatchInv
<1> QED
  BY <1>5, <1>6 DEF OddInv

LEMMA GraphTakesOdd ==
  ASSUME TokenInv, OddInv, GraphTakes
  PROVE  OddInv'
<1>1. UNCHANGED <<l1, mempool, proofs, late, checking, unchecked, checked_txs, invalid_txs,
                  toController>>
  BY DEF GraphTakes, tables, checkerVars
<1>2. \A x \in Tx, o \in Txid : Freezes(x, o) => (Passed(x)' <=> Passed(x))
  BY <1>1 DEF Passed, Attached, Present
<1>3. ProofInv' /\ LateInv' /\ ParityInv'
  BY <1>1, <1>2, TablesStay DEF OddInv
<1>4. Tracked' /\ BatchInv'
  BY <1>1, GraphTakesTracked DEF OddInv, BatchInv
<1> QED
  BY <1>3, <1>4 DEF OddInv

LEMMA check_txs_fullOdd ==
  ASSUME TokenInv, OddInv, check_txs_full
  PROVE  OddInv'
<1>1. /\ UNCHANGED <<l1, mempool, proofs, late, checked_txs, invalid_txs, toController>>
      /\ checking' = TRUE
  BY DEF check_txs_full, tables
<1>2. \A x \in Tx, o \in Txid : Freezes(x, o) => (Passed(x)' <=> Passed(x))
  BY <1>1 DEF Passed, Attached, Present
<1>3. ProofInv' /\ LateInv' /\ ParityInv'
  BY <1>1, <1>2, TablesStay DEF OddInv
<1>4. Tracked' /\ BatchInv'
  BY <1>1, check_txs_fullTracked DEF OddInv, BatchInv
<1> QED
  BY <1>3, <1>4 DEF OddInv

LEMMA FullCheckDoneOdd ==
  ASSUME TokenInv, OddInv, FullCheckDone
  PROVE  OddInv'
<1>1. /\ UNCHANGED <<l1, mempool, proofs, late, unchecked>> /\ unchecked = {}
      /\ checked_txs' = {} /\ invalid_txs' = {}
  BY DEF FullCheckDone, tables
<1>2. /\ Tracked'
      /\ \A x \in Tx : Said(toController', x) <=> Said(toController, x) \/ x \in checked_txs
  BY FullCheckDoneTracked DEF OddInv
<1>3. \A x \in Tx, o \in Txid : Freezes(x, o) => (Passed(x)' <=> Passed(x))
  BY <1>1, <1>2 DEF Passed, Attached, Present
<1>4. ProofInv' /\ LateInv' /\ ParityInv'
  BY <1>1, <1>3, TablesStay DEF OddInv
<1>5. BatchInv'
  BY <1>1 DEF BatchInv
<1> QED
  BY <1>2, <1>4, <1>5 DEF OddInv

(* A transaction that arrives is new: it has not passed a check.           *)
LEMMA ArriveOdd ==
  ASSUME TokenInv, OddInv, OneTxPerId, NEW x \in Tx, Arrive(x)
  PROVE  OddInv'
<1> DEFINE u == TxidOf[x]
<1>1. u \in Txid /\ mempool[u] = "None" /\ ~Attached(u)
  BY TxAssumption, NewHasNoEntry DEF Arrive, OddInv
<1>2. /\ l1'[u] = [tx |-> x, status |-> "Handling"]
      /\ \A t \in Txid : t # u => l1'[t] = l1[t]
  BY Inserting DEF Arrive
<1>3. l1'[u].tx = x /\ l1'[u].status = "Handling" /\ l1'[u] # NoRow
  <2>1. [tx |-> x, status |-> "Handling"] \in L1Row
    BY DEF L1Row, L1TxStatus
  <2> QED
    BY SMT, <1>2, <2>1, TxAssumption
<1> HIDE DEF u
<1>4. \A o \in Txid : Attached(o)' <=> Attached(o)
  BY <1>1, <1>2, <1>3 DEF Attached, Present
<1>5. /\ proofs' \in [Txid -> BOOLEAN]
      /\ \A o \in Txid : proofs'[o] => proofs[o]
      /\ \A o \in Txid : o # u => proofs'[o] = proofs[o]
      /\ proofs'[u] => ~Spendable(x) /\ proofs[u]
  BY <1>1 DEF Arrive, Insert, OddInv, ProofInv, u
<1>6. ASSUME NEW t \in Txid PROVE mempool'[t] = IF t = u THEN "Mined" ELSE mempool[t]
  BY DEF Arrive, MempoolSet, u
<1>7. ~proofs'[u] \/ Spendable(l1'[u].tx)
  <2>1. ASSUME proofs[u] PROVE Spendable(x)
    <3>1. Present(u) /\ Spendable(l1[u].tx)
      BY <1>1, <2>1 DEF OddInv, ProofInv
    <3>2. l1[u].tx \in Tx /\ TxidOf[l1[u].tx] = u
      BY <1>1, <3>1 DEF TokenInv, RowsTyped, Present, L1Row
    <3> QED
      BY <3>1, <3>2 DEF OneTxPerId, u
  <2> QED
    BY <1>5, <2>1
<1>8. ProofInv'
  <2>1. ASSUME NEW t \in Txid
        PROVE  /\ mempool'[t] # "None" => l1'[t].status # "InvalidIssue"
               /\ proofs'[t] => l1'[t] # NoRow /\ Spendable(l1'[t].tx)
    <3>1. CASE t = u
      BY <1>3, <1>7, <3>1
    <3>2. CASE t # u
      BY <1>2, <1>5, <1>6, <3>2 DEF OddInv, ProofInv, Present
    <3> QED
      BY <3>1, <3>2
  <2> QED
    BY <1>5, <2>1 DEF ProofInv, Present
<1>9. ASSUME NEW y \in Tx, NEW o \in Txid, Freezes(y, o), TxidOf[y] \in late'
      PROVE  Attached(o)'
  <2>1. CASE TxidOf[y] \in late
    BY <1>4, <1>9, <2>1 DEF OddInv, LateInv
  <2>2. CASE TxidOf[y] \notin late
    <3>1. TxidOf[y] = u /\ Body[x].type = "TxFreeze" /\ Attached(Body[x].target)
      BY <1>9, <2>2 DEF Arrive, u
    <3>2. y = x
      BY <3>1 DEF OneTxPerId, u
    <3> QED
      BY <1>4, <1>9, <3>1, <3>2 DEF Freezes
  <2> QED
    BY <2>1, <2>2
<1>10. LateInv'
  BY <1>9 DEF LateInv
<1>11. \A y \in Tx : Passed(y)' <=> Passed(y)
  BY <1>4, TxAssumption DEF Passed, Arrive, channels, checkerVars
<1>12. ASSUME NEW y \in Tx, Passed(y), TxidOf[y] \in late' PROVE TxidOf[y] \in late
  <2>1. TxidOf[y] # u
    <3> SUFFICES ASSUME TxidOf[y] = u PROVE FALSE
      OBVIOUS
    <3>1. y \in checked_txs \/ Said(toController, y)
      BY <1>1, <1>12 DEF Passed
    <3>3. y \in checked_txs => u \in Ids(checked_txs)
      BY DEF Ids
    <3>4. \A m : Says(m, y) => Names(m, u)
      BY DEF Says, Names, Ids
    <3>5. Said(toController, y) => On(toController, u)
      BY <3>4 DEF Said, On
    <3>2. At("checked", u) \/ At("toController", u)
      BY <3>1, <3>3, <3>5, ThePlaces
    <3> QED
      BY <1>1, <3>2 DEF OddInv, Tracked, TrackedTx, Places
  <2> QED
    BY <1>12, <2>1 DEF Arrive, u
<1>13. late \subseteq late'
  BY DEF Arrive
<1>14. \A o \in Txid : Attached(o)' => proofs'[o] = proofs[o] /\ l1'[o].tx = l1[o].tx
  BY <1>1, <1>2, <1>4, <1>5
<1>15. ParityInv'
  BY <1>4, <1>5, <1>10, <1>11, <1>12, <1>13, <1>14, NothingFrozen DEF OddInv
<1>16. Tracked' /\ BatchInv'
  BY ArriveTracked DEF OddInv, BatchInv, Arrive, checkerVars
<1> QED
  BY <1>8, <1>10, <1>15, <1>16 DEF OddInv

-----------------------------------------------------------------------------
(* The controller.                                                         *)

(* The row keeps its transaction, and what is attached stays so.           *)
RowStays(t) ==
  /\ l1'[t] # NoRow => l1[t] # NoRow /\ l1'[t].tx = l1[t].tx
  /\ Attached(t) => Attached(t)'
  /\ mempool'[t] # "None" => mempool[t] # "None" /\ l1'[t] = l1[t]

LEMMA StatusSet ==
  ASSUME TokenInv, NEW S, l1' = WithStatus(S, "Attached"), NEW t \in Txid
  PROVE  /\ t \notin S => l1'[t] = l1[t]
         /\ l1'[t] # NoRow => l1[t] # NoRow /\ l1'[t].tx = l1[t].tx
         /\ Attached(t) => Attached(t)'
         /\ t \in S /\ Present(t) => Attached(t)'
         /\ Attached(t)' => Attached(t) \/ t \in S
<1>1. CASE t \in S /\ Present(t)
  <2>1. l1'[t] = [l1[t] EXCEPT !.status = "Attached"]
    BY <1>1 DEF WithStatus, Present
  <2>2. /\ [l1[t] EXCEPT !.status = "Attached"] \in L1Row
        /\ [l1[t] EXCEPT !.status = "Attached"].tx = l1[t].tx
        /\ [l1[t] EXCEPT !.status = "Attached"].status = "Attached"
    BY <1>1 DEF TokenInv, RowsTyped, Present, L1Row, L1TxStatus
  <2>3. l1'[t] # NoRow /\ l1'[t].tx = l1[t].tx /\ l1'[t].status = "Attached"
    BY <2>1, <2>2, TxAssumption
  <2> QED
    BY <1>1, <2>3 DEF Attached, Present
<1>2. CASE ~(t \in S /\ Present(t))
  <2>1. l1'[t] = l1[t]
    BY <1>2 DEF WithStatus, Present
  <2> QED
    BY <1>2, <2>1 DEF Attached, Present
<1> QED
  BY <1>1, <1>2

LEMMA InvalidRows ==
  ASSUME TokenInv, NEW S \in SUBSET Txid, handle_invalid_txs(S, Entries(S)), NEW t \in Txid
  PROVE  RowStays(t) /\ (Attached(t)' => Attached(t))
<1>1. \/ l1'[t] = l1[t]
      \/ t \in Entries(S) /\ Present(t) /\ l1'[t] = [l1[t] EXCEPT !.status = "InvalidIssue"]
      \/ t \in Entries(S) /\ l1'[t] = NoRow
  BY DEF handle_invalid_txs, Entries, TokenInv, EntriesOpen
<1>2. t \notin S => l1'[t] = l1[t] /\ mempool'[t] = mempool[t]
  BY DEF handle_invalid_txs, Entries, MempoolDelete, MempoolSet
<1>3. t \in S => mempool'[t] = "None"
  BY DEF handle_invalid_txs, MempoolDelete, MempoolSet
<1>4. CASE l1'[t] = l1[t]
  BY <1>2, <1>3, <1>4 DEF RowStays, Attached, Present
<1>5. CASE t \in Entries(S) /\ Present(t) /\ l1'[t] = [l1[t] EXCEPT !.status = "InvalidIssue"]
  <2>1. /\ [l1[t] EXCEPT !.status = "InvalidIssue"] \in L1Row
        /\ [l1[t] EXCEPT !.status = "InvalidIssue"].tx = l1[t].tx
        /\ [l1[t] EXCEPT !.status = "InvalidIssue"].status = "InvalidIssue"
    <3>1. l1[t] \in L1Row
      BY <1>5 DEF TokenInv, RowsTyped, Present
    <3> QED
      BY <3>1 DEF L1Row, L1TxStatus
  <2>2. ~Attached(t) /\ t \in S
    BY <1>5 DEF Entries, TokenInv, EntriesOpen
  <2> QED
    BY <1>3, <1>5, <2>1, <2>2 DEF RowStays, Attached, Present
<1>6. CASE t \in Entries(S) /\ l1'[t] = NoRow
  <2>1. ~Attached(t) /\ t \in S
    BY <1>6 DEF Entries, TokenInv, EntriesOpen
  <2> QED
    BY <1>3, <1>6, <2>1 DEF RowStays, Attached, Present
<1> QED
  BY <1>1, <1>4, <1>5, <1>6

(* The freezes that the message lets through are attached, and no others.  *)
LEMMA ControllerRows ==
  ASSUME TokenInv, Tracked, OneTxPerId, ControllerStep
  PROVE  /\ \A t \in Txid : RowStays(t)
         /\ \A x \in Tx, o \in Txid : Freezes(x, o) =>
              (Attached(TxidOf[x])' <=> Attached(TxidOf[x]) \/ Says(Head(toController), x))
<1> DEFINE m == Head(toController)
<1>1. m \in ControllerMsgs
  BY ChannelTypes, HeadTail DEF ControllerStep, ControllerEvent
<1>2. ASSUME NEW x \in Tx, NEW o, Freezes(x, o)
      PROVE  IsAnnouncement(x) /\ TxidOf[x] \in Txid
  BY <1>2, TokenAssumption, TxAssumption DEF Freezes, Announcements
<1>3. CASE m.type = "ConfirmedTxs"
  <2>1. UNCHANGED <<l1, mempool>>
    BY <1>3 DEF ControllerStep, ControllerEvent, handle_confirmed_txs
  <2> QED
    BY <1>3, <2>1 DEF RowStays, Attached, Present, Says
<1>4. CASE m.type = "InvalidTxs"
  <2>1. handle_invalid_txs(m.txs, Entries(m.txs)) /\ m.txs \in SUBSET Txid
    BY <1>1, <1>4 DEF ControllerStep, ControllerEvent, ControllerMsgs
  <2>2. \A t \in Txid : RowStays(t) /\ (Attached(t)' => Attached(t))
    BY <2>1, InvalidRows
  <2> QED
    BY <1>2, <1>4, <2>2 DEF RowStays, Says
<1>5. CASE m.type = "AttachedTxs"
  <2>1. handle_attached_txs(m.txs) /\ m.txs \subseteq SpendableIds
    BY <1>1, <1>5 DEF ControllerStep, ControllerEvent, ControllerMsgs
  <2>2. l1' = WithStatus(m.txs, "Attached") /\ mempool' = MempoolDelete(m.txs)
    BY <2>1 DEF handle_attached_txs
  <2>3. ASSUME NEW t \in Txid
        PROVE  mempool'[t] # "None" => t \notin m.txs /\ mempool[t] # "None"
    BY <2>2 DEF MempoolDelete, MempoolSet
  <2>4. \A t \in Txid : RowStays(t) /\ (Attached(t)' => Attached(t) \/ t \in m.txs)
    BY <2>2, <2>3, StatusSet DEF RowStays
  <2>5. ASSUME NEW x \in Tx, NEW o \in Txid, Freezes(x, o) PROVE TxidOf[x] \notin m.txs
    BY <1>2, <2>1, <2>5 DEF SpendableIds, Ids, Spendable, OneTxPerId
  <2> QED
    BY <1>2, <1>5, <2>4, <2>5 DEF RowStays, Says
<1>6. CASE m.type = "FullyCheckedTxs"
  <2>1. m.txs \subseteq Tx
    BY <1>1, <1>6 DEF ControllerMsgs, Acceptable
  <2>2. /\ mempool' = [t \in Txid |-> IF t \in Ids(Announced(m.txs)) THEN "None"
                                      ELSE IF t \in Ids(Others(m.txs)) THEN "Attaching"
                                      ELSE mempool[t]]
        /\ l1' = WithStatus(Ids(Announced(m.txs)), "Attached")
    BY <1>6, <2>1, FullyCheckedDone
  <2>3. \A t \in Ids(m.txs) : t \in Txid /\ mempool[t] # "None"
    <3>1. \A t \in Ids(m.txs) : t \in Txid /\ Names(m, t)
      BY <1>6, <2>1, TxAssumption DEF Names, Ids
    <3> QED
      BY <3>1, ControllerTakes
  <2>4. ASSUME NEW t \in Txid
        PROVE  mempool'[t] # "None" => t \notin Ids(Announced(m.txs)) /\ mempool[t] # "None"
    <3>1. t \in Ids(Others(m.txs)) => t \in Ids(m.txs)
      BY DEF Others, Ids
    <3> QED
      BY <2>2, <2>3, <3>1
  <2>5. \A t \in Txid : /\ RowStays(t)
                        /\ Attached(t)' => Attached(t) \/ t \in Ids(Announced(m.txs))
                        /\ t \in Ids(Announced(m.txs)) /\ Present(t) => Attached(t)'
    BY <2>2, <2>4, StatusSet DEF RowStays
  <2>6. ASSUME NEW x \in Tx, NEW o \in Txid, Freezes(x, o)
        PROVE  TxidOf[x] \in Ids(Announced(m.txs)) <=> x \in m.txs
    BY <1>2, <2>1, <2>6 DEF Ids, Announced, OneTxPerId
  <2>7. ASSUME NEW x \in m.txs PROVE Present(TxidOf[x])
    <3>1. TxidOf[x] \in Ids(m.txs)
      BY <2>7 DEF Ids
    <3> QED
      BY <2>3, <3>1 DEF TokenInv, EntriesOpen
  <2>8. ASSUME NEW x \in Tx, NEW o \in Txid, Freezes(x, o)
        PROVE  Attached(TxidOf[x])' <=> Attached(TxidOf[x]) \/ Says(m, x)
    <3>1. TxidOf[x] \in Txid /\ (Says(m, x) <=> x \in m.txs)
      BY <1>2, <1>6, <2>8 DEF Says
    <3> QED
      BY <2>5, <2>6, <2>7, <2>8, <3>1 DEF RowStays
  <2> QED
    BY <2>5, <2>8
<1> QED
  BY <1>1, <1>3, <1>4, <1>5, <1>6 DEF ControllerMsgs

LEMMA ControllerOdd ==
  ASSUME TokenInv, OddInv, OneTxPerId, ControllerStep
  PROVE  OddInv'
<1>1. Tracked' /\ BatchInv'
  BY ControllerTracked DEF OddInv, BatchInv, ControllerStep, checkerVars
<1>2. \A t \in Txid : RowStays(t)
  BY ControllerRows DEF OddInv
<1>3. /\ toController # <<>> /\ toController' = Tail(toController)
      /\ late' = late /\ checked_txs' = checked_txs
      /\ proofs' = [t \in Txid |-> l1'[t] # NoRow /\ proofs[t]]
  BY DEF ControllerStep, ControllerEvent, Cascade, checkerVars
<1>4. \A x : Said(toController, x) <=> Says(Head(toController), x) \/ Said(toController', x)
  BY <1>3, ChannelTypes, Take
<1>5. \A x \in Tx, o \in Txid : Freezes(x, o) => (Passed(x)' <=> Passed(x))
  <2>1. \A x \in Tx, o \in Txid : Freezes(x, o) =>
          (Attached(TxidOf[x])' <=> Attached(TxidOf[x]) \/ Says(Head(toController), x))
    BY ControllerRows DEF OddInv
  <2> QED
    BY <1>3, <1>4, <2>1 DEF Passed
<1>6. \A t \in Txid : proofs'[t] <=> l1'[t] # NoRow /\ proofs[t]
  BY <1>3
<1>7. proofs' \in [Txid -> BOOLEAN]
  BY <1>3 DEF OddInv, ProofInv
<1>8. ProofInv'
  BY <1>2, <1>6, <1>7 DEF OddInv, ProofInv, RowStays, Present
<1>9. LateInv'
  BY <1>2, <1>3 DEF OddInv, LateInv, RowStays
<1>10. \A o \in Txid : Attached(o)' => proofs'[o] = proofs[o] /\ l1'[o].tx = l1[o].tx
  <2>1. ASSUME NEW o \in Txid, l1'[o] # NoRow PROVE proofs'[o] = proofs[o]
    BY <1>6, <1>7, <2>1 DEF OddInv, ProofInv
  <2> QED
    BY <1>2, <2>1 DEF Attached, Present, RowStays
<1>11. ParityInv'
  BY <1>2, <1>3, <1>5, <1>6, <1>9, <1>10, NothingFrozen DEF OddInv, RowStays
<1> QED
  BY <1>1, <1>8, <1>9, <1>11 DEF OddInv

-----------------------------------------------------------------------------
(* The checker.                                                            *)

LEMMA Unpassed ==
  ASSUME TokenInv, OddInv, OneTxPerId, NEW x \in Tx, x \in unchecked
  PROVE  /\ TxidOf[x] \in Txid /\ mempool[TxidOf[x]] # "None"
         /\ ~Attached(TxidOf[x]) /\ ~Passed(x)
<1> DEFINE u == TxidOf[x]
<1>1. u \in Txid /\ u \in Ids(unchecked)
  BY TxAssumption DEF Ids
<1>2. TrackedTx(u) /\ At("unchecked", u)
  BY <1>1, ThePlaces DEF OddInv, Tracked
<1>3. mempool[u] # "None" /\ ~At("checked", u) /\ ~At("toController", u)
  BY <1>2 DEF TrackedTx, Places
<1>4. ~Attached(u)
  BY <1>1, <1>3 DEF TokenInv, EntriesOpen
<1>5. x \notin checked_txs
  BY <1>3, ThePlaces DEF Ids
<1>6. ~Said(toController, x)
  <2>1. \A m : Says(m, x) => Names(m, u)
    BY DEF Says, Names, Ids
  <2> QED
    BY <1>3, <2>1, ThePlaces DEF Said, On
<1> QED
  BY <1>1, <1>3, <1>4, <1>5, <1>6 DEF Passed

(* A verdict on anything but a freeze, or against one.                     *)
LEMMA OtherVerdict ==
  ASSUME NEW x \in Tx, NEW valid \in BOOLEAN, Verdict(x, valid), CheckNext(x),
         valid => Body[x].type # "TxFreeze", \A t \in Txid : Attached(t)' <=> Attached(t)
  PROVE  \A y \in Tx, o \in Txid : Freezes(y, o) => (Passed(y)' <=> Passed(y))
<1>1. ASSUME NEW y \in Tx, NEW o \in Txid, Freezes(y, o)
      PROVE  y \in checked_txs' <=> y \in checked_txs
  BY <1>1 DEF Verdict, Freezes
<1>2. toController' = toController /\ \A y \in Tx : TxidOf[y] \in Txid
  BY TxAssumption DEF CheckNext, channels
<1> QED
  BY <1>1, <1>2 DEF Passed

(* insert_lrc20_transaction of an issuance that is already stored.         *)
LEMMA IssuanceOdd ==
  ASSUME TokenInv, OddInv, OneTxPerId, NEW x \in Tx, CheckNext(x), Body[x].type = "Issue",
         Insert(x), Verdict(x, TRUE)
  PROVE  ProofInv' /\ LateInv' /\ ParityInv'
<1> DEFINE u == TxidOf[x]
<1>1. u \in Txid /\ mempool[u] # "None" /\ ~Attached(u)
  BY Unpassed DEF CheckNext
<1>2. /\ l1'[u] = [tx |-> x, status |-> "Handling"]
      /\ \A t \in Txid : t # u => l1'[t] = l1[t]
  BY Inserting
<1>3. l1'[u].tx = x /\ l1'[u].status = "Handling" /\ l1'[u] # NoRow
  <2>1. [tx |-> x, status |-> "Handling"] \in L1Row
    BY DEF L1Row, L1TxStatus
  <2> QED
    BY SMT, <1>2, <2>1, TxAssumption
<1>4. Spendable(x)
  BY TokenAssumption DEF Spendable, Announcements
<1> HIDE DEF u
<1>5. \A o \in Txid : Attached(o)' <=> Attached(o)
  BY <1>1, <1>2, <1>3 DEF Attached, Present
<1>6. /\ proofs' \in [Txid -> BOOLEAN] /\ ~proofs'[u]
      /\ \A o \in Txid : o # u => proofs'[o] = proofs[o]
  BY <1>1, <1>4 DEF Insert, OddInv, ProofInv, u
<1>7. mempool' = mempool /\ late' = late
  BY DEF CheckNext
<1>8. ProofInv'
  <2>1. ASSUME NEW t \in Txid
        PROVE  /\ mempool'[t] # "None" => l1'[t].status # "InvalidIssue"
               /\ proofs'[t] => l1'[t] # NoRow /\ Spendable(l1'[t].tx)
    <3>1. CASE t = u
      BY <1>3, <1>6, <3>1
    <3>2. CASE t # u
      BY <1>2, <1>6, <1>7, <3>2 DEF OddInv, ProofInv, Present
    <3> QED
      BY <3>1, <3>2
  <2> QED
    BY <1>6, <2>1 DEF ProofInv, Present
<1>9. LateInv'
  BY <1>5, <1>7 DEF OddInv, LateInv
<1>10. \A y \in Tx, o \in Txid : Freezes(y, o) => (Passed(y)' <=> Passed(y))
  BY <1>5, OtherVerdict
<1>11. \A o \in Txid : Attached(o)' => proofs'[o] = proofs[o] /\ l1'[o].tx = l1[o].tx
  BY <1>1, <1>2, <1>5, <1>6
<1>12. \A o \in Txid : proofs'[o] => proofs[o]
  BY <1>6
<1>13. ParityInv'
  BY <1>5, <1>7, <1>9, <1>10, <1>11, <1>12, NothingFrozen DEF OddInv
<1> QED
  BY <1>8, <1>9, <1>13

LEMMA OddFlips ==
  ASSUME NEW S, IsFiniteSet(S), NEW t, t \notin S
  PROVE  IsFiniteSet(S \cup {t}) /\ (Odd(S \cup {t}) <=> ~Odd(S))
<1>1. /\ IsFiniteSet(S \cup {t}) /\ Cardinality(S \cup {t}) = Cardinality(S) + 1
      /\ Cardinality(S) \in Nat
  BY FS_AddElement, FS_CardinalityType
<1>2. \A n \in Nat : (n + 1) % 2 = 1 <=> ~(n % 2 = 1)
  BY SMT
<1> QED
  BY <1>1, <1>2 DEF Odd

(* A freeze that passes the check.  When it came after its target was      *)
(* attached the target still is, with its proof.                           *)
LEMMA FreezeOdd ==
  ASSUME TokenInv, OddInv, OneTxPerId, NEW x \in Tx, CheckNext(x), Body[x].type = "TxFreeze",
         Verdict(x, TRUE), proofs' = toggle_proof_freeze(Body[x].target), UNCHANGED l1
  PROVE  ProofInv' /\ LateInv' /\ ParityInv'
<1> DEFINE u == TxidOf[x]
           target == Body[x].target
<1>1. u \in Txid /\ ~Passed(x) /\ checked_txs' = checked_txs \cup {x}
  BY Unpassed DEF CheckNext, Verdict
<1>2. mempool' = mempool /\ late' = late /\ toController' = toController
  BY DEF CheckNext, channels
<1>3. \A t : Attached(t)' <=> Attached(t)
  BY DEF Attached, Present
<1>4. \A y \in Tx : Passed(y)' <=> Passed(y) \/ y = x
  BY <1>1, <1>2, <1>3 DEF Passed
<1>5. /\ proofs' \in [Txid -> BOOLEAN]
      /\ \A o \in Txid : o # target => proofs'[o] = proofs[o]
      /\ \A o \in Txid : o = target => 
           IF Present(o) /\ Spendable(l1[o].tx) THEN proofs'[o] <=> ~proofs[o]
           ELSE proofs'[o] = proofs[o]
  BY DEF toggle_proof_freeze, OddInv, ProofInv
<1> HIDE DEF u, target
<1>6. ProofInv'
  <2>1. ASSUME NEW t \in Txid
        PROVE  /\ mempool'[t] # "None" => l1'[t].status # "InvalidIssue"
               /\ proofs'[t] => l1'[t] # NoRow /\ Spendable(l1'[t].tx)
    BY <1>2, <1>5 DEF OddInv, ProofInv, Present
  <2> QED
    BY <1>5, <2>1 DEF ProofInv, Present
<1>7. LateInv'
  BY <1>2, <1>3 DEF OddInv, LateInv
<1>8. ASSUME NEW o \in Txid, Applied(o)' \subseteq late', Attached(o)' => Spendable(l1'[o].tx)
      PROVE  IsFiniteSet(Applied(o)') /\ (proofs'[o] <=> Odd(Applied(o)'))
  <2>1. CASE o # target
    <3>1. ~Freezes(x, o)
      BY <2>1 DEF Freezes, target
    <3>2. Applied(o)' = Applied(o)
      BY <1>4, <3>1 DEF Applied
    <3>3. IsFiniteSet(Applied(o)) /\ (proofs[o] <=> Odd(Applied(o)))
      BY <1>2, <1>3, <1>8, <3>2 DEF OddInv, ParityInv, ParityTx
    <3> QED
      BY <1>5, <2>1, <3>2, <3>3
  <2>2. CASE o = target
    <3>1. Freezes(x, o)
      BY <2>2 DEF Freezes, target
    <3>2. ASSUME NEW t PROVE t \in Applied(o)' <=> t \in Applied(o) \/ t = u
      BY <1>1, <1>4, <3>1 DEF Applied, u
    <3>3. Applied(o)' = Applied(o) \cup {u}
      BY <3>2
    <3>4. u \notin Applied(o)
      BY <1>1 DEF Applied, OneTxPerId, u
    <3>5. u \in late /\ Applied(o) \subseteq late
      BY <1>2, <1>8, <3>3
    <3>6. Attached(o)
      BY <3>1, <3>5 DEF OddInv, LateInv, u
    <3>7. Spendable(l1[o].tx) /\ Present(o)
      BY <1>3, <1>8, <3>6 DEF Attached
    <3>8. IsFiniteSet(Applied(o)) /\ (proofs[o] <=> Odd(Applied(o)))
      BY <3>5, <3>7 DEF OddInv, ParityInv, ParityTx
    <3>9. /\ IsFiniteSet(Applied(o) \cup {u})
          /\ Odd(Applied(o) \cup {u}) <=> ~Odd(Applied(o))
      BY <3>4, <3>8, OddFlips
    <3>10. proofs'[o] <=> ~proofs[o]
      BY <1>5, <2>2, <3>7
    <3> QED
      BY <3>3, <3>8, <3>9, <3>10
  <2> QED
    BY <2>1, <2>2
<1>9. ParityInv'
  BY <1>8 DEF ParityInv, ParityTx, Odd, Spendable
<1> QED
  BY <1>6, <1>7, <1>9

LEMMA CheckNextOdd ==
  ASSUME TokenInv, OddInv, OneTxPerId, NEW x \in Tx, CheckNext(x)
  PROVE  OddInv'
<1>1. PICK info \in TokenInfos(Body[x].token) : check_lrc20_transaction(x, info)
  BY DEF CheckNext
<1>2. checking' = TRUE /\ mempool' = mempool /\ late' = late /\ checking
  BY DEF CheckNext
<1>3. BatchInv'
  BY <1>2 DEF BatchInv
<1>4. ASSUME NEW valid \in BOOLEAN, Verdict(x, valid), UNCHANGED <<l1, proofs>>,
             valid => Body[x].type # "TxFreeze"
      PROVE  OddInv'
  <2>1. \A t \in Txid : Attached(t)' <=> Attached(t)
    BY <1>4 DEF Attached, Present
  <2>2. \A y \in Tx, o \in Txid : Freezes(y, o) => (Passed(y)' <=> Passed(y))
    BY <1>4, <2>1, OtherVerdict
  <2>3. ProofInv' /\ LateInv' /\ ParityInv'
    BY <1>2, <1>4, <2>2, TablesStay DEF OddInv
  <2>4. Tracked'
    BY <1>4, CheckNextTracked DEF OddInv
  <2> QED
    BY <1>3, <2>3, <2>4 DEF OddInv
<1>5. CASE Body[x].type = "Issue" /\ check_issuance(x, info)
  <2>1. CASE check_issue_announcement(x, info)
    <3>1. Insert(x) /\ Verdict(x, TRUE)
      BY <1>5, <2>1 DEF check_issuance, Verdict
    <3>2. Tracked' /\ ProofInv' /\ LateInv' /\ ParityInv'
      BY <1>5, <3>1, CheckNextTracked, IssuanceOdd DEF OddInv
    <3> QED
      BY <1>3, <3>2 DEF OddInv
  <2>2. CASE ~check_issue_announcement(x, info)
    <3>1. Verdict(x, FALSE) /\ UNCHANGED <<l1, proofs>>
      BY <1>5, <2>2 DEF check_issuance, Verdict, tables
    <3> QED
      BY <1>4, <3>1
  <2> QED
    BY <2>1, <2>2
<1>6. CASE IsAnnouncement(x) /\ CheckAnnouncement(x, info)
  <2>1. CASE Body[x].type = "TxFreeze" /\ check_announcements(x, info)
    <3>1. /\ Verdict(x, TRUE) /\ proofs' = toggle_proof_freeze(Body[x].target)
          /\ UNCHANGED l1
      BY <1>6, <2>1 DEF CheckAnnouncement, Verdict
    <3>2. Tracked' /\ ProofInv' /\ LateInv' /\ ParityInv'
      BY <2>1, <3>1, CheckNextTracked, FreezeOdd DEF OddInv
    <3> QED
      BY <1>3, <3>2 DEF OddInv
  <2>2. CASE ~check_announcements(x, info)
    <3>1. Verdict(x, FALSE) /\ UNCHANGED <<l1, proofs>>
      BY <1>6, <2>2 DEF CheckAnnouncement, Verdict
    <3> QED
      BY <1>4, <3>1
  <2>3. CASE Body[x].type # "TxFreeze" /\ check_announcements(x, info)
    <3>1. Verdict(x, TRUE) /\ UNCHANGED <<l1, proofs>>
      BY <1>6, <2>3 DEF CheckAnnouncement, Verdict
    <3> QED
      BY <1>4, <2>3, <3>1
  <2> QED
    BY <2>1, <2>2, <2>3
<1>7. CASE Body[x].type = "Transfer" /\ Verdict(x, check_transfer(x, info)) /\ UNCHANGED tables
  <2>1. Verdict(x, TRUE) \/ Verdict(x, FALSE)
    BY <1>7 DEF Verdict
  <2>2. UNCHANGED <<l1, proofs>> /\ Body[x].type # "TxFreeze"
    BY <1>7 DEF tables
  <2> QED
    BY <1>4, <2>1, <2>2
<1> QED
  BY <1>1, <1>5, <1>6, <1>7 DEF check_lrc20_transaction

-----------------------------------------------------------------------------

LEMMA FreezeInvInit ==
  ASSUME Init
  PROVE  FreezeInv
<1>1. Ids({}) = {}
  BY DEF Ids
<1>2. \A t : ~Attached(t) \/ t \notin Txid
  BY DEF Init, StorageInit, Attached, Present
<1>3. \A t : Once(toController, t) /\ Once(toChecker, t) /\ Once(toGraph, t)
  BY NothingSaid DEF Init, ChannelsInit
<1>4. \A t, p : p \in Places => ~At(p, t)
  BY <1>1, ThePlaces, NothingSaid DEF Init, ChannelsInit, Places
<1>5. Tracked
  BY <1>3, <1>4 DEF Tracked, TrackedTx
<1>6. BatchInv /\ ProofInv
  BY DEF Init, StorageInit, BatchInv, ProofInv
<1>7. LateInv
  BY DEF Init, LateInv
<1>8. ASSUME NEW o \in Txid PROVE Applied(o) = {} /\ ~proofs[o]
  BY <1>2, NothingSaid, TxAssumption DEF Init, ChannelsInit, Applied, Passed
<1>9. IsFiniteSet({}) /\ ~Odd({})
  <2>1. Cardinality({}) = 0 /\ IsFiniteSet({})
    BY FS_EmptySet
  <2> QED
    BY SMT, <2>1 DEF Odd
<1>10. ParityInv
  BY <1>8, <1>9 DEF ParityInv, ParityTx
<1>11. crashes \in Nat
  BY SMT DEF Init
<1> QED
  BY <1>5, <1>6, <1>7, <1>10, <1>11 DEF FreezeInv, OddInv

LEMMA FreezeInvNext ==
  ASSUME TokenInv, FreezeInv, OneTxPerId, [Next]_vars
  PROVE  FreezeInv'
<1>1. CASE Crash
  <2>1. crashes' = crashes + 1
    BY <1>1 DEF Crash
  <2>2. crashes' \in Nat /\ crashes' # 0
    BY SMT, <2>1 DEF FreezeInv
  <2> QED
    BY <2>2 DEF FreezeInv
<1>2. CASE crashes' = crashes /\ (OddInv => OddInv')
  BY <1>2 DEF FreezeInv
<1>3. CASE UNCHANGED vars
  <2>1. UNCHANGED <<l1, mempool, proofs, late, toController, toChecker, toGraph, waiting, checking,
                    unchecked, checked_txs, invalid_txs, attaching, crashes>>
    BY <1>3 DEF vars, tables, channels, checkerVars
  <2>2. ASSUME OddInv PROVE OddInv'
    <3>1. \A x \in Tx, o \in Txid : Freezes(x, o) => (Passed(x)' <=> Passed(x))
      BY <2>1 DEF Passed, Attached, Present
    <3>2. ProofInv' /\ LateInv' /\ ParityInv'
      BY <2>1, <2>2, <3>1, TablesStay DEF OddInv
    <3>3. \A t, p : p \in Places => (At(p, t)' <=> At(p, t))
      BY <2>1, ThePlaces, ThePlacesNext DEF Places
    <3>4. Tracked'
      BY <2>1, <2>2, <3>3 DEF OddInv, Tracked, TrackedTx
    <3> QED
      BY <2>1, <2>2, <3>2, <3>4 DEF OddInv, BatchInv
  <2> QED
    BY <1>2, <2>1, <2>2
<1>4. ASSUME NEW x \in Tx, Arrive(x) PROVE FreezeInv'
  BY <1>2, <1>4, ArriveOdd DEF Arrive
<1>5. ASSUME NEW S \in SUBSET waiting, Confirm(S) PROVE FreezeInv'
  BY <1>2, <1>5, ConfirmOdd DEF Confirm
<1>6. CASE check_txs_full
  BY <1>2, <1>6, check_txs_fullOdd DEF check_txs_full
<1>7. ASSUME NEW x \in Tx, CheckNext(x) PROVE FreezeInv'
  BY <1>2, <1>7, CheckNextOdd DEF CheckNext
<1>8. CASE FullCheckDone
  BY <1>2, <1>8, FullCheckDoneOdd DEF FullCheckDone
<1>9. CASE ControllerStep
  BY <1>2, <1>9, ControllerOdd DEF ControllerStep
<1>10. CASE GraphTakes
  BY <1>2, <1>10, GraphTakesOdd DEF GraphTakes
<1>11. ASSUME NEW t \in Txid, GraphAttaches(t) PROVE FreezeInv'
  BY <1>2, <1>11, GraphAttachesOdd DEF GraphAttaches
<1> QED
  BY <1>1, <1>3, <1>4, <1>5, <1>6, <1>7, <1>8, <1>9, <1>10, <1>11 DEF Next

(* Between two batches of the checker, all that has taken effect is        *)
(* attached.                                                               *)
LEMMA QuietApplied ==
  ASSUME TokenInv, OddInv, OneTxPerId, Quiet, NEW o \in Txid
  PROVE  Applied(o) = FreezesOf(o)
<1>1. checked_txs = {} /\ \A x : ~Said(toController, x)
  BY NothingSaid DEF Quiet, OddInv, BatchInv
<1>2. ASSUME NEW t \in Applied(o) PROVE t \in FreezesOf(o)
  <2>1. PICK x \in Tx : TxidOf[x] = t /\ Freezes(x, o) /\ Passed(x)
    BY <1>2 DEF Applied
  <2>2. Attached(t) /\ t \in Txid
    BY <1>1, <2>1, TxAssumption DEF Passed
  <2>3. l1[t].tx \in Tx /\ TxidOf[l1[t].tx] = t
    BY <2>2 DEF TokenInv, RowsTyped, Attached, Present, L1Row
  <2>4. l1[t].tx = x
    BY <2>1, <2>3 DEF OneTxPerId
  <2> QED
    BY <2>1, <2>2, <2>4 DEF FreezesOf, Freezes, Stored
<1>3. ASSUME NEW t \in FreezesOf(o) PROVE t \in Applied(o)
  <2>1. t \in Txid /\ Attached(t) /\ Freezes(l1[t].tx, o)
    BY <1>3 DEF FreezesOf, Freezes, Stored
  <2>2. l1[t].tx \in Tx /\ TxidOf[l1[t].tx] = t
    BY <2>1 DEF TokenInv, RowsTyped, Attached, Present, L1Row
  <2> QED
    BY <2>1, <2>2 DEF Applied, Passed
<1> QED
  BY <1>2, <1>3

(* is_frozen of an output that was attached before its freezes came is     *)
(* what an odd number of accepted freezes makes of it: the check toggles   *)
(* it once for each of them, and what it has let through the controller    *)
(* attaches, whatever is stored, rejected or handed over in between.       *)
THEOREM FrozenByOddFreezes ==
  ASSUME OneTxPerId
  PROVE  Spec => []FrozenIsOddFreezes
<1>1. ASSUME TokenInv, FreezeInv PROVE FrozenIsOddFreezes
  <2>1. ASSUME Quiet, crashes = 0, NEW o \in Txid, Attached(o), Spendable(l1[o].tx),
               FreezesOf(o) \subseteq late
        PROVE  proofs[o] <=> Cardinality(FreezesOf(o)) % 2 = 1
    <3>1. OddInv
      BY <1>1, <2>1 DEF FreezeInv
    <3>2. Applied(o) = FreezesOf(o)
      BY <1>1, <2>1, <3>1, QuietApplied
    <3>3. proofs[o] <=> Odd(Applied(o))
      BY <2>1, <3>1, <3>2 DEF OddInv, ParityInv, ParityTx
    <3> QED
      BY <3>2, <3>3 DEF Odd
  <2> QED
    BY <2>1 DEF FrozenIsOddFreezes
<1>2. Init => TokenInv /\ FreezeInv
  BY TokenInvInit, FreezeInvInit
<1>3. TokenInv /\ FreezeInv /\ [Next]_vars => (TokenInv /\ FreezeInv)'
  BY TokenInvNext, FreezeInvNext
<1> QED
  BY <1>1, <1>2, <1>3, PTL DEF Spec

=============================================================================
