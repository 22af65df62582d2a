------------------------------ MODULE MCTokens ------------------------------
(* One token, its issuer and another key.                                  *)
EXTENDS TokenRules, TLC

CONSTANTS i, k, ann, ann2, iss, tx, frz, unf, logo, own, pkf, bad, isa

Plain(type) ==
  [type |-> type, token |-> "T", signers |-> {i}, spends |-> {},
   spenders |-> {}, target |-> "none", amount |-> 1, freezable |-> TRUE]

(* ann announces the token, ann2 is such an announcement by the other key; *)
(* isa announces an issuance, iss is one and tx a transfer of it; frz and  *)
(* unf freeze iss, the second takes it back; bad is one by the other key,  *)
(* pkf freezes that key, and own hands the token over to it.               *)
TokenBody ==
  [x \in Tx |->
     CASE x = ann  -> Plain("TokenPubkey")
       [] x = ann2 -> [Plain("TokenPubkey") EXCEPT !.signers = {k}]
       [] x = isa  -> [Plain("IssueAnnouncement") EXCEPT !.signers = {k}]
       [] x = iss  -> Plain("Issue")
       [] x = tx   -> [Plain("Transfer") EXCEPT !.spends = {iss}, !.spenders = {k}]
       [] x = frz  -> [Plain("TxFreeze") EXCEPT !.target = iss]
       [] x = unf  -> [Plain("TxFreeze") EXCEPT !.target = iss]
       [] x = bad  -> [Plain("TxFreeze") EXCEPT !.target = iss, !.signers = {k}]
       [] x = logo -> Plain("TokenLogo")
       [] x = own  -> [Plain("TransferOwnership") EXCEPT !.target = k]
       [] x = pkf  -> [Plain("PubkeyFreeze") EXCEPT !.target = k, !.signers = {k}]]

TokenKinds ==
  [x \in Tx |-> CASE x = iss -> "Issue" [] x = isa -> "IssueAnnouncement"
                  [] x = tx -> "Transfer" [] OTHER -> "Announcement"]

SameId == [x \in Tx |-> x]

(* frz and unf differ in nothing.                                         *)
Freezes == Permutations({frz, unf})

IssuerKey == ("T" :> i)

=============================================================================
