------------------------------ MODULE MCAttach ------------------------------
(* Small transaction graphs for the attachment pipeline.                   *)
EXTENDS AttachPipeline, TLC

CONSTANTS a, b, c, i, n, s

(* An issuance a, a transfer b of it, and a transfer c of both.            *)
Diamond == (a :> {}) @@ (b :> {a}) @@ (c :> {a, b})

NoEmpty == [x \in Tx |-> {}]

IssueFirst == [x \in Tx |-> IF x = a THEN "Issue" ELSE "Transfer"]

SameId == [x \in Tx |-> x]

(* Here a is an exit, s an announcement, and i an issuance with the id of  *)
(* its announcement n.                                                     *)
ExitKinds ==
  [x \in Tx |-> CASE x = a -> "SparkExit" [] x = s -> "Announcement"
                  [] x = n -> "IssueAnnouncement" [] x = i -> "Issue" [] OTHER -> "Transfer"]

SharedId == [x \in Tx |-> IF x = i THEN n ELSE x]

MixedParents == [x \in Tx |-> CASE x = b -> {a} [] x = c -> {a, b} [] OTHER -> {}]

MixedEmpty == [x \in Tx |-> IF x = c THEN {a} ELSE {}]

=============================================================================
