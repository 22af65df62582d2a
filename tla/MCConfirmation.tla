--------------------------- MODULE MCConfirmation ---------------------------
(* Small block trees for the confirmation pipeline.                        *)
EXTENDS ConfirmationPipeline, TLC

CONSTANTS t1, t2

(* A main chain a1..a3 and a longer fork b2..b5 that leaves it after a1.   *)
ForkBlocks == {"g", "a1", "a2", "a3", "b2", "b3", "b4", "b5"}

ForkParent ==
  ("g" :> "none") @@ ("a1" :> "g") @@ ("a2" :> "a1") @@ ("a3" :> "a2")
    @@ ("b2" :> "a1") @@ ("b3" :> "b2") @@ ("b4" :> "b3") @@ ("b5" :> "b4")

ForkHeight[b \in ForkBlocks] == IF b = "g" THEN 0 ELSE ForkHeight[ForkParent[b]] + 1

ForkBranch[b \in ForkBlocks] ==
  IF b = "g" THEN {b} ELSE ForkBranch[ForkParent[b]] \cup {b}

(* t1 moves to another block in the fork, t2 is only in the fork.          *)
ForkTxs ==
  [b \in ForkBlocks |-> Txid \cap (CASE b = "a2" -> {t1} [] b = "b3" -> {t1, t2}
                                    [] OTHER -> {})]

SameId == [x \in Tx |-> x]

Unset == -1

AllTransfers == [x \in Tx |-> "Transfer"]

=============================================================================
