----------------------------- MODULE TxLifecycle -----------------------------
(***************************************************************************)
(* What a node promises about the stages of an L1 transaction, whatever    *)
(* services, queues and crashes bring it about: the transaction flow of    *)
(* docs/README.md.                                                         *)
(***************************************************************************)
CONSTANT Txid

VARIABLE stage

Stages == {"absent", "Initialized", "WaitingMined", "Mined", "Attaching",
           "attached", "rejected"}

(* A transaction is checked by itself, mined, confirmed and fully checked, *)
(* and attached.  Either check may reject it; a rejected issuance keeps    *)
(* its row and may be handed in again.  An announcement is done once it is *)
(* fully checked.                                                          *)
Moves ==
  {<<"absent", "Initialized">>, <<"Initialized", "WaitingMined">>,
   <<"WaitingMined", "Mined">>, <<"Mined", "Attaching">>,
   <<"Attaching", "attached">>,
   <<"Mined", "attached">>,
   <<"Initialized", "absent">>, <<"Initialized", "rejected">>,
   <<"Mined", "absent">>, <<"Mined", "rejected">>,
   <<"rejected", "Initialized">>}

Init == stage = [t \in Txid |-> "absent"]

Next ==
  /\ stage' \in [Txid -> Stages]
  /\ \A t \in Txid : stage'[t] = stage[t] \/ <<stage[t], stage'[t]>> \in Moves

Spec == Init /\ [][Next]_stage

=============================================================================
