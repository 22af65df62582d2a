--------------------------- MODULE NodeParameters ---------------------------
(***************************************************************************)
(* What the services of a node have in common: the L1 transactions they    *)
(* talk about, by id, and the configured number of confirmations           *)
(* (indexer.confirmations_number, a u8 that is at least 1).                *)
(***************************************************************************)
EXTENDS Integers

CONSTANTS Txid, confirmations_number

ASSUME ConfirmationsAssumption == confirmations_number \in Nat \ {0}

=============================================================================
