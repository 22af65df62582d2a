------------------------------ MODULE Channels ------------------------------
(***************************************************************************)
(* The typed channels of the event bus between the services that handle L1 *)
(* transactions, the messages they carry, and the cancellation token that  *)
(* all services share.  A channel is FIFO and loses nothing; its capacity  *)
(* (DEFAULT_CHANNEL_SIZE = 1000 messages) is not reached here.             *)
(***************************************************************************)
EXTENDS Sequences

VARIABLES
  toController,   \* ControllerMessage
  toChecker,      \* TxCheckerMessage
  toGraph,        \* GraphBuilderMessage
  toConfirm,      \* TxConfirmMessage
  toIndexer,      \* IndexerMessage
  cancelled       \* the CancellationToken has been cancelled

channels == <<toController, toChecker, toGraph, toConfirm, toIndexer>>

(* EventBus::send.                                                         *)
Send(channel, message) == Append(channel, message)

(* Several handlers send a message only when it carries something.         *)
SendUnlessEmpty(channel, message) ==
  IF message.txs = {} THEN channel ELSE Send(channel, message)

-----------------------------------------------------------------------------
(* ControllerMessage.                                                      *)
InitializeTxs(S)       == [type |-> "InitializeTxs", txs |-> S]
PartiallyCheckedTxs(S) == [type |-> "PartiallyCheckedTxs", txs |-> S]
FullyCheckedTxs(S)     == [type |-> "FullyCheckedTxs", txs |-> S]
InvalidTxs(S)          == [type |-> "InvalidTxs", txs |-> S]
MinedTxs(S)            == [type |-> "MinedTxs", txs |-> S]
ConfirmedTxs(S)        == [type |-> "ConfirmedTxs", txs |-> S]
AttachedTxs(S)         == [type |-> "AttachedTxs", txs |-> S]
Reorganization(S, h)   == [type |-> "Reorganization", txs |-> S, height |-> h]

(* TxCheckerMessage, GraphBuilderMessage and TxConfirmMessage.             *)
IsolatedCheck(S) == [type |-> "IsolatedCheck", txs |-> S]
FullCheck(S)     == [type |-> "FullCheck", txs |-> S]
CheckedTxs(S)    == [type |-> "CheckedTxs", txs |-> S]
Txs(S)           == [type |-> "Txs", txs |-> S]
BlockMsg(b)      == [type |-> "Block", block |-> b]

(* The message a service handles next has the given type.                  *)
Next1(channel, type) == channel # <<>> /\ Head(channel).type = type

ChannelsInit ==
  /\ toController = <<>>
  /\ toChecker = <<>>
  /\ toGraph = <<>>
  /\ toConfirm = <<>>
  /\ toIndexer = <<>>
  /\ cancelled = FALSE

=============================================================================
