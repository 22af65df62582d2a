----------------------------- MODULE SparkFlow -----------------------------
(***************************************************************************)
(* A node's way with Spark transactions: operators send signatures over    *)
(* the RPC and wait for the answer, a peer answers requests for missing    *)
(* ones, the controller stores what is new before the checker has seen it, *)
(* the checker counts signatures and secrets and lets waiting exits go on, *)
(* SparkGraphBuilder attaches.  The checker awaits the storage between     *)
(* reading a transaction back and setting its status, and the controller   *)
(* may insert another one meanwhile.                                       *)
(*                                                                         *)
(* External: the operators.  Each signs at most one transfer of an output, *)
(* and reveals the secrets of a transfer's inputs once enough have signed. *)
(***************************************************************************)
EXTENDS SparkRpc

CONSTANTS
  PeerCreated,     \* what a peer has, in the order of its insertion there
  max_inv_size,    \* entries of an inventory
  FreezeRequests,  \* [owner, token] that the issuer signed
  FirstFinal,      \* the sets of transactions that may be final at the start
  MaxEvents, MaxQueue, MaxCalls   \* bounds

(* What is final at the start was found and signed, and has its parents.   *)
ASSUME SparkFlowAssumption ==
  \A S \in FirstFinal : \A h \in S :
    /\ h \in SparkHash /\ Outputs[h] # <<>>
    /\ Cardinality(OperatorsOf[h]) >= SPARK_THRESHOLD
    /\ \A l \in Spent(h) : l \in Leaf /\ l[1] \in S

VARIABLES
  toController, toChecker,   \* the channels
  calls,         \* an operator's request in progress
  signed,        \* what an operator has signed: [tx, op, secrets]
  job,           \* the SparkSignatureCheck or FullCheck in progress
  down,          \* the checker has stopped
  exits,         \* how far an exit has come
  deps,          \* SparkGraphBuilder: the parents a transaction waits for
  left           \* what is left of the bounds on the environment

queues == <<toController, toChecker>>
flowVars == <<sparkRows, spark_queue, queues, calls, signed, job, down, exits,
              deps, left>>

NoCall == [stage |-> "idle"]
NoJob  == [stage |-> "idle"]

Init ==
  /\ \E S \in FirstFinal : StorageInit(S)
  /\ spark_queue = [h \in SparkHash |-> None]
  /\ toController = <<>> /\ toChecker = <<>>
  /\ calls = [o \in Operator |-> NoCall]
  /\ signed = {}
  /\ job = NoJob
  /\ down = FALSE
  /\ exits = [e \in Exit |-> "mempool"]
  /\ deps = [h \in SparkHash |-> {}]
  /\ left = [events |-> MaxEvents, calls |-> MaxCalls]

-----------------------------------------------------------------------------
(* Messages.                                                               *)

NewSparkTxs(txs, from) == [type |-> "NewSparkTxs", txs |-> txs, new |-> <<>>, from |-> from]
Signatures(sigs, from) == [type |-> "Signatures", sigs |-> sigs, from |-> from]
SparkCheck(txs, from)  == [type |-> "SparkCheck", txs |-> txs, from |-> from]
CheckedSparkTxs(S)     == [type |-> "CheckedSparkTxs", txs |-> S]
FreezeTokens(r)        == [type |-> "FreezeTokens", request |-> r]
FullCheck(e)           == [type |-> "FullCheck", exits |-> e]

IsNext(channel, type) == channel # <<>> /\ Head(channel).type = type

(* The answer to a request, when there is one that waits for it.  Only a   *)
(* transaction that was found valid has the operator go on.                *)
Reply(from, answer) ==
  IF from \in Operator /\ calls[from].stage \in {"tx", "signature"}
  THEN [calls EXCEPT ![from] = IF answer /\ @.stage = "tx" THEN [@ EXCEPT !.stage = "valid"]
                               ELSE NoCall]
  ELSE calls

-----------------------------------------------------------------------------
(* send_spark_signature, in two parts: up to the wait for the check of the *)
(* transaction, and up to the wait for that of the signature.              *)

Signature(h, o, s) == [tx |-> h, op |-> o, secrets |-> s]

MaySign(h, o, s) ==
  /\ o \in OperatorsOf[h]
  /\ Signature(h, o, s) \notin signed
  /\ \A sig \in signed : sig.op = o /\ sig.tx # h => Spent(sig.tx) \cap Spent(h) = {}
  /\ s => /\ h \notin Mint
          /\ Cardinality({o} \cup {sig.op : sig \in {g \in signed : g.tx = h}})
               >= SPARK_THRESHOLD

send_spark_signature(h, o, s) ==
  /\ left.calls > 0 /\ Len(toController) < MaxQueue
  /\ calls[o] = NoCall
  /\ MaySign(h, o, s)
  /\ signed' = signed \cup {Signature(h, o, s)}
  /\ left' = [left EXCEPT !.calls = @ - 1]
  /\ \/ /\ ~SupplyLeft(h)
        /\ UNCHANGED <<toController, calls>>
     \/ /\ SupplyLeft(h)
        /\ toController' = Append(toController,
             IF Found(h) THEN Signatures(<<Signature(h, o, s)>>, o) ELSE NewSparkTxs(<<h>>, o))
        /\ calls' = [calls EXCEPT ![o] = [stage |-> IF Found(h) THEN "signature" ELSE "tx",
                                          sig |-> Signature(h, o, s)]]
  /\ UNCHANGED <<sparkRows, spark_queue, toChecker, job, down, exits, deps>>

(* The transaction is valid; the answer to the signature ends the request. *)
SignatureFollows(o) ==
  /\ calls[o].stage = "valid"
  /\ toController' = Append(toController, Signatures(<<calls[o].sig>>, o))
  /\ calls' = [calls EXCEPT ![o].stage = "signature"]
  /\ UNCHANGED <<sparkRows, spark_queue, toChecker, signed, job, down, exits, deps, left>>

freeze_tokens(r) ==
  /\ left.events > 0 /\ Len(toController) < MaxQueue
  /\ MayFreeze(r.token)
  /\ left' = [left EXCEPT !.events = @ - 1]
  /\ toController' = Append(toController, FreezeTokens(r))
  /\ UNCHANGED <<sparkRows, spark_queue, toChecker, calls, signed, job, down, exits, deps>>

-----------------------------------------------------------------------------
(* SparkGraphBuilder.  The storage has every transaction that was checked, *)
(* so a parent in the batch is as good as one that is stored.  The queue   *)
(* holds those that waited for what was attached, level by level.          *)

WaitsFor(h) == deps[h] \cup {p \in {l[1] : l \in Spent(h)} : ~HasRow(p)}

(* remove_attached_parents leaves nothing.                                 *)
Released(h) == \A p \in deps[h] : HasRow(p)

AttachedWith(txs) ==
  LET level[n \in Nat] ==
        IF n = 0 THEN {h \in txs : WaitsFor(h) = {}}
        ELSE level[n - 1] \cup {h \in SparkHash : deps[h] \cap level[n - 1] # {} /\ Released(h)}
  IN  level[Cardinality(SparkHash)]

attach_spark_txs(txs) ==
  deps' = [h \in SparkHash |-> IF h \in AttachedWith(txs) THEN {}
                               ELSE IF h \in txs THEN WaitsFor(h) ELSE deps[h]]

(* The channel to SparkGraphBuilder is left out: all that it looks at is   *)
(* whether rows exist, and they stay.                                      *)
handle_checked_spark_txs ==
  /\ IsNext(toController, "CheckedSparkTxs")
  /\ toController' = Tail(toController)
  /\ attach_spark_txs(Head(toController).txs)
  /\ UNCHANGED <<sparkRows, spark_queue, toChecker, calls, signed, job, down, exits, left>>

-----------------------------------------------------------------------------
(* The controller.                                                         *)

(* One turn of the loop of handle_new_spark_txs.  A transaction that       *)
(* cannot be inserted ends it: what was inserted stays, nothing is sent to *)
(* the checker, and the callback is dropped.                               *)
handle_new_spark_tx(h) ==
  LET msg  == Head(toController)
      rest == [msg EXCEPT !.txs = Tail(@)]
  IN  /\ IsNext(toController, "NewSparkTxs") /\ msg.txs # <<>> /\ Head(msg.txs) = h
      /\ \/ /\ HasRow(h)
            /\ toController' = <<rest>> \o Tail(toController)
            /\ UNCHANGED <<spark_transaction, spark_output, calls>>
         \/ /\ ~HasRow(h) /\ Insertable(h)
            /\ insert_spark_transaction(h)
            /\ toController' = <<[rest EXCEPT !.new = Append(@, h)]>> \o Tail(toController)
            /\ UNCHANGED calls
         \/ /\ ~HasRow(h) /\ ~Insertable(h)
            /\ toController' = Tail(toController)
            /\ calls' = Reply(msg.from, FALSE)
            /\ UNCHANGED <<spark_transaction, spark_output>>
      /\ UNCHANGED <<operator_signature, spark_queue, toChecker, signed, job, down,
                     exits, deps, left>>

handle_new_spark_txs_done ==
  /\ IsNext(toController, "NewSparkTxs") /\ Head(toController).txs = <<>>
  /\ toController' = Tail(toController)
  /\ toChecker' = Append(toChecker, SparkCheck(Head(toController).new, Head(toController).from))
  /\ UNCHANGED <<sparkRows, spark_queue, calls, signed, job, down, exits,
                 deps, left>>

(* handle_spark_token_tx_signature and handle_tokens_freeze_request.       *)
PassOn ==
  /\ IsNext(toController, "Signatures") \/ IsNext(toController, "FreezeTokens")
  /\ toController' = Tail(toController)
  /\ toChecker' = Append(toChecker, Head(toController))
  /\ UNCHANGED <<sparkRows, spark_queue, calls, signed, job, down, exits,
                 deps, left>>

(* A peer's signatures for a transaction, one for each operator in the     *)
(* order the peer has them; the secrets it knows go with the first.        *)
PeerSignatures(h, order) ==
  LET ops == SelectSeq(order, LAMBDA o : \E sig \in signed : sig.tx = h /\ sig.op = o)
  IN  [i \in 1 .. Len(ops) |->
         Signature(h, ops[i], i = 1 /\ \E sig \in signed : sig.tx = h /\ sig.secrets)]

(* Those for several, one transaction after the other.                     *)
AllSignatures(open, order) ==
  LET first[n \in 0 .. Len(open)] ==
        IF n = 0 THEN <<>> ELSE first[n - 1] \o PeerSignatures(open[n], order)
  IN  first[Len(open)]

(* What a peer shares, and what its handle_get_data answers.               *)
share_inv == get_token_txs_inventory(PeerCreated, max_inv_size)

handle_get_data(txs, open, order) ==
  LET sigs == AllSignatures(open, order)
  IN  (IF txs = <<>> THEN <<>> ELSE <<NewSparkTxs(txs, "peer")>>)
        \o (IF sigs = <<>> THEN <<>> ELSE <<Signatures(sigs, "peer")>>)

(* A peer has shared its inventory: handle_inv asks for what is missing,   *)
(* and for the signatures of what is not final; the answer comes.          *)
handle_inv(order) ==
  /\ left.events > 0 /\ Len(toController) < MaxQueue
  /\ left' = [left EXCEPT !.events = @ - 1]
  /\ toController' = toController
       \o handle_get_data(SelectSeq(share_inv, LAMBDA h : ~Found(h)),
                          SelectSeq(share_inv, LAMBDA h : Found(h) /\
                                      get_token_transaction_status(h) # "Finalized"),
                          order)
  /\ UNCHANGED <<sparkRows, spark_queue, toChecker, calls, signed, job, down, exits, deps>>

-----------------------------------------------------------------------------
(* The checker takes a message between two others.                         *)
CheckerTakes(type) == ~down /\ job = NoJob /\ IsNext(toChecker, type)

(* The members of a set, in some order.                                    *)
InSomeOrder(S) == CHOOSE q \in Bijection(1 .. Cardinality(S), S) : TRUE

(* handle_child_spark_transactions.                                        *)
ForChildren(children) ==
  LET txs == InSomeOrder({c.tx : c \in {d \in children : d.kind = "TokenTx"}})
      ex  == InSomeOrder({c.tx : c \in {d \in children : d.kind = "ExitTx"}})
  IN  (IF ex = <<>> THEN <<>> ELSE <<FullCheck(ex)>>)
        \o (IF txs = <<>> THEN <<>> ELSE <<SparkCheck(txs, None)>>)

check_spark_txs ==
  LET msg == Head(toChecker)
      b   == CheckBatch(msg.txs)
      ask == SelectSeq(PeerCreated, LAMBDA h : h \in b.missing)
  IN  /\ CheckerTakes("SparkCheck")
      /\ calls' = Reply(msg.from, b.invalid = {})
      /\ spark_queue' = WithoutChildrenOf(b.queue, b.checked)
      /\ toChecker' = Tail(toChecker) \o ForChildren(ChildrenOf(b.queue, b.checked))
      /\ toController' = toController
           \o (IF b.checked = {} THEN <<>> ELSE <<CheckedSparkTxs(b.checked)>>)
           \o (IF msg.from # "peer" \/ ask = <<>> THEN <<>> ELSE <<NewSparkTxs(ask, "peer")>>)
      /\ UNCHANGED <<sparkRows, signed, job, down, exits, deps, left>>

(* check_spark_signatures: the signatures are stored one by one, then the  *)
(* status of each one's transaction is set.                                *)
check_spark_signatures ==
  /\ CheckerTakes("Signatures")
  /\ LET msg == Head(toChecker)
     IN  job' = [stage |-> "store", rest |-> msg.sigs, sigs |-> msg.sigs, from |-> msg.from,
                 finalized |-> {}, inputs |-> 0, same |-> FALSE]
  /\ toChecker' = Tail(toChecker)
  /\ UNCHANGED <<sparkRows, spark_queue, toController, calls, signed, down, exits,
                 deps, left>>

StoreSignature ==
  /\ ~down /\ job.stage = "store"
  /\ LET sig   == Head(job.rest)
         valid == check_spark_signature_data(sig)
     IN  \/ /\ valid
            /\ insert_signature_data(sig.tx, sig.op)
            /\ set_revocation_secret_keys(Revealed(sig))
            /\ UNCHANGED calls
         \/ /\ ~valid
            /\ calls' = Reply(job.from, FALSE)
            /\ UNCHANGED <<operator_signature, spark_output>>
  /\ job' = IF Len(job.rest) > 1 THEN [job EXCEPT !.rest = Tail(@)]
            ELSE [job EXCEPT !.stage = "read", !.rest = job.sigs]
  /\ UNCHANGED <<spark_transaction, spark_queue, queues, signed, down, exits, deps,
                 left>>

(* The transaction is read back: how many inputs it has, and its hash.     *)
ReadBack ==
  /\ ~down /\ job.stage = "read" /\ job.rest # <<>>
  /\ LET h == Head(job.rest).tx
     IN  job' = IF Found(h)
                THEN [job EXCEPT !.stage = "status", !.inputs = InputsRead(h), !.same = Intact(h)]
                ELSE [job EXCEPT !.rest = Tail(@)]
  /\ UNCHANGED <<sparkRows, spark_queue, queues, calls, signed, down, exits, deps,
                 left>>

(* Faulty: the status is set by the hash that the signature names.         *)
SetStatusByName ==
  /\ ~down /\ job.stage = "status"
  /\ LET h  == Head(job.rest).tx
         st == check_spark_tx_finalization(job.inputs, Cardinality(Signers(h)),
                                           Cardinality(SecretsOf(h)))
     IN  /\ spark_transaction' = [spark_transaction EXCEPT ![h] = st]
         /\ job' = [job EXCEPT !.stage = "read", !.rest = Tail(@), !.inputs = 0, !.same = FALSE,
                               !.finalized = IF st = "Finalized" THEN @ \cup {h} ELSE @]
  /\ UNCHANGED <<spark_output, operator_signature, spark_queue, queues, calls, signed, down,
                 exits, deps, left>>

(* Faulty: only the secrets of this signature count.                       *)
SetStatusFromSignature ==
  /\ ~down /\ job.stage = "status"
  /\ LET h  == Head(job.rest).tx
         st == check_spark_tx_finalization(job.inputs, Cardinality(Signers(h)),
                                           Cardinality(Revealed(Head(job.rest))))
     IN  /\ spark_transaction' = IF job.same THEN [spark_transaction EXCEPT ![h] = st]
                                 ELSE spark_transaction
         /\ job' = [job EXCEPT !.stage = "read", !.rest = Tail(@), !.inputs = 0, !.same = FALSE,
                               !.finalized = IF st = "Finalized" THEN @ \cup {h} ELSE @]
  /\ UNCHANGED <<spark_output, operator_signature, spark_queue, queues, calls, signed, down,
                 exits, deps, left>>

(* The status goes to the row with the hash of what was read back.         *)
SetStatus ==
  /\ ~down /\ job.stage = "status"
  /\ LET h  == Head(job.rest).tx
         st == check_spark_tx_finalization(job.inputs, Cardinality(Signers(h)),
                                           Cardinality(SecretsOf(h)))
     IN  /\ spark_transaction' = IF job.same THEN [spark_transaction EXCEPT ![h] = st]
                                 ELSE spark_transaction
         /\ job' = [job EXCEPT !.stage = "read", !.rest = Tail(@), !.inputs = 0, !.same = FALSE,
                               !.finalized = IF st = "Finalized" THEN @ \cup {h} ELSE @]
  /\ UNCHANGED <<spark_output, operator_signature, spark_queue, queues, calls, signed, down,
                 exits, deps, left>>

(* Faulty: exits that wait are not looked at again.                        *)
SignaturesCheckedOnly ==
  /\ ~down /\ job.stage = "read" /\ job.rest = <<>>
  /\ calls' = Reply(job.from, TRUE)
  /\ job' = NoJob
  /\ UNCHANGED <<sparkRows, spark_queue, queues, signed, down, exits, deps, left>>

SignaturesChecked ==
  /\ ~down /\ job.stage = "read" /\ job.rest = <<>>
  /\ calls' = Reply(job.from, TRUE)
  /\ spark_queue' = WithoutChildrenOf(spark_queue, job.finalized)
  /\ toChecker' = toChecker \o ForChildren(ChildrenOf(spark_queue, job.finalized))
  /\ job' = NoJob
  /\ UNCHANGED <<sparkRows, toController, signed, down, exits, deps, left>>

(* check_token_freezes.  udpate_spark_output_freeze_status updates a model *)
(* without its primary key, which the library refuses: the checker stops.  *)
check_token_freezes ==
  /\ CheckerTakes("FreezeTokens")
  /\ LET r == Head(toChecker).request
     IN  down' = (OutputsOfOwner(r.owner, r.token) # {})
  /\ toChecker' = Tail(toChecker)
  /\ UNCHANGED <<sparkRows, spark_queue, toController, calls, signed, job, exits,
                 deps, left>>

(* check_txs_full: the exits of a message one by one, and the proofs of    *)
(* each in order, with awaits of the storage between them.                 *)
ExitJob(ex) ==
  IF ex = <<>> THEN NoJob
  ELSE [stage |-> "exit", exit |-> Head(ex), rest |-> ExitLeaves[Head(ex)], later |-> Tail(ex)]

check_txs_full ==
  /\ CheckerTakes("FullCheck")
  /\ job' = ExitJob(Head(toChecker).exits)
  /\ toChecker' = Tail(toChecker)
  /\ UNCHANGED <<sparkRows, spark_queue, toController, calls, signed, down, exits, deps, left>>

ExitEnds(e, verdict) ==
  /\ exits' = [exits EXCEPT ![e] = verdict]
  /\ job' = ExitJob(job.later)

(* One turn of the loop of check_spark_exit.  An output that was marked    *)
(* before the proof at which the exit ends stays marked.                   *)
check_spark_exit_proof(e) ==
  LET proof == Head(job.rest)
  IN  /\ ~down /\ job.stage = "exit" /\ job.exit = e /\ job.rest # <<>>
      /\ \/ /\ ExitWaits(proof)
            /\ spark_queue' = [spark_queue EXCEPT ![proof.tx] = ExitTx(e)]
            /\ ExitEnds(e, "waiting")
            /\ UNCHANGED spark_output
         \/ /\ ~ExitWaits(proof) /\ ~Withdrawable(proof)
            /\ ExitEnds(e, "invalid")
            /\ UNCHANGED <<spark_output, spark_queue>>
         \/ /\ ~ExitWaits(proof) /\ Withdrawable(proof)
            /\ mark_spark_output_as_withdrawn(ExitLeaf(proof), e)
            /\ job' = [job EXCEPT !.rest = Tail(@)]
            /\ UNCHANGED <<spark_queue, exits>>
      /\ UNCHANGED <<spark_transaction, operator_signature, queues, calls, signed, down,
                     deps, left>>

check_spark_exit_done(e) ==
  /\ ~down /\ job.stage = "exit" /\ job.exit = e /\ job.rest = <<>>
  /\ ExitEnds(e, "valid")
  /\ UNCHANGED <<sparkRows, spark_queue, queues, calls, signed, down, deps, left>>

(* The L1 side of the node sends a confirmed exit.                         *)
ExitConfirmed(e) ==
  /\ exits[e] = "mempool" /\ Len(toChecker) < MaxQueue
  /\ exits' = [exits EXCEPT ![e] = "checking"]
  /\ toChecker' = Append(toChecker, FullCheck(<<e>>))
  /\ UNCHANGED <<sparkRows, spark_queue, toController, calls, signed, job, down,
                 deps, left>>

(* handle_cleanup: a child has waited too long.                            *)
handle_cleanup(h) ==
  /\ ~down /\ job = NoJob
  /\ spark_queue[h] # None
  /\ spark_queue' = [spark_queue EXCEPT ![h] = None]
  /\ exits' = IF spark_queue[h].kind = "ExitTx"
              THEN [exits EXCEPT ![spark_queue[h].tx] = "invalid"] ELSE exits
  /\ UNCHANGED <<sparkRows, queues, calls, signed, job, down, deps, left>>

-----------------------------------------------------------------------------
(* The node stops, and starts again with what its storage has.             *)
Restart ==
  /\ down \/ left.events > 0
  /\ left' = IF down THEN left ELSE [left EXCEPT !.events = @ - 1]
  /\ toController' = <<>> /\ toChecker' = <<>>
  /\ spark_queue' = [h \in SparkHash |-> None]
  /\ calls' = [o \in Operator |-> NoCall]
  /\ job' = NoJob
  /\ down' = FALSE
  /\ exits' = [e \in Exit |-> IF exits[e] \in {"checking", "waiting"} THEN "mempool"
                              ELSE exits[e]]
  /\ deps' = [h \in SparkHash |-> {}]
  /\ UNCHANGED <<sparkRows, signed>>

Next ==
  \/ \E h \in SparkHash, o \in Operator, s \in BOOLEAN : send_spark_signature(h, o, s)
  \/ \E o \in Operator : SignatureFollows(o)
  \/ \E r \in FreezeRequests : freeze_tokens(r)
  \/ \E h \in SparkHash : handle_new_spark_tx(h)
  \/ handle_new_spark_txs_done \/ PassOn
  \/ handle_checked_spark_txs
  \/ \E order \in Bijection(1 .. Cardinality(Operator), Operator) : handle_inv(order)
  \/ check_spark_txs \/ check_spark_signatures \/ StoreSignature
  \/ ReadBack \/ SetStatus \/ SignaturesChecked
  \/ check_token_freezes \/ check_txs_full
  \/ \E e \in Exit : check_spark_exit_proof(e) \/ check_spark_exit_done(e)
  \/ \E e \in Exit : ExitConfirmed(e)
  \/ \E h \in SparkHash : handle_cleanup(h)
  \/ Restart

Spec == Init /\ [][Next]_flowVars

-----------------------------------------------------------------------------
(* Properties.                                                             *)

(* Enough operators have signed h, and the secrets of all that it spends   *)
(* are known.                                                              *)
Backed(h) ==
  /\ Cardinality(Signers(h)) >= SPARK_THRESHOLD
  /\ \A l \in Spent(h) : spark_output[l] # NoRow /\ spark_output[l].secret

(* What is final, and what an L1 exit has been let withdraw, was signed by *)
(* enough operators and has had all its inputs revoked, although the       *)
(* status is computed from what is read back at several moments            *)
(* (check_spark_signatures, check_spark_exit).                             *)
FinalIsBacked ==
  /\ \A h \in SparkHash : spark_transaction[h] = "Finalized" => Backed(h)
  /\ \A l \in get_withdrawn_leaves(None) : Backed(l[1])

Rank(st) == CASE st = NoRow -> 0 [] st = "Started" -> 1 [] st = "Signed" -> 2
              [] st = "Finalized" -> 3

(* The status of a transaction goes back only when another transfer has    *)
(* taken one of its inputs between the reads of check_spark_signatures.    *)
BackOnlyWhenRespent ==
  [][\A h \in SparkHash : Rank(spark_transaction'[h]) < Rank(spark_transaction[h])
                            => ~Intact(h)]_flowVars

(* Between two messages of the checker no child waits in spark_queue for a *)
(* transaction that is final (handle_child_spark_transactions).            *)
NoChildLeftWaiting ==
  (job = NoJob /\ ~down) =>
    \A h \in SparkHash : spark_queue[h] # None => spark_transaction[h] # "Finalized"

(* Every transfer that the storage has finds what it spends there, so that *)
(* the checker has no transfer to queue and SparkGraphBuilder none to keep *)
(* waiting: insert_spark_transaction has refused those without parents.    *)
GraphNeverWaits ==
  /\ \A h \in SparkHash : HasRow(h) => \A l \in Spent(h) : HasRow(l[1])
  /\ \A h \in SparkHash : deps[h] = {}
  /\ \A h \in SparkHash : spark_queue[h] # None => spark_queue[h].kind = "ExitTx"

(* No operator waits for an answer that nobody will give: once the         *)
(* services have nothing to do, every request has been answered, that of a *)
(* batch dropped by handle_new_spark_txs included.                         *)
CallsAnswered ==
  (toController = <<>> /\ toChecker = <<>> /\ job = NoJob) =>
    \A o \in Operator : calls[o].stage \notin {"tx", "signature"}

(* A client that asks for the page after the last hash it has seen gets    *)
(* every stored transaction once, in the order of the hashes, and no page  *)
(* fails (list_transactions, list_spark_txs).                              *)
PagesCover ==
  \A size \in 1 .. 2 :
    LET all    == SelectSeq(HashOrder, LAMBDA h : Found(h))
        page(i) == ListPage(IF i = 0 THEN None ELSE all[i], size)
    IN  \A i \in 0 .. Len(all) :
          /\ page(i).txs = SubSeq(all, i + 1, Min({i + size, Len(all)}))
          /\ ~ListFails(page(i))

(* A transfer of the operators of its parents that verify_spark_tx accepts *)
(* before it is stored is accepted by the checker once it is, unless it is *)
(* overtaken: the two implementations of the check agree.                  *)
VerifyAgrees ==
  \A h \in SparkHash \ Mint :
    (/\ ~HasRow(h) /\ verify_spark_tx(h)
     /\ \A l \in Spent(h) : OperatorsOf[l[1]] = OperatorsOf[h])
      => Insertable(h) /\ CheckBatch(<<h>>).invalid = {}

(* NoChildLeftWaiting and GraphNeverWaits: nothing is kept back in         *)
(* spark_queue or in the graph for what the node has already.              *)
NobodyWaits == NoChildLeftWaiting /\ GraphNeverWaits

(* CallsAnswered, PagesCover and VerifyAgrees: what the callers of the RPC *)
(* server rely on.                                                         *)
RpcReliable == CallsAnswered /\ PagesCover /\ VerifyAgrees

=============================================================================
