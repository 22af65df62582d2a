------------------------------ MODULE MCWallet ------------------------------
(***************************************************************************)
(* The wallet of the dev-kit: its LRC20 side, and its Bitcoin side B.      *)
(*                                                                         *)
(* Five Bitcoin transactions: a payment to the first address, one to an    *)
(* address behind the cache, two spends of the first that replace each     *)
(* other (one of them with change), and a coinbase.                        *)
(***************************************************************************)
EXTENDS LrcWallet

Foreign == <<"Foreign", 0>>      \* as in WalletSync
Null == <<"null", 0>>
Out(value, script) == [value |-> value, script_pubkey |-> script]
Raw(txid, input, output) == [txid |-> txid, input |-> input, output |-> output]

BitcoinTxOf ==
    [pay  |-> Raw("pay", << <<"foreign", 1>> >>, <<Out(5, <<"External", 0>>), Out(1, Foreign)>>),
     far  |-> Raw("far", << <<"foreign", 2>> >>, <<Out(7, <<"External", 2>>)>>),
     send |-> Raw("send", << <<"pay", 1>> >>, <<Out(1, Foreign), Out(3, <<"Internal", 0>>)>>),
     bump |-> Raw("bump", << <<"pay", 1>>, <<"far", 1>> >>, <<Out(4, <<"External", 1>>)>>),
     cb   |-> Raw("cb", <<Null>>, <<Out(9, <<"Internal", 1>>)>>)]

Derivable == [External |-> TRUE, Internal |-> TRUE]
Mixed == [External |-> TRUE, Internal |-> FALSE]
MC_Setups == {<<"electrum", Derivable>>, <<"esplora", Mixed>>, <<"rpc", Derivable>>}

(* The LRC20 side: issue pays the wallet and somebody else, pay spends the *)
(* first of these and pays a multisignature and satoshis to the wallet,    *)
(* exit leaves Spark for the wallet and is locked for a block, gift is     *)
(* only on the second node at first.                                       *)
Me == <<1>>
You == <<2>>
Receipt(n) == [amount |-> n, token |-> <<9>>]
Sig(key, n) == [kind |-> "Sig", inner_key |-> key, receipt |-> Receipt(n), metadata |-> <<>>]
MC_TxOf ==
    [issue |-> [input |-> <<>>, output |-> <<1, 1>>,
                proofs |-> <<(1 :> Sig(Me, 5)) @@ (2 :> Sig(You, 3))>>],
     pay   |-> [input |-> << <<"issue", 1>> >>, output |-> <<1, 1, 1>>,
                proofs |-> <<(1 :> [kind |-> "Multisig", m |-> 1, inner_keys |-> <<Me, You>>,
                                    receipt |-> Receipt(5)])
                             @@ (2 :> [kind |-> "EmptyReceipt", inner_key |-> Me])>>],
     exit  |-> [input |-> <<>>, output |-> <<1>>,
                proofs |-> <<1 :> [kind |-> "SparkExit", delay_key |-> Me, revocation_key |-> You,
                                   locktime |-> 1, receipt |-> Receipt(2)]>>],
     gift  |-> [input |-> <<>>, output |-> <<1>>, proofs |-> <<1 :> Sig(Me, 4)>>],
     freeze |-> [input |-> <<>>, output |-> <<>>, proofs |-> <<>>]]

MC_FirstChain == {"issue", "exit", "gift", "freeze"}
MC_FirstLists == [n1 |-> <<"exit", "freeze", "issue">>, n2 |-> <<"gift", "exit">>]

CONSTANTS
    Options,                        \* the SyncOptions to try: bitcoin_only, lrc20_only
    ForeignValue, Setups, stop_gap, CACHE_ADDR_BATCH_SIZE, start_script_count,
    LIST_TX_PAGE_SIZE, COINBASE_MATURITY, ResetIndexes,
    MaxTip, MaxBitcoinChanges, MaxCalls     \* bounds of WalletSync

VARIABLES opts, status, tip, changes, wildcard, source, core, db, calls, sync, calm

B == INSTANCE WalletSync WITH TxOf <- BitcoinTxOf, MaxChanges <- MaxBitcoinChanges

bitcoin == <<status, tip, changes, wildcard, source, core, db, calls, sync, calm>>

MCInit ==
    /\ Init /\ B!Init
    /\ opts \in Options
    /\ opts = "lrc20_only" => source = "electrum"   \* of no account there

(* Wallet::sync does the Bitcoin side first and the LRC20 side after it;   *)
(* the two have no state in common, so each is tried with the options that *)
(* leave the other out.                                                    *)
Bitcoin(A) == opts = "bitcoin_only" /\ A /\ UNCHANGED <<opts, vars>>
Lrc20(A) == opts = "lrc20_only" /\ A /\ UNCHANGED <<opts, bitcoin>>

MCNext ==
    \/ \E t \in B!Txids : Bitcoin(B!Arrives(t))
    \/ Bitcoin(B!Mine)
    \/ Bitcoin(B!Disconnect)
    \/ \E kc \in B!KeychainKind : Bitcoin(B!get_new_address(kc))
    \/ \E kc \in B!KeychainKind : Bitcoin(B!get_unused_address(kc))
    \/ Bitcoin(B!ResetAddress)
    \/ Bitcoin(B!BeginSync)
    \/ Bitcoin(B!Start)
    \/ Bitcoin(B!ScriptStep)
    \/ Bitcoin(B!TxStep)
    \/ Bitcoin(B!ConftimeStep)
    \/ Bitcoin(B!DbState_new)
    \/ Bitcoin(B!ImportStep)
    \/ Bitcoin(B!ListStep)
    \/ Bitcoin(B!EntriesStep)
    \/ Bitcoin(B!UnspentStep)
    \/ Bitcoin(B!FinishSync)
    \/ Bitcoin(B!RequestFails)
    \/ Lrc20(StartSync)
    \/ Lrc20(FetchPage)
    \/ Lrc20(IndexTransaction)
    \/ Lrc20(PutLastIndexedPage)
    \/ Lrc20(MarkFrozenOutputs)
    \/ Lrc20(EndIndexing)
    \/ Lrc20(mark_spent_utxos)
    \/ Lrc20(EndSync)
    \/ Lrc20(FailSync)
    \/ \E n \in Nodes, t \in Txids : Lrc20(Store(n, t))
    \/ \E n \in Nodes : \E i \in 1 .. Len(listed[n]) : Lrc20(Delete(n, i))
    \/ \E op \in Mine : Lrc20(ToggleFreeze(op))
    \/ \E op \in Mine : Lrc20(FreezePubkey(TokenOf(op)))
    \/ \E t \in Txids : Lrc20(Broadcast(t))
    \/ Lrc20(MineBlock)
    \/ Lrc20(SwitchNode)

MCSpec == MCInit /\ [][MCNext]_<<opts, vars, bitcoin>>

(* WalletSync's BackendsAgree, of the three databases.                     *)
BackendsAgree == B!BackendsAgree

(* WalletSync's SyncLeavesPicture, of what a sync writes in its last step. *)
SyncLeavesPicture == B!SyncLeavesPicture

(* WalletSync's IndexNeverBack, of the indexes a sync updates.             *)
IndexNeverBack == B!IndexNeverBack
=============================================================================
