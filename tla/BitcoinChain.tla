---------------------------- MODULE BitcoinChain ----------------------------
(***************************************************************************)
(* The Bitcoin node as the LRC20 node sees it through its RPC client:      *)
(* a tree of blocks, one of whose branches is the best chain.  The tree is *)
(* a constant, so a run fixes which forks can happen and the proofs hold   *)
(* for every tree; the best chain is the branch that ends in `tip`.        *)
(***************************************************************************)
EXTENDS NodeParameters

CONSTANTS
  Block,     \* every block that any miner ever produces
  Genesis,   \* the block at height 0
  NoBlock,   \* "no block": the parent of the genesis block
  Parent,    \* previousblockhash of a block
  Height,    \* height of a block
  Branch,    \* the block and all of its ancestors
  BlockTxs,  \* the followed transactions a block contains
  FirstTip   \* the tips the node may find when it is started first

ASSUME TreeAssumption ==
  /\ Genesis \in Block
  /\ NoBlock \notin Block
  /\ Parent \in [Block -> Block \cup {NoBlock}]
  /\ Height \in [Block -> Nat]
  /\ Branch \in [Block -> SUBSET Block]
  /\ BlockTxs \in [Block -> SUBSET Txid]
  /\ FirstTip \subseteq Block
  /\ Parent[Genesis] = NoBlock
  /\ Height[Genesis] = 0
  /\ Branch[Genesis] = {Genesis}
  /\ \A b \in Block \ {Genesis} :
       /\ Parent[b] \in Block
       /\ Height[b] = Height[Parent[b]] + 1
       /\ Branch[b] = Branch[Parent[b]] \cup {b}

(* What follows from the above by induction on the height: a branch holds  *)
(* the branches of its blocks, and exactly one block at every height up to *)
(* its own.                                                                *)
ASSUME BranchAssumption ==
  \A b \in Block :
    /\ \A c \in Branch[b] : Branch[c] \subseteq Branch[b] /\ Height[c] <= Height[b]
    /\ \A h \in 0..Height[b] : \E c \in Branch[b] : Height[c] = h
    /\ \A c, d \in Branch[b] : Height[c] = Height[d] => c = d

(* A transaction is in at most one block of a branch.                      *)
ASSUME OneBlockPerTxAssumption ==
  \A b \in Block : \A c, d \in Branch[b] :
    BlockTxs[c] \cap BlockTxs[d] # {} => c = d

VARIABLES
  tip,       \* the last block of the best chain
  known      \* every block that has ever been on the best chain

chainVars == <<tip, known>>

-----------------------------------------------------------------------------
(* get_block_hash: the block of b's branch at a height.                    *)
BlockAt(b, h) == CHOOSE c \in Branch[b] : Height[c] = h

(* getrawtransaction: the `confirmations` field, 0 standing for a missing  *)
(* field or for the error -5 (the transaction is not on the best chain).   *)
Confirmations(t) ==
  IF \E b \in Branch[tip] : t \in BlockTxs[b]
  THEN LET b == CHOOSE c \in Branch[tip] : t \in BlockTxs[c]
       IN  Height[tip] - Height[b] + 1
  ELSE 0

ChainInit ==
  /\ tip \in FirstTip
  /\ known = Branch[tip]

(* The best chain is extended, or replaced by a longer branch.             *)
NewTip(b) ==
  /\ Height[b] > Height[tip]
  /\ tip' = b
  /\ known' = known \cup Branch[b]

=============================================================================
