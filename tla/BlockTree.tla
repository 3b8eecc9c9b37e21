----------------------------- MODULE BlockTree -----------------------------
(***************************************************************************)
(* The universe of blocks the chain manager (core/blockchain.go,           *)
(* core/headerchain.go) works on: a finite tree of blocks rooted in the    *)
(* genesis block.  A block is identified by its hash; of its header only   *)
(* ParentHash, Number and Difficulty matter to the chain manager, and of   *)
(* its body the set of transactions.                                       *)
(***************************************************************************)
EXTENDS Integers, Sequences, FiniteSets

CONSTANTS
  Block,       \* the block hashes
  Genesis,     \* the hash of the genesis block
  parent,      \* Header.ParentHash; the genesis block is its own parent
  number,      \* Header.Number
  difficulty,  \* Header.Difficulty (written by Prepare, not verified by the engine)
  MaxNumber,   \* bound: the height of the tree
  Tx,          \* the transaction hashes
  txs,         \* the transactions of a block's body
  None         \* the empty hash, or nil

ASSUME TreeAssumption ==
  /\ Genesis \in Block
  /\ MaxNumber \in Nat
  /\ parent \in [Block -> Block]
  /\ number \in [Block -> 0..MaxNumber]
  /\ difficulty \in [Block -> Nat]
  /\ txs \in [Block -> SUBSET Tx]
  /\ number[Genesis] = 0
  /\ parent[Genesis] = Genesis
  /\ \A b \in Block \ {Genesis} : number[b] = number[parent[b]] + 1
  /\ None \notin Block

Numbers == 0..MaxNumber

(* A set of blocks closed under Header.ParentHash. *)
Closed(S) == \A b \in S \ {Genesis} : parent[b] \in S

(* The block and its ancestors: the smallest closed set that holds it.     *)
Anc == [b \in Block |->
          {x \in Block : \A S \in SUBSET Block : b \in S /\ Closed(S) => x \in S}]

(* The blocks that a reorganisation from old to new abandons and adopts    *)
(* (oldChain and newChain of BlockChain.reorg).                            *)
OldChain(old, new) == Anc[old] \ Anc[new]
NewChain(old, new) == Anc[new] \ Anc[old]

TxsOf(S) == UNION {txs[b] : b \in S}

(* A contiguous run of blocks, as InsertChain, InsertHeaderChain and       *)
(* InsertReceiptChain require of their argument.                           *)
Contiguous(c) == \A i \in 2..Len(c) : parent[c[i]] = c[i-1]

(* No transaction is twice on one chain, for the state transition accepts  *)
(* a nonce once, and the genesis block has none.                           *)
NoReplay ==
  /\ txs[Genesis] = {}
  /\ \A b \in Block : \A x, y \in Anc[b] : txs[x] \cap txs[y] # {} => x = y
=============================================================================
