------------------------- MODULE ChainRefinement --------------------------
(***************************************************************************)
(* The chain manager of BlockChain.tla implements the fork choice of       *)
(* ForkChoice.tla (core/blockchain.go, WriteBlockAndState).                *)
(***************************************************************************)
EXTENDS BlockChain

(* The chain manager implements the fork choice: the block that holds mu   *)
(* counts as known, and the head as moved, once mu is released.            *)
Writing == holder \in Writer
Pending == todo[Len(todo)]
KnownBlocks == IF Writing THEN Full \ {Pending.b} ELSE Full
FC == INSTANCE ForkChoice WITH
        known <- KnownBlocks,
        weight <- [b \in Block |-> IF b \in KnownBlocks THEN tds[b] ELSE 0],
        best <- IF Writing THEN Pending.o ELSE currentBlock
ImplementsForkChoice == FC!ChoiceSpec

(* Whenever mu is free the head is a heaviest of the stored blocks, and of *)
(* those one of the lowest number, in whatever order import and the miner  *)
(* wrote them (the fork choice of WriteBlockAndState).                     *)
HeadIsHeaviest ==
  Quiet => \A b \in Full :
             \/ tds[b] < tds[currentBlock]
             \/ tds[b] = tds[currentBlock] /\ number[currentBlock] <= number[b]
=============================================================================
