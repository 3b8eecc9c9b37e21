---------------------------- MODULE MCBlockChain ----------------------------
(* Small block trees for the model checker.                                *)
EXTENDS ChainRefinement, TLC

CONSTANTS g, a1, a2, b1, b2, b3, m3, x2, t1, t2

(* Two branches of genesis, with a block m3 that the local miner seals and *)
(* a block x2 at fault on the first.  The lower block b2 weighs as much as *)
(* the higher m3, and more than a2: it takes over either branch of two.    *)
MCBlock == {g, a1, a2, b1, b2, b3, m3, x2}
MCParent == (g :> g) @@ (a1 :> g) @@ (a2 :> a1) @@ (b1 :> g) @@ (b2 :> b1) @@ (b3 :> b2)
            @@ (m3 :> a2) @@ (x2 :> a1)
MCNumber == (g :> 0) @@ (a1 :> 1) @@ (a2 :> 2) @@ (b1 :> 1) @@ (b2 :> 2) @@ (b3 :> 3)
            @@ (m3 :> 3) @@ (x2 :> 2)
MCDifficulty == [b \in MCBlock |-> IF b = b2 THEN 2 ELSE 1]
MCTxs == [b \in MCBlock |-> CASE b \in {a1, b1} -> {t1} [] b = a2 -> {t2} [] OTHER -> {}]

(* The same branches, every block of difficulty 1 as the engine makes them. *)
ForkBlock == {g, a1, a2, b1, b2, b3}
ForkParent == [b \in ForkBlock |-> MCParent[b]]
ForkNumber == [b \in ForkBlock |-> MCNumber[b]]
ForkDifficulty == [b \in ForkBlock |-> 1]
ForkTxs == [b \in ForkBlock |-> MCTxs[b]]
ForkChains == {<<a1>>, <<a1, a2>>, <<b1, b2>>, <<b3>>}

(* A smaller tree, for the runs with many interleavings: a mined block a1  *)
(* and a branch of two blocks.                                             *)
SmallBlock == {g, a1, b1, b2}
SmallParent == (g :> g) @@ (a1 :> g) @@ (b1 :> g) @@ (b2 :> b1)
SmallNumber == (g :> 0) @@ (a1 :> 1) @@ (b1 :> 1) @@ (b2 :> 2)
SmallDifficulty == [b \in SmallBlock |-> 1]
SmallTxs == [b \in SmallBlock |-> IF b \in {a1, b2} THEN {t1} ELSE {}]
SmallChains == {<<b1>>, <<b2>>, <<b1, b2>>}

MCChains == {<<a1>>, <<a1, a2>>, <<b1, b2>>, <<b3>>, <<x2>>}

(* The trees meet the assumption that the transaction index rests on.      *)
ASSUME TxsOnce == NoReplay
=============================================================================
