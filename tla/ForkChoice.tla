----------------------------- MODULE ForkChoice -----------------------------
(***************************************************************************)
(* What the chain manager promises to those who only watch it: it knows a  *)
(* growing, parent-closed set of blocks, weighs each by its total          *)
(* difficulty, and its head is a heaviest known block.  One step adds one  *)
(* block.  Locks, database writes, reorganisations and the two goroutines  *)
(* that call WriteBlockAndState are all below this level: module           *)
(* BlockChain implements it while nothing is rewound and nothing crashes.  *)
(***************************************************************************)
EXTENDS BlockTree

VARIABLES
  known,   \* blocks stored with header, body and state
  weight,  \* the total difficulty of a known block, 0 for the others
  best     \* CurrentBlock()

fcvars == <<known, weight, best>>

(* The rule of WriteBlockAndState: more total difficulty, or as much of it *)
(* at a lower number.                                                      *)
Better(b, w) ==
  \/ w > weight[best]
  \/ w = weight[best] /\ number[b] < number[best]
(* The block and the head are worth the same: a coin decides.              *)
Even(b, w) == w = weight[best] /\ number[b] = number[best]

ChoiceInit ==
  /\ known = {Genesis}
  /\ weight = [b \in Block |-> IF b = Genesis THEN difficulty[b] ELSE 0]
  /\ best = Genesis

(* The total difficulty of a new block: that of its parent, and its own.   *)
Weight(b) == weight[parent[b]] + difficulty[b]

Add(b) ==
  /\ b \in Block \ known
  /\ parent[b] \in known
  /\ LET w == Weight(b) IN
     /\ known' = known \cup {b}
     /\ weight' = [weight EXCEPT ![b] = w]
     /\ \/ (Better(b, w) \/ Even(b, w)) /\ best' = b
        \/ ~Better(b, w) /\ best' = best

ChoiceNext == \E b \in Block : Add(b)

ChoiceSpec == ChoiceInit /\ [][ChoiceNext]_fcvars
-----------------------------------------------------------------------------
ChoiceTypeOK ==
  /\ known \subseteq Block
  /\ weight \in [Block -> Nat]
  /\ best \in known

(* Every known block but the genesis block has a known parent and weighs   *)
(* its own difficulty more than it (WriteBlockAndState adds the parent's   *)
(* stored total difficulty).                                               *)
Weighed ==
  \A b \in known \ {Genesis} :
     parent[b] \in known /\ weight[b] = weight[parent[b]] + difficulty[b]

(* The head is a heaviest known block, and of those one of the lowest      *)
(* number: no order in which blocks arrive leaves the chain manager on a   *)
(* block that its own fork choice would abandon.                           *)
BestIsBest ==
  \A b \in known :
     \/ weight[b] < weight[best]
     \/ weight[b] = weight[best] /\ number[best] <= number[b]

(* Nothing is forgotten, no weight is revised, and the head never moves to *)
(* a lighter block nor, between equal weights, to a higher one.            *)
NeverWorse ==
  [][/\ known \subseteq known'
     /\ \A b \in known : weight'[b] = weight[b]
     /\ \/ weight'[best'] > weight[best]
        \/ weight'[best'] = weight[best] /\ number[best'] <= number[best]]_fcvars
=============================================================================
