------------------------------- MODULE Uncles -------------------------------
(* Uncles: which of them the worker puts into a block (miner/worker.go),    *)
(* which the engine accepts (VerifyUncles) and what they earn (PocRewards   *)
(* of consensus/xdnoc/dnpoc.go).                                            *)
(*                                                                          *)
(* Blocks are numbered in the order they arrive; block 0 is genesis.  Every *)
(* block has difficulty 1, so the fork choice goes by height.               *)
EXTENDS Integers, FiniteSets, FiniteSetsExt

CONSTANTS Generations,       \* 7: how far ancestors and their uncles are looked at
          MaxUncles,         \* 2
          MaxBlocks

None == [parent |-> 0, uncles |-> {}, on |-> FALSE]

VARIABLES
  tree,       \* the parent, height and uncles of each block, and the line it ends
  head,       \* the current block
  sides,      \* ChainSideEvents the worker has not seen
  possible,   \* possibleUncles
  work        \* the block that is being sealed

uncleVars == <<tree, head, sides, possible, work>>

Blocks == DOMAIN tree
Height(b) == tree[b].height

(* GetBlocksFromHash, and the loop over ancestors in VerifyUncles.          *)
Chain(b) == tree[b].line
Ancestors(parent) == {a \in Chain(parent) : Height(a) > Height(parent) - Generations}
PastUncles(parent) == UNION {tree[a].uncles : a \in Ancestors(parent)}

(* A faulty check: uncles of the ancestors may come again.                  *)
VerifyAgain(parent, uncles) ==
  /\ Cardinality(uncles) <= MaxUncles
  /\ \A u \in uncles : /\ u \notin Ancestors(parent)
                       /\ u # 0 /\ tree[u].parent \in Ancestors(parent) \ {parent}
VerifyUncles(parent, uncles) ==
  /\ Cardinality(uncles) <= MaxUncles
  /\ \A u \in uncles : /\ u \notin PastUncles(parent) /\ u \notin Ancestors(parent)
                       /\ u # 0 /\ tree[u].parent \in Ancestors(parent) \ {parent}

(* makeCurrent and commitUncle.                                             *)
CommitUncle(parent, u) ==
  /\ tree[u].parent \in Ancestors(parent)
  /\ u \notin Ancestors(parent) \cup PastUncles(parent)
-----------------------------------------------------------------------------
(* WriteBlockAndState or an import: the higher block becomes the head, of   *)
(* two as high either may.  Blocks that are not or no longer canonical are  *)
(* announced as side blocks, unless the worker wrote them itself.           *)
Insert(parent, uncles, own) ==
  LET b == Cardinality(Blocks)
      h == Height(parent) + 1
      become == /\ head' = b /\ sides' = sides \cup (Chain(head) \ Chain(parent))
      stay == head' = head /\ sides' = IF own THEN sides ELSE sides \cup {b}
  IN /\ b < MaxBlocks
     /\ tree' = [c \in Blocks \cup {b} |->
                   IF c = b THEN [parent |-> parent, height |-> h, uncles |-> uncles,
                                        line |-> Chain(parent) \cup {b}] ELSE tree[c]]
     /\ \/ h >= Height(head) /\ become
        \/ h <= Height(head) /\ stay

Import(parent, uncles) ==
  /\ VerifyUncles(parent, uncles) /\ Insert(parent, uncles, FALSE)
  /\ UNCHANGED <<possible, work>>

SideEvent(b) ==
  /\ b \in sides
  /\ sides' = sides \ {b} /\ possible' = possible \cup {b}
  /\ UNCHANGED <<tree, head, work>>

(* commitNewWork goes through the candidates in any order until it has      *)
(* MaxUncles; those it refused are forgotten.                               *)
CommitNewWork ==
  \E seen \in SUBSET possible :
    LET good == {u \in seen : CommitUncle(head, u)} IN
    /\ Cardinality(good) <= MaxUncles /\ (seen = possible \/ Cardinality(good) = MaxUncles)
    /\ possible' = possible \ (seen \ good)
    /\ work' = [parent |-> head, uncles |-> good, on |-> TRUE]
    /\ UNCHANGED <<tree, head, sides>>

(* The block was sealed, perhaps after the head has moved on.               *)
Sealed ==
  /\ work.on /\ work' = None
  /\ Insert(work.parent, work.uncles, TRUE)
  /\ UNCHANGED possible

Init ==
  /\ tree = [b \in {0} |-> [parent |-> 0, height |-> 0, uncles |-> {}, line |-> {0}]]
  /\ head = 0 /\ sides = {} /\ possible = {} /\ work = None
Next ==
  \/ \E p \in Blocks, k \in 0..MaxUncles :
       \E us \in kSubset(k, {u \in Blocks : VerifyUncles(p, {u})}) : Import(p, us)
  \/ \E b \in sides : SideEvent(b)
  \/ CommitNewWork \/ Sealed
Spec == Init /\ [][Next]_uncleVars
-----------------------------------------------------------------------------
(* The block the worker assembles is one that every node accepts, whatever  *)
(* reorganisations its candidates come from.  (A rewind of the chain is not *)
(* among the steps: after one, commitUncle accepts a sibling of the new     *)
(* block, which VerifyUncles refuses.)                                      *)
AssembledVerifies == work.on => VerifyUncles(work.parent, work.uncles)

(* On every branch each block is paid for at most once, as a member of the  *)
(* branch or as the uncle of one member, though only the last Generations   *)
(* blocks are looked at.                                                    *)
PaidOnce ==
  \A b \in Blocks :
    /\ Chain(b) \cap UNION {tree[a].uncles : a \in Chain(b)} = {}
    /\ \A a, c \in Chain(b) : a # c => tree[a].uncles \cap tree[c].uncles = {}

(* PocRewards in units of blockReward / (Generations + 1): what an uncle    *)
(* gets shrinks with its age and is positive to the last.                   *)
UncleReward(u, b) == Height(u) + Generations + 1 - Height(b)
RewardsPositive == \A b \in Blocks : \A u \in tree[b].uncles : UncleReward(u, b) \in 1..Generations

(* Uncles as a whole.                                                       *)
UnclesSound == AssembledVerifies /\ PaidOnce /\ RewardsPositive
=============================================================================
