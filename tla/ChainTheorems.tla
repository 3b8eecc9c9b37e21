--------------------------- MODULE ChainTheorems ----------------------------
(***************************************************************************)
(* The theorems about the chain manager, on every tree of blocks, for      *)
(* every choice of chains that peers offer and blocks that the miner       *)
(* seals, and under every interleaving of import, mining and the timer.    *)
(* Those on recovery hold for a process that may be killed at any write;   *)
(* the others assume that it is not, and all that nobody calls SetHead.    *)
(* The chain manager implements the fork choice of ForkChoice.tla: what    *)
(* happens between two releases of mu is one block added by the rule, and  *)
(* everything else is invisible.                                           *)
(***************************************************************************)
EXTENDS SectionProofs, ImportProofs, TdProofs, RecoveryProofs, FiniteSetTheorems

Bounded == Cardinality(futureBlocks) <= MaxFuture

(* futureBlocks stays within its capacity when blocks leave it.            *)
LEMMA FewerFuture ==
  ASSUME Typed, Bounded, NEW S \in SUBSET futureBlocks
  PROVE  Cardinality(S) <= MaxFuture
<1>1. IsFiniteSet(futureBlocks)
  BY ChainAssumption, FS_Subset, Zenon DEF Typed
<1>2. /\ IsFiniteSet(S) /\ Cardinality(S) <= Cardinality(futureBlocks)
  BY <1>1, FS_Subset, Zenon
<1>3. Cardinality(S) \in Nat /\ Cardinality(futureBlocks) \in Nat
  BY <1>1, <1>2, FS_CardinalityType, Zenon
<1> QED BY <1>2, <1>3, ChainAssumption DEF Bounded

(* futureBlocks.Add keeps the queue within its capacity: the evicted entry *)
(* makes room for the new one.                                             *)
LEMMA ParkBounded ==
  ASSUME Typed, Bounded, NEW b, Park(b)
  PROVE  Bounded'
<1>1. IsFiniteSet(futureBlocks) /\ Cardinality(futureBlocks) \in Nat
  BY ChainAssumption, FS_Subset, FS_CardinalityType, Zenon DEF Typed
<1>2. MaxFuture \in Nat /\ Cardinality(futureBlocks) <= MaxFuture
  BY ChainAssumption, Zenon DEF Bounded
<1>3. CASE Cardinality(futureBlocks \cup {b}) <= MaxFuture
            /\ futureBlocks' = futureBlocks \cup {b}
  BY <1>3, Zenon DEF Bounded
<1>4. ASSUME Cardinality(futureBlocks \cup {b}) > MaxFuture,
             NEW x \in futureBlocks \ {b},
             futureBlocks' = (futureBlocks \ {x}) \cup {b}
      PROVE  Bounded'
  <2>1. b \notin futureBlocks
    <3>1. SUFFICES ASSUME b \in futureBlocks PROVE FALSE
      BY Zenon
    <3>2. futureBlocks \cup {b} = futureBlocks
      BY <3>1, Zenon
    <3> QED BY <1>1, <1>2, <1>4, <3>2
  <2>2. /\ IsFiniteSet(futureBlocks \ {x})
        /\ Cardinality(futureBlocks \ {x}) = Cardinality(futureBlocks) - 1
    BY <1>1, <1>4, FS_RemoveElement, Zenon
  <2>3. b \notin futureBlocks \ {x}
    BY <2>1, Zenon
  <2>4. Cardinality((futureBlocks \ {x}) \cup {b}) = Cardinality(futureBlocks \ {x}) + 1
    BY <2>2, <2>3, FS_AddElement, Zenon
  <2> QED BY <1>1, <1>2, <1>4, <2>2, <2>4 DEF Bounded
<1> QED BY <1>3, <1>4, Zenon DEF Park

(* A step of a critical section adds nothing to the queue.                 *)
LEMMA SectionFuture ==
  ASSUME Section
  PROVE  futureBlocks' \subseteq futureBlocks
<1>1. CASE Written \/ RewindBlocks
  BY <1>1, Zenon DEF Written, RewindBlocks
<1>2. CASE ~(Written \/ RewindBlocks)
  <2>1. UNCHANGED future
    BY <1>2, Zenon
       DEF Section, WriteTd, WriteBatch, Insert, WriteHeadBlockHash, SetCurrentHeader,
           WriteHeadFastBlockHash, Reorg, WriteTxLookupEntries, DeleteTxLookupEntries, Failed,
           BeginSetHead, Rewind, DeleteBody, DeleteHeader, DeleteTd, DeleteCanonicalHash,
           StoreHeader, LoadLastState, WriteGenesis, ResetFastHead, Unlock
  <2> QED BY <2>1 DEF future
<1> QED BY <1>1, <1>2, Zenon

(* Outside mu only QueueFuture does.                                       *)
LEMMA NextFuture ==
  ASSUME [Next]_vars
  PROVE  futureBlocks' \subseteq futureBlocks \/ QueueFuture
<1>1. CASE SkipKnown \/ RejectBlock \/ AcceptBlock
  BY <1>1, Zenon DEF SkipKnown, RejectBlock, AcceptBlock, future
<1>2. CASE ProcessBlock
  <2>1. UNCHANGED future \/ Die
    BY <1>2, Zenon DEF ProcessBlock
  <2> QED BY <2>1, Zenon DEF Die, future
<1>3. ASSUME NEW w, ReadPtd(w) \/ WriteBlockAndState(w)
      PROVE  futureBlocks' \subseteq futureBlocks
  <2>1. UNCHANGED future \/ Die
    BY <1>3, Zenon DEF ReadPtd, WriteBlockAndState
  <2> QED BY <2>1, Zenon DEF Die, future
<1>4. CASE \/ Sweep \/ AbandonWork \/ \E c \in Chains : InsertChain(c)
           \/ \E b \in Mined : CommitNewWork(b)
           \/ \E b \in Ahead : TimePasses(b)
           \/ \E n \in SetHeads : SetHead(n)
  BY <1>4, Zenon DEF Sweep, ProcFutureBlocks, InsertFuture, AbandonWork, InsertChain, CommitNewWork,
              TimePasses, SetHead, future
<1>5. CASE Crash \/ NewBlockChain \/ UNCHANGED vars
  BY <1>5, Zenon DEF Crash, Die, NewBlockChain, vars, future
<1> QED BY <1>1, <1>2, <1>3, <1>4, <1>5, SectionFuture, Zenon DEF Next, Step, ImportStep

(* The variables of the chain manager keep their types, and futureBlocks   *)
(* its capacity, on every tree of blocks and under every interleaving of   *)
(* import, mining, rewinding, crashing and restarting.                     *)
THEOREM TypeCorrect == Spec => []TypeOK
<1>1. Init => Bounded
  BY FS_EmptySet, ChainAssumption DEF Init, Bounded
<1>2. TypeInv /\ Bounded /\ [Next]_vars => Bounded'
  <2> SUFFICES ASSUME TypeInv, Bounded, [Next]_vars PROVE Bounded'
    BY Zenon
  <2>1. Typed
    BY Zenon DEF TypeInv
  <2>2. CASE futureBlocks' \subseteq futureBlocks
    BY <2>1, <2>2, FewerFuture, Zenon DEF Bounded
  <2>3. CASE QueueFuture
    BY <2>1, <2>3, ParkBounded, Zenon DEF QueueFuture
  <2> QED BY <2>2, <2>3, NextFuture, Zenon
<1>3. TypeInv /\ Bounded => TypeOK
  BY Zenon DEF TypeInv, Typed, Bounded, TypeOK
<1> QED BY <1>1, <1>2, <1>3, InitType, NextType, PTL DEF Spec

-----------------------------------------------------------------------------
(* Crashes and restarts.                                                   *)

(* The types and the total difficulties that recovery relies on.           *)
LEMMA SoundHolds == Spec => []Sound
<1>1. TdInv /\ TypeOK => Sound
  BY Zenon DEF TdInv, Ordered, OpOK, Sound
<1> QED BY <1>1, InitTd, NextTd, TypeCorrect, PTL DEF Spec

(* Wherever the process is killed between two writes of an import, and     *)
(* however often: when it serves again, the head block, all its ancestors, *)
(* its state and its total difficulty are there.                           *)
THEOREM HeadAlwaysComplete ==
  ASSUME NoRewinds PROVE Spec => []HeadComplete
BY SoundHolds, InitRecovery, NextRecovery, Recovered, PTL DEF Spec

(* A start never waits for the lock that it holds, and no import, mined    *)
(* block or start dereferences a block or total difficulty that is not     *)
(* there, wherever the process was killed before.                          *)
THEOREM AlwaysBootable ==
  ASSUME NoRewinds PROVE Spec => []Bootable
BY SoundHolds, InitRecovery, NextRecovery, Recovered, PTL DEF Spec

-----------------------------------------------------------------------------
(* Import and mining, undisturbed.                                         *)

LEMMA ImportHolds ==
  ASSUME Undisturbed
  PROVE  Spec => []ImportInv
<1>1. ImportInv /\ TypeOK' /\ [Next]_vars => ImportInv'
  BY SectionStep, NextImport, Zenon
<1> QED BY <1>1, TypeCorrect, InitImport, PTL DEF Spec

(* Canonical numbers lead to the ancestors of the head after every         *)
(* extension and reorganisation, whoever of importer, miner and sweeper    *)
(* takes mu when (BlockChain.insert and reorg).                            *)
THEOREM CanonFollowsHead ==
  ASSUME Undisturbed
  PROVE  Spec => []CanonMatchesHead
<1>1. ASSUME ImportInv PROVE CanonMatchesHead
  BY <1>1, FreeUnlocked, Zenon DEF CanonMatchesHead, Quiet, Unlocked, Described, Listed
<1> QED BY <1>1, ImportHolds, PTL

(* Total difficulties add up at every step, though WriteBlockAndState      *)
(* reads the parent's before it takes mu.                                  *)
THEOREM TdsAddUp ==
  ASSUME Undisturbed
  PROVE  Spec => []TdSound
<1>1. ImportInv => TdSound
  BY Zenon DEF ImportInv, StoreInv, Stored
<1> QED BY <1>1, ImportHolds, PTL

(* The transaction index knows the transactions of the canonical chain and *)
(* no others, when no chain holds one twice: reorg's TxDifference deletes  *)
(* enough and not too much.                                                *)
THEOREM LookupFollowsCanon ==
  ASSUME Undisturbed, NoReplay
  PROVE  Spec => []LookupMatchesCanon
<1>1. ASSUME ImportInv PROVE LookupMatchesCanon
  BY <1>1, FreeUnlocked, Zenon DEF LookupMatchesCanon, Quiet, Unlocked, Described, Indexed
<1> QED BY <1>1, ImportHolds, PTL

(* The chain manager implements the fork choice: seen from one release of  *)
(* mu to the next, WriteBlockAndState adds one block, and moves the head   *)
(* to it only if it has more total difficulty, or as much at no higher     *)
(* number, when no peer offers a block that the miner has yet to write.    *)
THEOREM RefinesForkChoice ==
  ASSUME Undisturbed, Fresh
  PROVE  Spec => ImplementsForkChoice
<1>1. Spec => []ImportInv /\ []Ends /\ []Mapped
  BY ImportHolds, TypeCorrect, EndsHolds, MappedHolds, PTL
<1>2. ImportInv /\ Section => Progress
  BY SectionStep, Zenon
<1>3. Spec => []FreshInv
  <2>1. ImportInv /\ FreshInv /\ Ends /\ Ends' /\ [Next]_vars => FreshInv'
    BY <1>2, NextFresh, Zenon
  <2> QED BY <1>1, <2>1, InitFresh, PTL DEF Spec
<1>4. ImportInv /\ FreshInv /\ Ends /\ Mapped /\ Mapped' /\ [Next]_vars
        => [FC!ChoiceNext]_(FC!fcvars)
  BY <1>2, NextRefines, Zenon
<1> QED BY <1>1, <1>3, <1>4, InitRefines, PTL DEF Spec, ImplementsForkChoice, FC!ChoiceSpec

(* What the fork choice promises, carried over.                            *)
Rule == INSTANCE ForkChoiceProofs WITH
          known <- KnownBlocks,
          weight <- [b \in Block |-> IF b \in KnownBlocks THEN tds[b] ELSE 0],
          best <- IF Writing THEN Pending.o ELSE currentBlock

(* Whoever takes mu in whatever order, the head is a heaviest of the       *)
(* stored blocks whenever mu is free.                                      *)
THEOREM HeadAlwaysHeaviest ==
  ASSUME Undisturbed, Fresh
  PROVE  Spec => []HeadIsHeaviest
<1>1. Spec => []Rule!BestIsBest
  <2>1. FC!ChoiceInit => Rule!ChoiceInit
    BY Zenon DEF FC!ChoiceInit, Rule!ChoiceInit
  <2>2. [FC!ChoiceNext]_(FC!fcvars) => [Rule!ChoiceNext]_(Rule!fcvars)
    BY Zenon DEF FC!ChoiceNext, Rule!ChoiceNext, FC!Add, Rule!Add, FC!Weight, Rule!Weight,
       FC!Better, Rule!Better, FC!Even, Rule!Even, FC!fcvars, Rule!fcvars
  <2> QED BY <2>1, <2>2, RefinesForkChoice, TreeAssumption, Rule!AlwaysBest, PTL
          DEF ImplementsForkChoice, FC!ChoiceSpec, Rule!ChoiceSpec
<1>2. ImportInv /\ Rule!BestIsBest => HeadIsHeaviest
  <2> SUFFICES ASSUME ImportInv, Rule!BestIsBest, Quiet
               PROVE  \A b \in Full : \/ tds[b] < tds[currentBlock]
                                      \/ /\ tds[b] = tds[currentBlock]
                                         /\ number[currentBlock] <= number[b]
    BY Zenon DEF HeadIsHeaviest
  <2>1. holder = "none" /\ currentBlock \in headers
    BY FreeUnlocked, Zenon DEF Quiet, Unlocked
  <2>2. ~Writing /\ KnownBlocks = Full /\ Full = headers /\ headers \subseteq Block
    BY <2>1, Zenon DEF Writing, Writer, KnownBlocks, Full, ImportInv, StoreInv, Stored, TypeOK
  <2> QED BY <2>1, <2>2, Zenon DEF Rule!BestIsBest
<1> QED BY <1>1, <1>2, ImportHolds, PTL
=============================================================================
