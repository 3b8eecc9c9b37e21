----------------------------- MODULE MCFastSync -----------------------------
(* Chains of three blocks that peers offer for fast synchronisation: c3    *)
(* and the badly sealed x3 fork off behind the pivot, b1 before it.        *)
EXTENDS FastSync, TLC

CONSTANTS g, a1, a2, a3, b1, b2, b3, c3, x3, t1

MCBlock == {g, a1, a2, a3, c3, x3, b1, b2, b3}
MCParent == (g :> g) @@ (a1 :> g) @@ (a2 :> a1) @@ (a3 :> a2)
            @@ (b1 :> g) @@ (b2 :> b1) @@ (b3 :> b2) @@ (c3 :> a2) @@ (x3 :> a2)
MCNumber == (g :> 0) @@ (a1 :> 1) @@ (a2 :> 2) @@ (a3 :> 3) @@ (b1 :> 1) @@ (b2 :> 2) @@ (b3 :> 3)
            @@ (c3 :> 3) @@ (x3 :> 3)
MCDifficulty == [b \in MCBlock |-> 1]
MCTxs == [b \in MCBlock |-> IF b \in {a1, b2} THEN {t1} ELSE {}]
MCPath == <<a1, a2, a3>>
MCOther == <<b1, b2, b3>>
MCShort == <<a1, a2>>
MCLate == <<a1, a2, c3>>
MCForged == <<a1, a2, x3>>
LatePaths == {MCPath, MCLate, MCForged}
TwoPaths == {MCPath, MCOther}

(* Three settings, told apart by focus: retries over chains that differ    *)
(* behind the pivot (the constants of the configuration), over chains that *)
(* differ before it, and of one chain in a process that may die.           *)
VARIABLE focus
Forked == INSTANCE FastSync WITH Paths <- TwoPaths, Pivots <- {2}, CriticalTrials <- 2
Dying == INSTANCE FastSync WITH Paths <- {MCShort}, Pivots <- {1}, CriticalTrials <- 2, CanCrash <- TRUE

MCInit == FInit /\ focus \in {"late", "forked", "dying"}
MCNext ==
  \/ focus = "late" /\ FNext /\ UNCHANGED focus
  \/ focus = "forked" /\ Forked!FNext /\ UNCHANGED focus
  \/ focus = "dying" /\ Dying!FNext /\ UNCHANGED focus
MCSpec == MCInit /\ [][MCNext]_<<fvars, focus>>

(* The constants of the configuration only.                                *)
RaceSpec == FInit /\ focus = "late" /\ [][focus = "late" /\ MCNext]_<<fvars, focus>>
-----------------------------------------------------------------------------
(* With peers that agree up to the pivot there is no hole below the fast   *)
(* head and the head block, and canonical numbers follow the header chain  *)
(* (with peers that differ before it, findAncestor takes a header of an    *)
(* abandoned sync for the ancestor and leaves a hole).                     *)
LateHeads == focus = "late" => FastHeadComplete /\ CanonMatchesHeader

(* Total difficulties agree in a process that lives, whichever peers it    *)
(* syncs with.                                                             *)
LiveTdSound == focus # "dying" => TdSound

(* Nothing is dereferenced that a rollback or a crash took away.           *)
HeadsSurvive == focus # "forked" => HeadsHaveTd /\ NoPanic
=============================================================================
