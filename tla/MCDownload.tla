-------------------------------- MODULE MCDownload --------------------------------
(* A sync with two or three peers: the skeleton of headers, and the queue   *)
(* of bodies and receipts of a fast sync whose pivot is block 1.            *)
EXTENDS DownloadQueue, Integers, TLC
VARIABLES focus, phase, skeleton, from, timer, request, rest, taskPool, taskQueue, peerMiss,
  pendPool, results, proced, cont, running, todo, procCh, handed, origin, proc

(* The requests an earlier sync may have left unanswered.                  *)
LateRequests == [k \in {"body", "receipt"} |-> [p \in {"p1", "p2"} |->
                  IF k = "body" /\ p = "p2" THEN {<<1, 3>>} ELSE {}]]

S == INSTANCE Skeleton WITH Peer <- {"m", "a", "b"}, Master <- "m", Top <- 5,
  MaxHeaderFetch <- 2, MaxSkeletonSize <- 2

(* A behaviour is of one component; the variables of the others stay blank.  *)
MCInit ==
  \/ /\ focus = "skeleton" /\ S!Init
     /\ scheduled = 0 /\ tasks = 0 /\ pend = 0 /\ done = 0 /\ result = 0 /\ closed = 0
     /\ filled = 0 /\ leaving = 0 /\ lacking = 0 /\ wire = 0 /\ churn = 0 /\ at = 0 /\ work = 0
     /\ stuck = 0 /\ headers = 0 /\ processor = 0 /\ cancelled = 0 /\ broken = 0
  \/ /\ focus = "queue" /\ QueueInit
     /\ phase = 0 /\ skeleton = 0 /\ from = 0 /\ timer = 0 /\ request = 0 /\ rest = 0
     /\ taskPool = 0 /\ taskQueue = 0 /\ peerMiss = 0 /\ pendPool = 0 /\ results = 0
     /\ proced = 0 /\ cont = 0 /\ running = 0 /\ todo = 0 /\ procCh = 0 /\ handed = 0
     /\ origin = 0 /\ proc = 0

MCNext ==
  \/ /\ focus = "skeleton" /\ S!Next
     /\ UNCHANGED <<focus, scheduled, tasks, pend, done, result, closed, filled, leaving,
       lacking, wire, churn, at, work, stuck, headers, processor, cancelled, broken>>
  \/ /\ focus = "queue" /\ QueueNext
     /\ UNCHANGED <<focus, phase, skeleton, from, timer, request, rest, taskPool, taskQueue,
       peerMiss, pendPool, results, proced, cont, running, todo, procCh, handed, origin, proc>>

mcVars == <<focus, phase, skeleton, from, timer, request, rest, taskPool, taskQueue, peerMiss,
  pendPool, results, proced, offset, cont, finished, running, todo, idle, peers, procCh, handed,
  origin, proc, scheduled, tasks, pend, done, result, closed, filled, leaving, lacking, wire,
  churn, at, work, stuck, headers, processor, cancelled, broken>>
MCSpec == MCInit /\ [][MCNext]_mcVars
-----------------------------------------------------------------------------
(* Headers reach the processor once and in order, every open batch of the   *)
(* skeleton is in one place and the end mark never blocks.                  *)
SkeletonSound == focus = "skeleton" => S!SkeletonSound

(* No part of a block is lost or fetched twice, the pending counts are      *)
(* exact, the result cache suffices and only whole results leave it.        *)
QueueHolds == focus = "queue" => QueueSound


=============================================================================
