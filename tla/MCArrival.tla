-------------------------------- MODULE MCArrival ---------------------------------
(* What peers announce and deliver outside a sync, and the download of a    *)
(* state trie with shared nodes.                                            *)
EXTENDS Fetcher, Integers, TLC
VARIABLES focus, db, batch, requests, data, deps, parents, missing, tasks, attempts, active,
  finished, fired, wire, idle, peers, drops, todo, root, sent, churn, syncs, stage

(* Two children of genesis with the same body, one of them unsound, and an *)
(* empty block on the sound one.                                           *)
Blocks == {"g", "a1", "b1", "a2"}
Parents == ("g" :> "g") @@ ("a1" :> "g") @@ ("b1" :> "g") @@ ("a2" :> "a1")
Difficulties == [b \in Blocks |-> 1]
Bodies == [b \in Blocks |-> IF b \in {"a1", "b1"} THEN {"t1"} ELSE {}]
NumberOf == ("g" :> 0) @@ ("a1" :> 1) @@ ("b1" :> 1) @@ ("a2" :> 2)
(* The root has a child twice, and two children share one.                 *)
Kids == ("r" :> <<"a", "b", "a">>) @@ ("a" :> <<"c">>) @@ ("b" :> <<"c">>) @@ ("c" :> <<>>)

T == INSTANCE StateSync WITH Peer <- {"p1", "p2"}, Node <- {"r", "a", "b", "c"}, Roots <- {"r"},
  kids <- Kids, Known <- {}, Capacity <- {2}, Stalling <- 1, MaxRequests <- 3, MaxChurn <- 1,
  MaxSyncs <- 2, at <- stage

(* A behaviour is of one component; those of the other stay as they are.   *)
MCInit ==
  /\ FetcherInit
  /\ \/ /\ focus = "fetcher"
        /\ db = 0 /\ batch = 0 /\ requests = 0 /\ data = 0 /\ deps = 0 /\ parents = 0
        /\ missing = 0 /\ tasks = 0 /\ attempts = 0 /\ active = 0 /\ finished = 0 /\ fired = 0
        /\ wire = 0 /\ idle = 0 /\ peers = 0 /\ drops = 0 /\ todo = 0 /\ root = 0 /\ sent = 0
        /\ churn = 0 /\ syncs = 0 /\ stage = 0
     \/ focus = "state" /\ T!StateInit

MCNext ==
  \/ /\ focus = "fetcher" /\ FetcherNext
     /\ UNCHANGED <<focus, db, batch, requests, data, deps, parents, missing, tasks, attempts,
       active, finished, fired, wire, idle, peers, drops, todo, root, sent, churn, syncs, stage>>
  \/ /\ focus = "state" /\ T!StateNext
     /\ UNCHANGED <<focus, fetcherVars>>

mcVars == <<focus, fetcherVars, db, batch, requests, data, deps, parents, missing, tasks,
  attempts, active, finished, fired, wire, idle, peers, drops, todo, root, sent, churn, syncs,
  stage>>
MCSpec == MCInit /\ [][MCNext]_mcVars
-----------------------------------------------------------------------------
(* A missing node is in one place, dependency counts are exact and a sync   *)
(* that ends well has its root.                                             *)
StateSound == focus = "state" => T!StateSound

(* A node is in the database only with its whole subtree, whenever the      *)
(* process dies.                                                            *)
DatabaseClosed == focus = "state" => T!DatabaseClosed

=============================================================================
