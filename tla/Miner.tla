------------------------------- MODULE Miner --------------------------------
(* miner/: starting and stopping around a sync (miner.go), the worker that  *)
(* commits and pushes work (worker.go), and the CPU agent with its update   *)
(* goroutines and seal searches (agent.go, Dnpoc.Seal).                     *)
(*                                                                          *)
(* A piece of work is its number and the head it was built on.  stop is a   *)
(* channel with room for one.                                               *)
EXTENDS Integers, Sequences, FiniteSets

CONSTANTS MaxHeads,          \* bound on the heads of the chain
          MaxCalls,          \* bound on the calls of Start and Stop
          MaxSyncs           \* bound on the syncs of the downloader

Caller == {"user", "update"}
NoWork == <<0, 0>>

VARIABLES
  canStart, shouldStart, mining,  \* Miner's atomics
  call,       \* what each caller of Start or Stop is about to do
  looping, syncs, syncing,        \* Miner.update, and the downloader
  wmining,    \* worker.mining; mu protects it
  heads, seen,   \* the chain's head, and whether update() has seen it
  isMining, stop, workCh,   \* the agent and its channels
  loops,      \* how many agent.update goroutines run
  quitOp,     \* the search quitCurrentOp belongs to
  search,     \* running searches: their work, and whether they were told to stop
  recv,       \* results in the channel recv
  mustCommit,    \* mustCommitNewWork of worker.wait
  pushes, calls

minerVars == <<canStart, shouldStart, mining, call, looping, syncs, syncing, wmining, heads, seen,
               isMining, stop, workCh, loops, quitOp, search, recv, mustCommit, pushes, calls>>
agent == <<isMining, stop, workCh, loops, quitOp, search, recv>>
control == <<canStart, shouldStart, mining, call, looping, syncs, syncing, calls>>
work == <<wmining, heads, seen, mustCommit, pushes>>
-----------------------------------------------------------------------------
(* commitNewWork and push, under mu: a full work channel blocks.            *)
Push ==
  IF wmining THEN workCh = NoWork /\ workCh' = <<pushes + 1, heads>> /\ pushes' = pushes + 1
  ELSE UNCHANGED <<workCh, pushes>>

(* Start and Stop, one atomic access or critical section at a time.         *)
StartCall(c) ==
  /\ call[c] = "start"
  /\ shouldStart' = TRUE
  /\ call' = [call EXCEPT ![c] = "check"]
  /\ UNCHANGED <<canStart, mining, looping, syncs, syncing, calls, work, agent>>
Check(c) ==
  /\ call[c] = "check"
  /\ call' = [call EXCEPT ![c] = IF canStart THEN "mining" ELSE "idle"]
  /\ UNCHANGED <<canStart, shouldStart, mining, looping, syncs, syncing, calls, work, agent>>
SetMining(c) ==
  /\ call[c] = "mining"
  /\ mining' = TRUE /\ call' = [call EXCEPT ![c] = "spin"]
  /\ UNCHANGED <<canStart, shouldStart, looping, syncs, syncing, calls, work, agent>>
SpinUp(c) ==
  /\ call[c] = "spin"
  /\ wmining' = TRUE /\ isMining' = TRUE
  /\ loops' = IF isMining THEN loops ELSE loops + 1
  /\ call' = [call EXCEPT ![c] = "commit"]
  /\ UNCHANGED <<canStart, shouldStart, mining, looping, syncs, syncing, calls, heads, seen, mustCommit, pushes,
                 stop, workCh, quitOp, search, recv>>
Commit(c) ==
  /\ call[c] = "commit"
  /\ Push /\ call' = [call EXCEPT ![c] = "idle"]
  /\ UNCHANGED <<canStart, shouldStart, mining, looping, syncs, syncing, calls, wmining, heads, seen, mustCommit,
                 isMining, stop, loops, quitOp, search, recv>>

(* worker.stop: the agent's Stop leaves a token for its goroutine and       *)
(* empties the work channel.                                                *)
StopAgent(c) ==
  /\ call[c] = "stop"
  /\ IF wmining /\ isMining
     THEN ~stop /\ stop' = TRUE /\ workCh' = NoWork /\ isMining' = FALSE
     ELSE UNCHANGED <<stop, workCh, isMining>>
  /\ wmining' = FALSE /\ call' = [call EXCEPT ![c] = "clear"]
  /\ UNCHANGED <<canStart, shouldStart, mining, looping, syncs, syncing, calls, heads, seen, mustCommit, pushes,
                 loops, quitOp, search, recv>>
ClearMining(c) ==
  /\ call[c] = "clear"
  /\ mining' = FALSE /\ call' = [call EXCEPT ![c] = "should"]
  /\ UNCHANGED <<canStart, shouldStart, looping, syncs, syncing, calls, work, agent>>
ClearShould(c) ==
  /\ call[c] = "should"
  /\ shouldStart' = FALSE /\ call' = [call EXCEPT ![c] = IF c = "update" THEN "aborted" ELSE "idle"]
  /\ UNCHANGED <<canStart, mining, looping, syncs, syncing, calls, work, agent>>

UserCall(op) ==
  /\ call["user"] = "idle" /\ calls < MaxCalls
  /\ call' = [call EXCEPT !["user"] = op] /\ calls' = calls + 1
  /\ UNCHANGED <<canStart, shouldStart, mining, looping, syncs, syncing, work, agent>>
-----------------------------------------------------------------------------
(* Miner.update over the events of the downloader.                          *)
StartEvent ==
  /\ looping /\ call["update"] = "idle" /\ ~syncing /\ syncs < MaxSyncs
  /\ syncing' = TRUE /\ syncs' = syncs + 1 /\ canStart' = FALSE
  /\ call' = [call EXCEPT !["update"] = "mining?"]
  /\ UNCHANGED <<shouldStart, mining, looping, calls, work, agent>>
IfMining ==
  /\ call["update"] = "mining?"
  /\ call' = [call EXCEPT !["update"] = IF mining THEN "stop" ELSE "idle"]
  /\ UNCHANGED <<canStart, shouldStart, mining, looping, syncs, syncing, calls, work, agent>>
Aborted ==
  /\ call["update"] = "aborted"
  /\ shouldStart' = TRUE /\ call' = [call EXCEPT !["update"] = "idle"]
  /\ UNCHANGED <<canStart, mining, looping, syncs, syncing, calls, work, agent>>
DoneEvent ==
  /\ looping /\ call["update"] = "idle" /\ syncing
  /\ syncing' = FALSE /\ canStart' = TRUE /\ shouldStart' = FALSE /\ looping' = FALSE
  /\ call' = [call EXCEPT !["update"] = IF shouldStart THEN "start" ELSE "idle"]
  /\ UNCHANGED <<mining, syncs, calls, work, agent>>
-----------------------------------------------------------------------------
(* The agent's update goroutines.                                           *)
Told(s) == [w \in DOMAIN s |-> IF w = quitOp THEN TRUE ELSE s[w]]
TakeWork ==
  /\ loops > 0 /\ workCh # NoWork
  /\ quitOp' = workCh /\ workCh' = NoWork
  /\ search' = [w \in DOMAIN search \cup {workCh} |-> IF w = workCh THEN FALSE ELSE Told(search)[w]]
  /\ UNCHANGED <<control, work, isMining, stop, loops, recv>>

(* A faulty end: the search goes on.                                        *)
TakeStopOnly ==
  /\ loops > 0 /\ stop
  /\ stop' = FALSE /\ loops' = loops - 1
  /\ UNCHANGED <<control, work, isMining, workCh, quitOp, search, recv>>
TakeStop ==
  /\ loops > 0 /\ stop
  /\ stop' = FALSE /\ loops' = loops - 1 /\ search' = Told(search) /\ quitOp' = NoWork
  /\ UNCHANGED <<control, work, isMining, workCh, recv>>

(* Seal returns: with a block, or because it was told to.                   *)
Seal(w) ==
  /\ w \in DOMAIN search /\ Len(recv) < 2
  /\ search' = [v \in DOMAIN search \ {w} |-> search[v]]
  /\ \E r \in (IF w[2] < MaxHeads THEN {w} ELSE {}) \cup (IF search[w] THEN {NoWork} ELSE {}) : recv' = Append(recv, r)
  /\ UNCHANGED <<control, work, isMining, stop, workCh, loops, quitOp>>

(* worker.wait: a block that extends the head is the new head.  For a side  *)
(* block it commits new work itself, but only until its first canonical     *)
(* block: mustCommitNewWork is never set again.                             *)
Wait ==
  /\ recv # <<>> /\ recv' = Tail(recv)
  /\ LET canon == Head(recv)[2] = heads IN
     /\ heads' = IF canon THEN heads + 1 ELSE heads
     /\ seen' = (seen /\ ~canon) /\ mustCommit' = (mustCommit /\ ~canon)
     /\ IF ~canon /\ Head(recv) # NoWork /\ mustCommit THEN Push ELSE UNCHANGED <<workCh, pushes>>
  /\ UNCHANGED <<control, wmining, isMining, stop, loops, quitOp, search>>

(* Others extend the chain; the worker's update commits new work for it.    *)
NewHead ==
  /\ heads < MaxHeads /\ heads' = heads + 1 /\ seen' = FALSE
  /\ UNCHANGED <<control, wmining, mustCommit, pushes, agent>>
HeadEvent ==
  /\ ~seen /\ seen' = TRUE
  /\ Push
  /\ UNCHANGED <<control, wmining, mustCommit, heads, isMining, stop, loops, quitOp, search, recv>>
-----------------------------------------------------------------------------
Init ==
  /\ canStart = TRUE /\ shouldStart = FALSE /\ mining = FALSE /\ calls = 0 /\ pushes = 0
  /\ call = [c \in Caller |-> "idle"] /\ looping = TRUE /\ syncs = 0 /\ syncing = FALSE
  /\ wmining = FALSE /\ heads = 1 /\ seen = TRUE /\ mustCommit = TRUE
  /\ isMining = FALSE /\ stop = FALSE /\ workCh = NoWork /\ loops = 0 /\ quitOp = NoWork
  /\ search = [w \in {} |-> FALSE] /\ recv = <<>>

Work ==
  \/ \E c \in Caller : \/ StartCall(c) \/ Check(c) \/ SetMining(c) \/ SpinUp(c) \/ Commit(c)
                       \/ StopAgent(c) \/ ClearMining(c) \/ ClearShould(c)
  \/ IfMining \/ Aborted \/ TakeWork \/ TakeStop \/ Wait \/ HeadEvent
  \/ \E w \in DOMAIN search : search[w] /\ Seal(w)
Next ==
  \/ \E op \in {"start", "stop"} : UserCall(op)
  \/ StartEvent \/ DoneEvent \/ NewHead \/ Work \/ \E w \in DOMAIN search : Seal(w)
Spec == Init /\ [][Next]_minerVars
-----------------------------------------------------------------------------
(* Stopping and starting in quick succession leaves one goroutine for each  *)
(* time the agent is on, and tokens for the rest.                           *)
LoopsMatch == loops - (IF stop THEN 1 ELSE 0) = IF isMining THEN 1 ELSE 0

(* The miner never searches on two blocks at once without having told the   *)
(* older search to stop, and no search survives the last goroutine.         *)
OneSearch ==
  /\ \A w \in DOMAIN search : ~search[w] => w = quitOp
  /\ loops = 0 => quitOp = NoWork /\ \A w \in DOMAIN search : search[w]

(* Work waits in the channel only for an agent that will take it, so that   *)
(* no commitNewWork blocks for ever with the worker's lock held.            *)
WorkTaken == workCh # NoWork => isMining

(* No caller of Start or Stop, and no head event, is stuck.                 *)
MinerMoves == (\E c \in Caller : call[c] # "idle") \/ ~seen => ENABLED Work

MinerSound == LoopsMatch /\ OneSearch /\ WorkTaken /\ MinerMoves
=============================================================================
