----------------------------- MODULE StateSync -----------------------------
(***************************************************************************)
(* The download of a state trie: the scheduler of trie/sync.go, which      *)
(* knows the missing nodes and commits a node when its subtrees are there, *)
(* and the two goroutines of xdn/downloader/statesync.go: loop assigns     *)
(* nodes to peers and processes what they deliver, runStateSync keeps the  *)
(* requests that are in flight and passes the finished ones on.            *)
(*                                                                         *)
(* A node stands for its hash and its data; kids lists the hashes its data *)
(* refers to, storage roots and code included.  The depth that orders the  *)
(* queue of the scheduler and the sizes of the data are left out.          *)
(***************************************************************************)
EXTENDS Integers, Sequences, FiniteSets, SequencesExt

CONSTANTS
  Peer, Node,
  Roots,        \* the state roots that are asked for
  kids,         \* the children of a node, in order, perhaps with repetitions
  Known,        \* the nodes the database has at the start
  Capacity,     \* what NodeDataCapacity may return
  Stalling,     \* so few items that a timeout drops the peer (2)
  MaxRequests,  \* bound: the requests sent
  MaxChurn,     \* bound: the peers that disconnect or connect again
  MaxSyncs      \* bound: the syncs in a row

NoRequest == [id |-> 0, peer |-> "none", items |-> {}]  \* no request

VARIABLES
  db,        \* the nodes in the database
  batch,     \* membatch.order: the nodes completed and not yet written
  requests,  \* the nodes asked for and not complete
  data,      \* those of them whose data has come
  deps,      \* how many children such a node waits for
  parents,   \* the requests to tell when a node is complete
  missing,   \* the queue of the scheduler
  tasks,     \* the nodes to ask a peer for
  attempts,  \* the peers asked for a node in vain
  active,    \* the request in flight to a peer, or NoRequest
  finished,  \* the requests answered, dropped or timed out, in order
  fired,     \* the requests whose timer has gone off
  wire,      \* the requests a peer has yet to answer
  idle,      \* stateIdle: the peers free for a request
  peers,     \* the registered peers
  drops,     \* the departures runStateSync has yet to see
  at,        \* where loop is
  todo,      \* the idle peers it still has to go through
  root,      \* the root being synced
  sent, churn, syncs

sched == <<db, batch, requests, data, deps, parents, missing>>
flight == <<active, finished, fired, wire>>
bounds == <<sent, churn, syncs>>
stateVars == <<db, batch, requests, data, deps, parents, missing, tasks, attempts, active,
               finished, fired, wire, idle, peers, drops, at, todo, root, sent, churn, syncs>>

(* A request, and what has become of it.                                   *)
Request == [id : 1..MaxRequests, peer : Peer, items : SUBSET Node]
Answered(req, response) == [req |-> req, response |-> response, dropped |-> FALSE, late |-> FALSE]
Dropped(req) == [req |-> req, response |-> {}, dropped |-> TRUE, late |-> TRUE]
TimedOut(req) == [req |-> req, response |-> {}, dropped |-> FALSE, late |-> TRUE]
-----------------------------------------------------------------------------
(* trie/sync.go, on a record of the scheduler's variables.                 *)

Have(s, n) == n \in s.db \/ n \in ToSet(s.batch)

(* A faulty commit: a parent is written with its first complete child.     *)
SettledEarly(count) == TRUE
Settled(count) == count = 0

(* commit: a complete node goes to the batch, and its parents with it when *)
(* they wait for nothing else.                                             *)
RECURSIVE Commit(_, _)
Commit(s, n) ==
  FoldLeft(LAMBDA t, p : LET u == [t EXCEPT !.deps[p] = @ - 1]
                         IN IF Settled(u.deps[p]) THEN Commit(u, p) ELSE u,
           [s EXCEPT !.batch = Append(@, n), !.requests = @ \ {n}, !.data = @ \ {n}],
           s.parents[n])

(* schedule: a node that is asked for already only gets one more parent.   *)
Schedule(s, n, parent) ==
  IF n \in s.requests
  THEN [s EXCEPT !.parents[n] = Append(@, parent)]
  ELSE [s EXCEPT !.requests = @ \cup {n}, !.missing = @ \cup {n}, !.deps[n] = 0,
                 !.parents[n] = <<parent>>]

(* A faulty process: a child named twice is counted once.                  *)
ProcessNodeSet(s, n) ==
  LET unknown == SelectSeq(kids[n], LAMBDA c : ~Have(s, c))
      got == [s EXCEPT !.data = @ \cup {n}, !.deps[n] = Cardinality(ToSet(unknown))]
  IN IF n \notin s.requests \/ n \in s.data THEN s
     ELSE IF unknown = <<>> THEN Commit(got, n)
     ELSE FoldLeft(LAMBDA t, c : Schedule(t, c, n), got, unknown)

(* Process of one node: its unknown children are scheduled, and it is      *)
(* committed when there are none.  A node that is not asked for, or has    *)
(* come before, is passed over.                                            *)
ProcessNode(s, n) ==
  LET unknown == SelectSeq(kids[n], LAMBDA c : ~Have(s, c))
      got == [s EXCEPT !.data = @ \cup {n}, !.deps[n] = Len(unknown)]
  IN IF n \notin s.requests \/ n \in s.data THEN s
     ELSE IF unknown = <<>> THEN Commit(got, n)
     ELSE FoldLeft(LAMBDA t, c : Schedule(t, c, n), got, unknown)

Flushed(s) == [s EXCEPT !.db = @ \cup ToSet(s.batch), !.batch = <<>>]

Scheduler == [db |-> db, batch |-> batch, requests |-> requests, data |-> data,
              deps |-> deps, parents |-> parents, missing |-> missing]
Becomes(s) ==
  /\ db' = s.db /\ batch' = s.batch /\ requests' = s.requests /\ data' = s.data
  /\ deps' = s.deps /\ parents' = s.parents /\ missing' = s.missing

(* NewTrieSync: the root is asked for unless it is in the database.        *)
Fresh(known, r) ==
  [db |-> known, batch |-> <<>>, requests |-> {r} \ known, data |-> {},
   deps |-> [n \in Node |-> 0], parents |-> [n \in Node |-> <<>>], missing |-> {r} \ known]
-----------------------------------------------------------------------------
(* loop.                                                                   *)

(* With nothing left to ask for, the batch is written and the sync is done; *)
(* otherwise it is written when it has grown enough, and the idle peers get *)
(* tasks.                                                                   *)
Turn(flush) ==
  /\ at = "top"
  /\ IF requests = {}
     THEN Becomes(Flushed(Scheduler)) /\ at' = "done" /\ UNCHANGED todo
     ELSE /\ Becomes(IF flush THEN Flushed(Scheduler) ELSE Scheduler)
          /\ at' = "assign" /\ todo' = peers \cap idle
  /\ UNCHANGED <<tasks, attempts, flight, idle, peers, drops, root, bounds>>

(* fillTasks takes tasks not yet tried with the peer, refilled from the    *)
(* scheduler.  runStateSync tracks the request: one still in flight to     *)
(* that peer counts as dropped.                                            *)
Eligible(p, cap, more) ==
  LET all == {n \in tasks : p \notin attempts[n]} \cup more
  IN {S \in SUBSET all : Cardinality(S) = Min({cap, Cardinality(all)})}
Refill(cap) ==
  LET room == IF Cardinality(tasks) < cap THEN cap - Cardinality(tasks) ELSE 0
  IN {S \in SUBSET missing : Cardinality(S) = Min({room, Cardinality(missing)})}

Track(req) ==
  /\ active' = [active EXCEPT ![req.peer] = req]
  /\ finished' = IF active[req.peer] = NoRequest THEN finished
                 ELSE Append(finished, Dropped(active[req.peer]))

Assign(p, cap, more, items) ==
  LET req == [id |-> sent + 1, peer |-> p, items |-> items]
  IN /\ at = "assign" /\ p \in todo
     /\ more \in Refill(cap) /\ items \in Eligible(p, cap, more)
     /\ todo' = todo \ {p}
     /\ missing' = missing \ more
     /\ tasks' = (tasks \cup more) \ items
     /\ attempts' = [n \in Node |-> (IF n \in more THEN {} ELSE attempts[n])
                                    \cup (IF n \in items THEN {p} ELSE {})]
     /\ IF items = {}
        THEN UNCHANGED <<active, finished, wire, idle, sent>>
        ELSE /\ sent < MaxRequests /\ sent' = sent + 1
             /\ Track(req)
             /\ wire' = [wire EXCEPT ![p] = @ \cup {req}]
             /\ idle' = idle \ {p}
     /\ UNCHANGED <<db, batch, requests, data, deps, parents, fired, peers, drops, at, root,
                    churn, syncs>>
AssignEnd ==
  /\ at = "assign" /\ todo = {}
  /\ at' = "wait"
  /\ UNCHANGED <<sched, tasks, attempts, flight, idle, peers, drops, todo, root, bounds>>

(* A new peer, or nothing but a change of the peers, starts a new turn.    *)
NewPeer ==
  /\ at = "wait"
  /\ at' = "top"
  /\ UNCHANGED <<sched, tasks, attempts, flight, idle, peers, drops, todo, root, bounds>>

(* process takes the finished requests in order: what was delivered goes   *)
(* to the scheduler, the rest back to the tasks, where the peer may be     *)
(* asked again if it delivered something or ran out of time.  A node that  *)
(* all peers were asked for in vain ends the sync.                         *)
Stale(f) == f.response # {} /\ f.response \cap f.req.items = {}
(* A faulty process: what a peer did not deliver is not asked for again.   *)
RestLost(f) == {}
Rest(f) == f.req.items \ f.response
Retry(f) ==
  [n \in Node |-> IF n \in Rest(f) /\ (f.response # {} \/ f.late)
                  THEN attempts[n] \ {f.req.peer} ELSE attempts[n]]
Stalled(f) == Cardinality(f.req.items) <= Stalling /\ ~f.dropped /\ f.late
DropPeer(p) ==
  IF p \in peers THEN peers' = peers \ {p} /\ drops' = drops \cup {p}
  ELSE UNCHANGED <<peers, drops>>

Process ==
  LET f == Head(finished) IN
  /\ at = "wait" /\ finished # <<>>
  /\ finished' = Tail(finished)
  /\ Becomes(FoldLeft(ProcessNode, Scheduler, SetToSeq(f.response)))
  /\ IF Stalled(f) THEN DropPeer(f.req.peer) ELSE UNCHANGED <<peers, drops>>
  /\ attempts' = Retry(f)
  /\ tasks' = tasks \cup Rest(f)
  /\ at' = IF \E n \in Rest(f) : Cardinality(attempts'[n]) >= Cardinality(peers')
           THEN "failed" ELSE "top"
  /\ idle' = IF Stale(f) \/ at' = "failed" THEN idle ELSE idle \cup {f.req.peer}
  /\ UNCHANGED <<active, fired, wire, todo, root, bounds>>
-----------------------------------------------------------------------------
(* runStateSync.                                                           *)

Running == at \in {"top", "assign", "wait"}
(* An active request ends and is queued up for loop.                       *)
Finish(p, f) ==
  /\ active' = [active EXCEPT ![p] = NoRequest]
  /\ finished' = Append(finished, f)

(* Data arrives, an answer to this or an earlier request: it is taken as   *)
(* the answer to the one in flight, if there is one.                       *)
Response(p, asked, response) ==
  /\ Running
  /\ asked \in wire[p] /\ response \subseteq asked.items
  /\ wire' = [wire EXCEPT ![p] = @ \ {asked}]
  /\ IF active[p] # NoRequest THEN Finish(p, Answered(active[p], response))
     ELSE UNCHANGED <<active, finished>>
  /\ UNCHANGED <<sched, tasks, attempts, fired, idle, peers, drops, at, todo, root, bounds>>

PeerDrop(p) ==
  /\ Running /\ p \in drops
  /\ drops' = drops \ {p}
  /\ IF active[p] # NoRequest THEN Finish(p, Dropped(active[p]))
     ELSE UNCHANGED <<active, finished>>
  /\ UNCHANGED <<sched, tasks, attempts, fired, wire, idle, peers, at, todo, root, bounds>>

(* The timer of an active request goes off; by the time runStateSync hears *)
(* of it, the request may be over and another one active.                  *)
Fire(p) ==
  /\ Running /\ active[p] # NoRequest /\ active[p] \notin fired
  /\ fired' = fired \cup {active[p]}
  /\ UNCHANGED <<sched, tasks, attempts, active, finished, wire, idle, peers, drops, at, todo,
                 root, bounds>>
(* The request is still the active one of its peer: nothing answered it.   *)
StillActive(req) == active[req.peer] = req
Timeout(req) ==
  /\ Running /\ req \in fired
  /\ fired' = fired \ {req}
  /\ IF StillActive(req) THEN Finish(req.peer, TimedOut(req)) ELSE UNCHANGED <<active, finished>>
  /\ UNCHANGED <<sched, tasks, attempts, wire, idle, peers, drops, at, todo, root, bounds>>
-----------------------------------------------------------------------------
(* The peers, and the next sync.                                           *)

Unregister(p) ==
  /\ p \in peers /\ churn < MaxChurn /\ churn' = churn + 1
  /\ DropPeer(p)
  /\ UNCHANGED <<sched, tasks, attempts, flight, idle, at, todo, root, sent, syncs>>
Register(p) ==
  /\ p \notin peers \cup todo /\ churn < MaxChurn /\ churn' = churn + 1
  /\ peers' = peers \cup {p}
  /\ idle' = idle \cup {p}
  /\ wire' = [wire EXCEPT ![p] = {}]
  /\ UNCHANGED <<sched, tasks, attempts, active, finished, fired, drops, at, todo, root,
                 sent, syncs>>

(* Another root is asked for, or the sync is over: what is not written is  *)
(* lost.  The peers of the active requests are idle again.                 *)
NextSync(r) ==
  /\ at # "assign" /\ syncs < MaxSyncs /\ syncs' = syncs + 1
  /\ root' = r
  /\ Becomes(Fresh(db, r))
  /\ tasks' = {} /\ attempts' = [n \in Node |-> {}]
  /\ active' = [p \in Peer |-> NoRequest] /\ finished' = <<>> /\ fired' = {}
  /\ idle' = idle \cup {p \in Peer : active[p] # NoRequest}
  /\ drops' = {} /\ at' = "top" /\ todo' = {}
  /\ UNCHANGED <<wire, peers, sent, churn>>

(* The node crashes and starts again with what is in the database.         *)
Crash(r) ==
  /\ syncs < MaxSyncs /\ syncs' = syncs + 1
  /\ root' = r
  /\ Becomes(Fresh(db, r))
  /\ tasks' = {} /\ attempts' = [n \in Node |-> {}]
  /\ active' = [p \in Peer |-> NoRequest] /\ finished' = <<>> /\ fired' = {}
  /\ idle' = Peer /\ peers' = Peer /\ wire' = [p \in Peer |-> {}]
  /\ drops' = {} /\ at' = "top" /\ todo' = {}
  /\ UNCHANGED <<sent, churn>>
-----------------------------------------------------------------------------
StateInit ==
  \E r \in Roots :
    LET s == Fresh(Known, r) IN
    /\ db = s.db /\ batch = s.batch /\ requests = s.requests /\ data = s.data
    /\ deps = s.deps /\ parents = s.parents /\ missing = s.missing
    /\ tasks = {} /\ attempts = [n \in Node |-> {}]
    /\ active = [p \in Peer |-> NoRequest] /\ finished = <<>> /\ fired = {}
    /\ wire = [p \in Peer |-> {}] /\ idle = Peer /\ peers = Peer /\ drops = {}
    /\ at = "top" /\ todo = {} /\ root = r /\ sent = 0 /\ churn = 0 /\ syncs = 1

StateNext ==
  \/ \E flush \in BOOLEAN : Turn(flush)
  \/ \E p \in todo, cap \in Capacity : \E more \in Refill(cap) :
       \E items \in Eligible(p, cap, more) : Assign(p, cap, more, items)
  \/ AssignEnd \/ NewPeer \/ Process
  \/ \E p \in Peer : \E asked \in wire[p] : \E response \in SUBSET asked.items :
       Response(p, asked, response)
  \/ \E p \in Peer : PeerDrop(p) \/ Fire(p) \/ Unregister(p) \/ Register(p)
  \/ \E req \in fired : Timeout(req)
  \/ \E r \in Roots : NextSync(r) \/ Crash(r)

StateSpec == StateInit /\ [][StateNext]_stateVars
-----------------------------------------------------------------------------
(* The variables have their types.                                         *)
StateTypeOK ==
  /\ db \subseteq Node /\ batch \in Seq(Node) /\ requests \subseteq Node
  /\ data \subseteq requests /\ deps \in [Node -> Nat] /\ parents \in [Node -> Seq(Node)]
  /\ missing \subseteq requests /\ tasks \subseteq Node /\ attempts \in [Node -> SUBSET Peer]
  /\ active \in [Peer -> Request \cup {NoRequest}] /\ fired \subseteq Request
  /\ wire \in [Peer -> SUBSET Request] /\ idle \subseteq Peer /\ peers \subseteq Peer
  /\ at \in {"top", "assign", "wait", "done", "failed"} /\ todo \subseteq Peer

(* A node is in the database only with its whole subtree, whenever the     *)
(* node crashes; and the batch is in an order in which every part of it    *)
(* written keeps that so.                                                  *)
DatabaseClosed ==
  /\ \A n \in db : ToSet(kids[n]) \subseteq db
  /\ \A i \in DOMAIN batch : ToSet(kids[batch[i]]) \subseteq db \cup ToSet(SubSeq(batch, 1, i - 1))

(* A sync that reports success has the root.                               *)
DoneMeansRoot == at = "done" => root \in db

(* No node is lost or asked for twice: each that is missing waits in the   *)
(* scheduler, is a task, or belongs to one request that is active or       *)
(* finished and not processed, whatever timeouts, departures and late      *)
(* answers do.                                                             *)
InFlight(n) ==
  {p \in Peer : active[p] # NoRequest /\ n \in active[p].items}
  \cup {i \in DOMAIN finished : n \in finished[i].req.items}
EachAskedOnce ==
  Running => \A n \in requests \ data :
    Cardinality({"queue" : x \in missing \cap {n}} \cup {"task" : x \in tasks \cap {n}})
    + Cardinality(InFlight(n)) = 1

(* A node whose data has come waits for exactly its children that have not *)
(* been committed, and for at least one: none is kept back for ever.       *)
DepsExact ==
  \A n \in data :
    /\ deps[n] > 0
    /\ deps[n] = Cardinality({i \in DOMAIN kids[n] : kids[n][i] \in requests})
    /\ \A i \in DOMAIN kids[n] : kids[n][i] \in requests \cup db \cup ToSet(batch)

(* The bookkeeping of the scheduler and of the requests as a whole.        *)
StateSound == StateTypeOK /\ DoneMeansRoot /\ EachAskedOnce /\ DepsExact
=============================================================================
