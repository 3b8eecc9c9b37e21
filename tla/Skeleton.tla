------------------------------ MODULE Skeleton ------------------------------
(* Header download by skeleton: fetchHeaders and fillHeaderSkeleton of      *)
(* xdn/downloader/downloader.go with the header side of queue.go.  The      *)
(* master is asked for every MaxHeaderFetch-th header; the gaps are filled  *)
(* by all peers; what is complete from the start on is passed to the header *)
(* processor early, the rest when the skeleton is full.                     *)
(*                                                                          *)
(* A header is its number.  Peers answer with the headers of the one chain  *)
(* 1..Top or with nothing, perhaps after the request has expired; an answer *)
(* is told from another only by its sender.                                 *)
EXTENDS Integers, Sequences, FiniteSets, SequencesExt, FiniteSetsExt

CONSTANTS Peer, Master,      \* the peers, and the one synced with
          Top,               \* the master's highest header
          MaxHeaderFetch, MaxSkeletonSize

VARIABLES
  phase,        \* fetchHeaders: wait, ask, fill, assign, send, end, done, failed
  skeleton, from, timer,
  request,      \* requests the peers have not answered
  rest,         \* the batch being sent on headerProcCh
  taskPool, taskQueue, peerMiss, pendPool, results, proced, offset, cont,
  finished, running, todo, idle, peers,
  procCh,       \* headerProcCh, of capacity one
  handed,       \* all that was ever sent on it
  origin, proc  \* processHeaders: the next number, and run, done or failed

fill == <<taskPool, taskQueue, peerMiss, pendPool, results, proced, offset, cont, finished>>
round == <<running, todo>>
out == <<procCh, handed>>
skelVars == <<phase, skeleton, from, timer, request, rest, fill, round, idle, peers, out, origin, proc>>

Batch(first) == [i \in 1..MaxHeaderFetch |-> first + i - 1]
Present(s) == SelectSeq(s, LAMBDA n : n <= Top)

(* What the chain has for a request.                                        *)
Answer(r) ==
  CASE r.kind = "skeleton" ->
         Present([i \in 1..MaxSkeletonSize |-> r.from + i * MaxHeaderFetch - 1])
    [] OTHER -> Present(Batch(r.from))

Filling == phase \in {"fill", "assign"}
-----------------------------------------------------------------------------
(* getHeaders arms the timer and asks the master.                           *)
GetHeaders(first, skel) ==
  /\ from' = first /\ skeleton' = skel /\ timer' = TRUE /\ phase' = "wait"
  /\ request' = request \cup {[peer |-> Master, kind |-> IF skel THEN "skeleton" ELSE "full",
                               from |-> first]}

ScheduleSkeleton(headers) ==
  LET index(i) == from + (i - 1) * MaxHeaderFetch
      pool == {index(i) : i \in DOMAIN headers}
  IN /\ taskPool' = [f \in pool |-> headers[(f - from) \div MaxHeaderFetch + 1]]
     /\ taskQueue' = pool /\ peerMiss' = [p \in Peer |-> {}]
     /\ results' = [i \in 1..(Len(headers) * MaxHeaderFetch) |-> 0]
     /\ proced' = 0 /\ offset' = from /\ cont' = 0 /\ finished' = FALSE
     /\ UNCHANGED pendPool

(* An answer while fetchHeaders waits for the master: nothing from another  *)
(* peer counts, whichever request it is for.                                *)
Receive(r, headers) ==
  /\ phase = "wait" /\ r \in request /\ headers \in {<<>>, Answer(r)}
  /\ IF r.peer # Master THEN request' = request \ {r} /\ UNCHANGED <<phase, skeleton, from, timer, rest, fill>>
     ELSE /\ timer' = FALSE /\ request' = request \ {r}
          /\ UNCHANGED <<skeleton, from>>
          /\ \/ headers = <<>> /\ phase' = (IF skeleton THEN "ask" ELSE "end") /\ UNCHANGED <<rest, fill>>
             \/ headers # <<>> /\ skeleton /\ phase' = "fill"
                /\ ScheduleSkeleton(headers) /\ UNCHANGED rest
             \/ headers # <<>> /\ ~skeleton /\ phase' = "send" /\ rest' = headers /\ UNCHANGED fill
  /\ UNCHANGED <<round, idle, peers, out, origin, proc>>

(* The skeleton is at its end: the last headers are asked for directly.     *)
AskDirectly ==
  /\ phase = "ask"
  /\ GetHeaders(from, FALSE)
  /\ UNCHANGED <<rest, fill, round, idle, peers, out, origin, proc>>

Put(headers) == procCh' = <<headers>> /\ handed' = handed \o headers

Send ==
  /\ phase = "send" /\ (rest = <<>> \/ procCh = <<>>)
  /\ IF rest = <<>> THEN UNCHANGED out ELSE Put(rest)
  /\ GetHeaders(from + Len(rest), skeleton)
  /\ rest' = <<>>
  /\ UNCHANGED <<fill, round, idle, peers, origin, proc>>

(* No more headers: the processor is told with an empty batch.              *)
End ==
  /\ phase = "end" /\ procCh = <<>>
  /\ procCh' = <<<<>>>> /\ phase' = "done"
  /\ UNCHANGED <<skeleton, from, timer, request, rest, fill, round, idle, peers, handed, origin, proc>>

(* Cancel, by the loss of the master or an error of any of the loops.       *)
Fail ==
  /\ phase' = "failed" /\ proc' = IF proc = "done" THEN proc ELSE "failed"

Timeout ==
  /\ phase = "wait" /\ timer
  /\ timer' = FALSE /\ peers' = peers \ {Master} /\ Fail
  /\ UNCHANGED <<skeleton, from, request, rest, fill, round, idle, out, origin>>
-----------------------------------------------------------------------------
(* fetchParts over the header queue.                                        *)

Fitting(p, headers) ==
  /\ headers = Batch(pendPool[p])
  /\ Last(headers) = taskPool[pendPool[p]]

(* The number of results ready behind the ones passed on.                   *)
Ready(res) ==
  LET runs == {k \in 0..(Len(res) - proced) : \A i \in 1..k : res[proced + i] # 0}
  IN Max(runs)

(* A faulty early delivery: it is not counted when it is passed on.         *)
ForwardUncounted(ready) ==
  IF Ready(ready) > 0 /\ procCh = <<>>
  THEN Put(SubSeq(ready, proced + 1, proced + Ready(ready))) /\ UNCHANGED proced
  ELSE UNCHANGED <<out, proced>>
Forward(ready) ==
  IF Ready(ready) > 0 /\ procCh = <<>>
  THEN Put(SubSeq(ready, proced + 1, proced + Ready(ready))) /\ proced' = proced + Ready(ready)
  ELSE UNCHANGED <<out, proced>>

(* A batch that does not fit goes back, and not to this peer again.         *)
Refuse(p) ==
  /\ peerMiss' = [peerMiss EXCEPT ![p] = @ \cup {pendPool[p]}]
  /\ taskQueue' = taskQueue \cup {pendPool[p]}

(* DeliverHeaders, called by fetchParts for a registered peer.              *)
DeliverHeaders(p, headers) ==
  /\ pendPool' = [pendPool EXCEPT ![p] = 0]
  /\ IF Fitting(p, headers)
     THEN /\ results' = [i \in DOMAIN results |->
                          IF i + offset - 1 \in ToSet(headers) THEN i + offset - 1 ELSE results[i]]
          /\ taskPool' = [f \in DOMAIN taskPool \ {pendPool[p]} |-> taskPool[f]]
          /\ Forward(results')
          /\ cont' = IF taskPool' = <<>> THEN cont + 1 ELSE cont
          /\ UNCHANGED <<peerMiss, taskQueue>>
     ELSE Refuse(p) /\ UNCHANGED <<results, taskPool, proced, cont, out>>
  /\ UNCHANGED <<offset, finished>>

FillReceive(r, headers) ==
  /\ phase = "fill" /\ r \in request /\ headers \in {<<>>, Answer(r)}
  /\ request' = request \ {r}
  /\ IF r.peer \notin peers THEN UNCHANGED <<fill, out, idle>>
     ELSE /\ idle' = idle \cup {r.peer}
          /\ IF pendPool[r.peer] = 0 THEN UNCHANGED <<fill, out>> ELSE DeliverHeaders(r.peer, headers)
  /\ UNCHANGED <<phase, skeleton, from, timer, rest, round, peers, origin, proc>>

Wake ==
  /\ phase = "fill" /\ cont > 0
  /\ cont' = cont - 1 /\ finished' = TRUE
  /\ UNCHANGED <<phase, skeleton, from, timer, request, rest, taskPool, taskQueue, peerMiss, pendPool,
                 results, proced, offset, round, idle, peers, out, origin, proc>>

NoneInFlight(pend) == \A p \in Peer : pend[p] = 0

(* One update: what is late goes back and its peer is dropped; with nothing *)
(* to hand out the skeleton is full or must be waited for; otherwise the    *)
(* idle peers are given work.                                               *)
Update(late) ==
  LET pend == [p \in Peer |-> IF p \in late THEN 0 ELSE pendPool[p]]
      queue == taskQueue \cup {pendPool[p] : p \in late}
  IN /\ phase = "fill" /\ late \subseteq {p \in Peer : pendPool[p] # 0}
     /\ pendPool' = pend /\ taskQueue' = queue /\ peers' = peers \ late
     /\ IF peers = {} \/ Master \in late THEN Fail /\ UNCHANGED <<round, rest, from>>
        ELSE /\ UNCHANGED proc
             /\ \/ /\ queue = {} /\ NoneInFlight(pend) /\ finished
                   /\ phase' = "send" /\ UNCHANGED round
                   /\ rest' = SubSeq(results, proced + 1, Len(results))
                   /\ from' = from + proced
                \/ /\ queue = {} /\ ~(NoneInFlight(pend) /\ finished) /\ late # {}
                   /\ UNCHANGED <<phase, round, rest, from>>
                \/ /\ queue # {} /\ phase' = "assign" /\ running' = ~NoneInFlight(pend)
                   /\ todo' = peers' \cap idle /\ UNCHANGED <<rest, from>>
     /\ UNCHANGED <<skeleton, timer, request, taskPool, peerMiss, results, proced, offset, cont,
                    finished, idle, out, origin>>

(* ReserveHeaders: the lowest batch the peer has not failed to deliver.     *)
Assign(p) ==
  LET open == taskQueue \ peerMiss[p] IN
  /\ phase = "assign" /\ p \in todo /\ taskQueue # {}
  /\ todo' = todo \ {p}
  /\ IF pendPool[p] # 0 \/ open = {} THEN UNCHANGED <<pendPool, taskQueue, request, idle, running>>
     ELSE /\ pendPool' = [pendPool EXCEPT ![p] = Min(open)] /\ taskQueue' = taskQueue \ {Min(open)}
          /\ request' = request \cup {[peer |-> p, kind |-> "fill", from |-> Min(open)]}
          /\ idle' = idle \ {p} /\ running' = TRUE
  /\ UNCHANGED <<phase, skeleton, from, timer, rest, taskPool, peerMiss, results, proced, offset, cont,
                 finished, peers, out, origin, proc>>

AssignEnd ==
  /\ phase = "assign" /\ (todo = {} \/ taskQueue = {})
  /\ IF ~running /\ taskQueue # {} /\ peers \subseteq idle THEN Fail ELSE phase' = "fill" /\ UNCHANGED proc
  /\ todo' = {} /\ UNCHANGED running
  /\ UNCHANGED <<skeleton, from, timer, request, rest, fill, idle, peers, out, origin>>

(* A peer disconnects; header requests are not revoked but left to expire.  *)
Unregister(p) ==
  /\ phase \notin {"done", "failed"} /\ p \in peers
  /\ peers' = peers \ {p}
  /\ IF p = Master THEN Fail ELSE UNCHANGED <<phase, proc>>
  /\ UNCHANGED <<skeleton, from, timer, request, rest, fill, round, idle, out, origin>>
-----------------------------------------------------------------------------
(* processHeaders: an empty batch is the end; headers that do not follow    *)
(* the ones before are refused by Schedule.                                 *)
ProcessHeaders ==
  LET headers == Head(procCh) IN
  /\ proc = "run" /\ procCh # <<>>
  /\ procCh' = <<>>
  /\ IF headers = <<>> THEN proc' = "done" /\ UNCHANGED <<origin, phase>>
     ELSE IF headers = [i \in DOMAIN headers |-> origin + i - 1]
     THEN origin' = origin + Len(headers) /\ UNCHANGED <<proc, phase>>
     ELSE Fail /\ UNCHANGED origin
  /\ UNCHANGED <<skeleton, from, timer, request, rest, fill, round, idle, peers, handed>>

Init ==
  /\ phase = "wait" /\ skeleton = TRUE /\ from = 1 /\ timer = TRUE
  /\ request = {[peer |-> Master, kind |-> "skeleton", from |-> 1]} /\ rest = <<>>
  /\ taskPool = <<>> /\ taskQueue = {} /\ peerMiss = [p \in Peer |-> {}]
  /\ pendPool = [p \in Peer |-> 0] /\ results = <<>> /\ proced = 0 /\ offset = 0 /\ cont = 0
  /\ finished = FALSE /\ running = FALSE /\ todo = {} /\ idle = Peer /\ peers = Peer
  /\ procCh = <<>> /\ handed = <<>> /\ origin = 1 /\ proc = "run"

Ended == phase \in {"done", "failed"} /\ proc # "run" /\ UNCHANGED skelVars

Next ==
  \/ \E r \in request : \E h \in {<<>>, Answer(r)} : Receive(r, h) \/ FillReceive(r, h)
  \/ AskDirectly \/ Send \/ End \/ Timeout \/ Wake \/ AssignEnd \/ ProcessHeaders
  \/ \E late \in SUBSET Peer : Update(late)
  \/ \E p \in Peer : Assign(p) \/ Unregister(p)
  \/ Ended

Spec == Init /\ [][Next]_skelVars
-----------------------------------------------------------------------------
(* The processor is given every header once and in order: deliveries made   *)
(* early, the rest of the skeleton, the count of those passed on and the    *)
(* next number asked for fit together, whatever was delivered in which      *)
(* order.                                                                   *)
HandedInOrder ==
  /\ handed = [i \in 1..Len(handed) |-> i]
  /\ phase \in {"wait", "ask", "fill", "assign"} =>
       Len(handed) = from - 1 + (IF Filling THEN proced ELSE 0)
  /\ proc = "done" => origin = Len(handed) + 1

(* While the skeleton is filled, every open batch waits in the queue or is  *)
(* asked of exactly one peer, and no other is.                              *)
EachBatchPlaced ==
  Filling => \A f \in DOMAIN taskPool :
               Cardinality({p \in Peer : pendPool[p] = f}) + (IF f \in taskQueue THEN 1 ELSE 0) = 1

(* DeliverHeaders sends its end mark while it holds the queue's lock: the   *)
(* channel always has room for it.                                          *)
EndMarkFits == cont <= 1 /\ (cont = 1 => ~finished)

(* The skeleton is filled as a whole.                                       *)
SkeletonSound == HandedInOrder /\ EachBatchPlaced /\ EndMarkFits
=============================================================================
