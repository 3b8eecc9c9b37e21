--------------------------- MODULE DownloadQueue ---------------------------
(***************************************************************************)
(* The download queue (xdn/downloader/queue.go) and the loops that feed    *)
(* and drain it (fetchParts, processHeaders, the content processor and     *)
(* spawnSync in downloader.go) for the bodies and receipts of one chain of *)
(* headers, known here by their numbers 1..Top.  Every method of the queue *)
(* holds its lock, so it is one step; the loops take their decisions       *)
(* between such steps, and peers come and go at any time.                  *)
(*                                                                         *)
(* Time is not modelled: a request may be too old whenever expire looks,   *)
(* and the ticker starts a round of fetchParts at any time, so the wakeups *)
(* that only start a round are left out.                                   *)
(***************************************************************************)
EXTENDS Integers, Sequences, FiniteSets, SequencesExt

CONSTANTS
  Peer, Master,    \* the peers, and the one the sync follows
  Top,             \* the number of the last header
  Fast, Pivot,     \* fast sync, and its pivot
  EmptyBody,       \* the blocks without transactions and uncles
  EmptyReceipts,   \* the blocks whose receipt root is that of the empty list
  CacheLimit,      \* blockCacheLimit
  ForceVerify,     \* fsHeaderForceVerify
  MaxQueued,       \* maxQueuedHeaders
  Capacity,        \* what BlockCapacity and ReceiptCapacity may return
  Stalling,        \* so few expired items that the peer is dropped (2)
  MaxWire,         \* bound: the requests of a kind a peer has not answered
  MaxChurn,        \* bound: the peers that disconnect or connect again
  Late             \* the requests an earlier sync may have left unanswered

Number == 1..Top
Kind == {"body", "receipt"}
Nil == 3  \* a resultCache entry not allocated yet; others hold Pending

VARIABLES
  scheduled,  \* the last header given to Schedule
  tasks,      \* blockTaskQueue, receiptTaskQueue, taken lowest number first
  pend,       \* blockPendPool, receiptPendPool: the headers asked of a peer
  done,       \* blockDonePool, receiptDonePool
  result,     \* resultCache: the Pending count of a block
  offset,     \* resultOffset
  closed,     \* closed
  filled,     \* the blocks whose result holds its body, its receipts
  peers,      \* the registered peers
  leaving,    \* the peers unregistered and not yet revoked
  idle,       \* blockIdle, receiptIdle: the peers free for a request
  lacking,    \* the blocks a peer is known not to have
  wire,       \* the requests a peer has yet to answer
  churn,      \* how many peers have disconnected or connected again
  at,         \* where the fetchParts of each kind is
  work,       \* the peers it still has to go through
  stuck,      \* nothing progressed, throttled or ran, and all peers are idle
  finished,   \* it has been told that there are no more headers
  headers,    \* where processHeaders is
  processor,  \* where the content processor is
  cancelled,  \* cancelCh is closed
  broken      \* errInvalidChain was returned

pools == <<scheduled, tasks, pend, done, result, offset, closed, filled>>
network == <<peers, leaving, idle, lacking, wire, churn>>
fetchers == <<at, work, stuck, finished>>
control == <<headers, processor, cancelled, broken>>
queueVars == <<scheduled, tasks, pend, done, result, offset, closed, filled, peers,
               leaving, idle, lacking, wire, churn, at, work, stuck, finished, headers,
               processor, cancelled, broken>>

Wanted(k, n) == k = "body" \/ (Fast /\ n <= Pivot)
(* A faulty count of the parts: the pivot itself does not want receipts.   *)
ComponentsBelow(n) == IF Fast /\ n < Pivot THEN 2 ELSE 1
Components(n) == Cardinality({k \in Kind : Wanted(k, n)})
Noop(k, n) == n \in (IF k = "body" THEN EmptyBody ELSE EmptyReceipts)
InCache(n) == n >= offset /\ n < offset + CacheLimit
InFlight(k) == UNION {ToSet(pend[k][p]) : p \in Peer}
Ordered(S) == SetToSortSeq(S, <)
-----------------------------------------------------------------------------
(* The headers.                                                            *)

(* processHeaders gives the next chunk to Schedule when there is room: the *)
(* bodies are wanted, and up to the pivot of a fast sync the receipts.     *)
Schedule(m) ==
  /\ headers = "run" /\ m <= Top
  /\ \A k \in Kind : Cardinality(tasks[k]) < MaxQueued
  /\ scheduled' = m
  /\ tasks' = [k \in Kind |-> tasks[k] \cup {n \in (scheduled + 1)..m : Wanted(k, n)}]
  /\ UNCHANGED <<pend, done, result, offset, closed, filled, network, fetchers, control>>

(* At the end of the stream it tells the body and then the receipt fetcher, *)
(* which take the message when they are not in a round.                     *)
HeadersEnd(k) ==
  /\ at[k] = "select"
  /\ headers = IF k = "body" THEN "run" ELSE "told"
  /\ headers' = IF k = "body" THEN "told" ELSE "done"
  /\ finished' = [finished EXCEPT ![k] = TRUE]
  /\ UNCHANGED <<pools, network, at, work, stuck, processor, cancelled, broken>>
-----------------------------------------------------------------------------
(* fetchParts: a round.                                                    *)

Fail(k) == at' = [at EXCEPT ![k] = "failed"]

(* The sync runs until the first error or Cancel.  What the goroutines     *)
(* still do until they notice is left out: Reset clears it before the next *)
(* sync, but for the requests that peers have yet to answer.               *)
Failed == processor = "failed" \/ \E k \in Kind : at[k] = "failed"
Running == ~cancelled /\ ~Failed

(* A faulty Revoke: the items of the peers are not given back.             *)
RevokeLost(ps) ==
  /\ pend' = [k \in Kind |-> [p \in Peer |-> IF p \in ps THEN <<>> ELSE pend[k][p]]]
  /\ UNCHANGED tasks

(* Revoke: the items of both kinds asked of the peers are given back.      *)
Revoke(ps) ==
  /\ tasks' = [k \in Kind |-> tasks[k] \cup UNION {ToSet(pend[k][p]) : p \in ps}]
  /\ pend' = [k \in Kind |-> [p \in Peer |-> IF p \in ps THEN <<>> ELSE pend[k][p]]]

(* If all peers have been tried and none can help, the fetcher gives up.   *)
Going(k) == IF work'[k] # {} THEN "assign"
            ELSE IF stuck'[k] /\ tasks'[k] # {} THEN "failed" ELSE "select"

(* A round begins: expire gives the items of the requests that are too old *)
(* back.  The peer of a large request is idle again; that of a small one   *)
(* is dropped, which revokes what else it was asked for, and losing the    *)
(* master ends the sync.  When something is pending, the idle peers are to *)
(* be asked for it.                                                        *)
Expire(k, late) ==
  LET gone == {p \in late \cap peers : Len(pend[k][p]) <= Stalling}
      back(j) == UNION {ToSet(pend[j][p]) : p \in IF j = k THEN late ELSE gone}
  IN /\ at[k] = "select"
     /\ peers # {}
     /\ \A p \in late : pend[k][p] # <<>>
     /\ tasks' = [j \in Kind |-> tasks[j] \cup back(j)]
     /\ pend' = [j \in Kind |-> [p \in Peer |->
          IF p \in gone \/ (p \in late /\ j = k) THEN <<>> ELSE pend[j][p]]]
     /\ idle' = [idle EXCEPT ![k] = @ \cup ((late \cap peers) \ gone)]
     /\ peers' = peers \ gone
     /\ cancelled' = (cancelled \/ Master \in gone)
     /\ work' = [work EXCEPT ![k] = IF tasks'[k] = {} THEN {} ELSE peers' \cap idle'[k]]
     /\ stuck' = [stuck EXCEPT ![k] = /\ tasks'[k] # {}
                                      /\ \A p \in Peer : pend'[k][p] = <<>>
                                      /\ peers' \subseteq idle'[k]]
     /\ at' = [at EXCEPT ![k] = IF tasks'[k] = {} THEN "inflight" ELSE Going(k)]
     /\ UNCHANGED <<scheduled, done, result, offset, closed, filled, leaving, lacking, wire,
                    churn, finished, headers, processor, broken>>
NoPeers(k) ==
  /\ at[k] = "select" /\ peers = {}
  /\ Fail(k)
  /\ UNCHANGED <<pools, network, work, stuck, finished, control>>

(* With nothing pending, inFlight() decides a moment later whether all is  *)
(* done.                                                                   *)
CheckInFlight(k) ==
  /\ at[k] = "inflight"
  /\ at' = [at EXCEPT ![k] = IF InFlight(k) = {} /\ finished[k] THEN "done" ELSE "select"]
  /\ UNCHANGED <<pools, network, work, stuck, finished, control>>

(* ShouldThrottleBlocks, ShouldThrottleReceipts                            *)
Throttle(k) == Cardinality(InFlight(k)) >= CacheLimit - Cardinality(done[k])
AssignNone(k) ==
  /\ at[k] = "assign" /\ work[k] # {}
  /\ Throttle(k) \/ tasks[k] = {}
  /\ work' = [work EXCEPT ![k] = {}]
  /\ stuck' = [stuck EXCEPT ![k] = @ /\ ~Throttle(k)]
  /\ UNCHANGED <<pools, network, finished, control>>
  /\ at' = [at EXCEPT ![k] = Going(k)]

(* reserveHeaders goes through the lowest tasks while there is space for   *)
(* them and the request is not full.                                       *)
Below(S, n) == {m \in S : m < n}
Sendable(k, p) == {n \in tasks[k] : ~Noop(k, n) /\ n \notin lacking[p]}
(* The room in the cache, and the tasks a reservation looks at.            *)
Space(k) == CacheLimit - Cardinality(done[k]) - Cardinality(InFlight(k))
Examined(k, p, count) ==
  {n \in tasks[k] : /\ Cardinality(Below(tasks[k], n)) < Space(k)
                    /\ Cardinality(Below(Sendable(k, p), n)) < count}

(* Each gets a place in the cache; one with nothing to fetch is done, one  *)
(* the peer lacks is put back, and the others are asked for.  An index     *)
(* outside the cache ends the sync.                                        *)
Assign(k, p, count) ==
  LET examined == Examined(k, p, count)
      noops == {n \in examined : Noop(k, n)}
      send == (examined \ noops) \ lacking[p]
  IN /\ at[k] = "assign" /\ p \in work[k]
     /\ ~Throttle(k) /\ tasks[k] # {} /\ pend[k][p] = <<>>
     /\ \A n \in examined : InCache(n)
     /\ Cardinality(wire[k][p]) < MaxWire
     /\ result' = [n \in Number |->
          IF n \notin examined THEN result[n]
          ELSE (IF result[n] = Nil THEN Components(n) ELSE result[n])
               - (IF n \in noops THEN 1 ELSE 0)]
     /\ done' = [done EXCEPT ![k] = @ \cup noops]
     /\ tasks' = [tasks EXCEPT ![k] = (@ \ noops) \ send]
     /\ pend' = [pend EXCEPT ![k][p] = Ordered(send)]
     /\ work' = [work EXCEPT ![k] = @ \ {p}]
     /\ stuck' = [stuck EXCEPT ![k] = @ /\ noops = {} /\ send = {}]
     /\ idle' = [idle EXCEPT ![k] = IF send = {} THEN @ ELSE @ \ {p}]
     /\ wire' = [wire EXCEPT ![k][p] = IF send = {} THEN @ ELSE @ \cup {Ordered(send)}]
     /\ at' = [at EXCEPT ![k] = Going(k)]
     /\ UNCHANGED <<scheduled, offset, closed, filled, peers, leaving, lacking, churn,
                    finished, control>>
AssignBusy(k, p) ==
  /\ at[k] = "assign" /\ p \in work[k]
  /\ ~Throttle(k) /\ tasks[k] # {} /\ pend[k][p] # <<>>
  /\ work' = [work EXCEPT ![k] = @ \ {p}]
  /\ UNCHANGED <<pools, network, stuck, finished, control>>
  /\ at' = [at EXCEPT ![k] = Going(k)]
AssignBroken(k, p, count) ==
  /\ at[k] = "assign" /\ p \in work[k]
  /\ ~Throttle(k) /\ pend[k][p] = <<>>
  /\ \E n \in Examined(k, p, count) : ~InCache(n)
  /\ broken' = TRUE
  /\ Fail(k)
  /\ UNCHANGED <<pools, network, work, stuck, finished, headers, processor, cancelled>>
-----------------------------------------------------------------------------
(* Deliveries.  A peer answers a request with some of the first items, of  *)
(* which the last may be wrong (0).                                        *)
Answers(request) ==
  {SubSeq(request, 1, i) : i \in 0..Len(request)}
  \cup {Append(SubSeq(request, 1, i), 0) : i \in 0..(Len(request) - 1)}

(* deliver keeps the items that fit the headers of the request, up to the  *)
(* first that does not.                                                    *)
Fitting(request, items) ==
  Cardinality({i \in DOMAIN request : \A j \in 1..i : j <= Len(items) /\ items[j] = request[j]})
Bad(request, items) == Fitting(request, items) < Min({Len(request), Len(items)})

(* An answer of which nothing fits is stale: the peer stays busy.          *)
Stale(k, p, items) == /\ pend[k][p] # <<>>
                      /\ Fitting(pend[k][p], items) = 0 /\ Bad(pend[k][p], items)

Accept(k, p, items) ==
  LET request == pend[k][p]
      good == ToSet(SubSeq(request, 1, Fitting(request, items)))
  IN /\ pend' = [pend EXCEPT ![k][p] = <<>>]
     /\ done' = [done EXCEPT ![k] = @ \cup good]
     /\ filled' = [filled EXCEPT ![k] = @ \cup good]
     /\ result' = [n \in Number |-> IF n \in good THEN result[n] - 1 ELSE result[n]]
     /\ tasks' = [tasks EXCEPT ![k] = @ \cup (ToSet(request) \ good)]
     /\ lacking' = IF items = <<>> THEN [lacking EXCEPT ![p] = @ \cup ToSet(request)]
                   ELSE lacking

(* An answer reaches fetchParts: it is ignored when the peer has gone, and *)
(* of no effect on the queue when nothing is asked of the peer.            *)
Deliver(k, p, request, items) ==
  /\ at[k] = "select"
  /\ request \in wire[k][p] /\ items \in Answers(request)
  /\ wire' = [wire EXCEPT ![k][p] = @ \ {request}]
  /\ IF p \in peers /\ pend[k][p] # <<>>
     THEN Accept(k, p, items)
     ELSE UNCHANGED <<pend, done, filled, result, tasks, lacking>>
  /\ idle' = [idle EXCEPT ![k] = IF p \in peers /\ ~Stale(k, p, items) THEN @ \cup {p} ELSE @]
  /\ UNCHANGED <<scheduled, offset, closed, peers, leaving, churn, fetchers, control>>
-----------------------------------------------------------------------------
(* A peer disconnects: UnregisterPeer removes it and then revokes its      *)
(* requests.  It may connect again, but not within a round that has it in  *)
(* its list of idle peers.                                                 *)
Unregister(p) ==
  /\ p \in peers /\ churn < MaxChurn
  /\ churn' = churn + 1
  /\ peers' = peers \ {p} /\ leaving' = leaving \cup {p}
  /\ UNCHANGED <<pools, idle, lacking, wire, fetchers, control>>
UnregisterEnd(p) ==
  /\ p \in leaving
  /\ leaving' = leaving \ {p}
  /\ Revoke({p})
  /\ cancelled' = (cancelled \/ p = Master)
  /\ UNCHANGED <<scheduled, done, result, offset, closed, filled, peers, idle, lacking, wire,
                 churn, fetchers, headers, processor, broken>>
Register(p) ==
  /\ p \notin peers \cup leaving /\ \A k \in Kind : p \notin work[k]
  /\ churn < MaxChurn
  /\ churn' = churn + 1
  /\ peers' = peers \cup {p}
  /\ idle' = [k \in Kind |-> idle[k] \cup {p}]
  /\ lacking' = [lacking EXCEPT ![p] = {}]
  /\ wire' = [k \in Kind |-> [wire[k] EXCEPT ![p] = {}]]
  /\ UNCHANGED <<pools, leaving, fetchers, control>>
-----------------------------------------------------------------------------
(* The results.                                                            *)

(* countProcessableItems: the blocks that are complete, up to a pivot that *)
(* is not followed by ForceVerify blocks in the cache.                     *)
Processable(n) ==
  /\ InCache(n) /\ n <= Top /\ result[n] = 0
  /\ Fast /\ n = Pivot =>
       \A m \in (n + 1)..(n + ForceVerify) : InCache(m) /\ m <= Top /\ result[m] # Nil
NextOffset == Min({n \in offset..(Top + 1) : ~Processable(n)})

(* WaitResults hands the complete blocks to the content processor, whose   *)
(* import may fail; when there are none and the queue is closed, it ends.  *)
WaitResults(ok) ==
  /\ processor = "run" /\ NextOffset > offset
  /\ done' = [k \in Kind |-> {n \in done[k] : n >= NextOffset}]
  /\ result' = [n \in Number |-> IF n < NextOffset THEN Nil ELSE result[n]]
  /\ offset' = NextOffset
  /\ processor' = IF ok THEN "run" ELSE "failed"
  /\ UNCHANGED <<scheduled, tasks, pend, closed, filled, network, fetchers, headers,
                 cancelled, broken>>
ResultsEnd ==
  /\ processor = "run" /\ NextOffset = offset /\ closed
  /\ processor' = "done"
  /\ UNCHANGED <<pools, network, fetchers, headers, cancelled, broken>>

(* spawnSync closes the queue when the fetchers are through, and at the    *)
(* first error.                                                            *)
Close ==
  /\ ~closed
  /\ ~Running \/ (headers = "done" /\ \A k \in Kind : at[k] = "done")
  /\ closed' = TRUE
  /\ UNCHANGED <<scheduled, tasks, pend, done, result, offset, filled, network, fetchers,
                 control>>
-----------------------------------------------------------------------------
(* Reset and Prepare: the state a sync starts from.                        *)
QueueInit ==
  /\ scheduled = 0 /\ offset = 1 /\ closed = FALSE
  /\ tasks = [k \in Kind |-> {}] /\ pend = [k \in Kind |-> [p \in Peer |-> <<>>]]
  /\ done = [k \in Kind |-> {}] /\ result = [n \in Number |-> Nil]
  /\ filled = [k \in Kind |-> {}]
  /\ peers = Peer /\ leaving = {} /\ idle = [k \in Kind |-> Peer]
  /\ lacking = [p \in Peer |-> {}] /\ wire \in {Late, [k \in Kind |-> [p \in Peer |-> {}]]} /\ churn = 0
  /\ at = [k \in Kind |-> "select"] /\ work = [k \in Kind |-> {}]
  /\ stuck = [k \in Kind |-> FALSE] /\ finished = [k \in Kind |-> FALSE]
  /\ headers = "run" /\ processor = "run" /\ cancelled = FALSE /\ broken = FALSE

(* The steps of the round a fetcher has begun.                             *)
Round(k) ==
  \/ CheckInFlight(k) \/ AssignNone(k)
  \/ \E p \in Peer : AssignBusy(k, p)
  \/ \E p \in Peer, count \in Capacity : Assign(k, p, count) \/ AssignBroken(k, p, count)

QueueNext ==
  \/ Running /\ \/ \E m \in (scheduled + 1)..Top : Schedule(m)
                \/ \E k \in Kind : HeadersEnd(k) \/ NoPeers(k) \/ Round(k)
                \/ \E k \in Kind, late \in SUBSET Peer : Expire(k, late)
                \/ \E k \in Kind, p \in Peer : \E request \in wire[k][p] :
                     \E items \in Answers(request) : Deliver(k, p, request, items)
                \/ \E p \in Peer : Unregister(p) \/ UnregisterEnd(p) \/ Register(p)
                \/ \E ok \in BOOLEAN : WaitResults(ok)
  \/ ResultsEnd \/ Close

QueueSpec == QueueInit /\ [][QueueNext]_queueVars
-----------------------------------------------------------------------------
(* The variables have their types.                                         *)
QueueTypeOK ==
  /\ scheduled \in 0..Top /\ offset \in 1..(Top + 1)
  /\ tasks \in [Kind -> SUBSET Number] /\ done \in [Kind -> SUBSET Number]
  /\ pend \in [Kind -> [Peer -> Seq(Number)]] /\ filled \in [Kind -> SUBSET Number]
  /\ result \in [Number -> 0..Nil]
  /\ peers \subseteq Peer /\ leaving \subseteq Peer \ peers
  /\ idle \in [Kind -> SUBSET Peer] /\ lacking \in [Peer -> SUBSET Number]
  /\ at \in [Kind -> {"select", "inflight", "assign", "done", "failed"}]
  /\ work \in [Kind -> SUBSET Peer]
  /\ headers \in {"run", "told", "done"}
  /\ processor \in {"run", "done", "failed"}

(* No item is lost or fetched twice: of every block scheduled and not yet  *)
(* handed out, each part that is wanted is in the task queue, asked of     *)
(* exactly one peer, or done, whatever expiries, revocations and late      *)
(* answers have moved it.                                                  *)
PlacedOnce ==
  \A k \in Kind : \A n \in Number :
    LET places == {"queue" : x \in tasks[k] \cap {n}} \cup {"done" : x \in done[k] \cap {n}}
                  \cup {p \in Peer : n \in ToSet(pend[k][p])}
    IN Cardinality(places) = IF n \in offset..scheduled /\ Wanted(k, n) THEN 1 ELSE 0

(* The Pending count of a cache entry is the number of its parts that are  *)
(* still missing, so no answer is counted twice; only blocks inside the    *)
(* cache have an entry, and what is asked for or done has one.             *)
PendingExact ==
  \A n \in Number :
    /\ result[n] # Nil =>
         InCache(n) /\ result[n] = Cardinality({k \in Kind : Wanted(k, n) /\ n \notin done[k]})
    /\ \A k \in Kind : n \in done[k] \cup InFlight(k) => result[n] # Nil

(* "index allocation went beyond available resultCache space" never        *)
(* happens: the lowest tasks always fit while there is space.              *)
CacheSuffices == ~broken

(* A block handed to the importer has its body and, below the pivot, its   *)
(* receipts, or these are empty.                                           *)
ResultsWhole ==
  \A n \in 1..(offset - 1) : \A k \in Kind : Wanted(k, n) => Noop(k, n) \/ n \in filled[k]

(* The bookkeeping of the queue as a whole.                                *)
QueueSound == QueueTypeOK /\ PlacedOnce /\ PendingExact /\ CacheSuffices /\ ResultsWhole

(* A sync that ends without an error has handed out all it scheduled.      *)
SyncComplete ==
  Running /\ processor = "done" => offset = scheduled + 1
=============================================================================
