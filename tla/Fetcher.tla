------------------------------ MODULE Fetcher ------------------------------
(***************************************************************************)
(* The block fetcher (xdn/fetcher/fetcher.go): announced hashes move from  *)
(* announced to fetching, fetched and completing while their header and    *)
(* body are asked for, and whole blocks wait in queue until they fit on    *)
(* the chain.  One goroutine, loop, owns all this state: every turn it     *)
(* expires old fetches ("top"), starts the imports that fit ("drain") and  *)
(* waits for one event ("select"), whose handler may go through a list     *)
(* ("fetch", "complete", "headers", "enqueue").  Imports run on goroutines *)
(* of their own and report on the channel done.                            *)
(*                                                                         *)
(* Time is not modelled: a timer that is armed may fire, an announcement   *)
(* may be due and a fetch may be too old whenever the code looks.          *)
(***************************************************************************)
EXTENDS BlockTree, FiniteSetsExt

CONSTANTS
  Peer,          \* the peers
  Honest,        \* the peers that announce true numbers and sound blocks
  Unsound,       \* blocks whose header does not verify, or that do not execute
  HashLimit,     \* hashLimit
  BlockLimit,    \* blockLimit
  MaxUncleDist,  \* maxUncleDist
  MaxQueueDist,  \* maxQueueDist
  MaxOffers,     \* bound: the hashes and blocks that are announced or offered
  MaxBatch       \* bound: the headers of one delivery

ASSUME FetcherAssumption ==
  /\ IsFiniteSet(Block)
  /\ None \notin Peer /\ Honest \subseteq Peer
  /\ HashLimit \in Nat /\ BlockLimit \in Nat
  /\ MaxUncleDist \in Nat /\ MaxQueueDist \in Nat /\ MaxOffers \in Nat

(* An announcement: who made it, and the number it gives the block.        *)
Announce == [origin : Peer, number : 0..(MaxNumber + 1)]
Nobody == [origin |-> None, number |-> 0]
(* A block to import, and the goroutine that imports one.                  *)
Inject == [origin : Peer, block : Block]
Import == [origin : Peer, block : Block, pc : {"run", "done"}]

VARIABLES
  announces,      \* per peer announce counts
  announced,      \* the announcements of a hash, scheduled for fetching
  fetching,       \* the announcement whose header is asked for, or Nobody
  fetched,        \* the announcements with a header, scheduled for the body
  completing,     \* the announcement whose body is asked for, or Nobody
  fetchTimer,     \* the timer of announced runs or has fired
  completeTimer,  \* the timer of fetched runs or has fired
  queue,          \* the import operations, the lowest number first
  queues,         \* per peer block counts
  queued,         \* the peer whose block of that hash is queued, or None
  at,             \* where loop is
  work,           \* the hashes the handler still has to go through
  task,           \* the peer whose delivery is being filtered
  ready,          \* the blocks the delivery has completed
  seen,           \* the height the draining of the queue works with
  imports,        \* the goroutines of insert
  known,          \* external: the blocks getBlock finds
  height,         \* external: what chainHeight returns
  dropped,        \* the peers dropPeer was called with
  offers          \* how many hashes and blocks have been offered

hashes == <<announces, announced, fetching, fetched, completing>>
timers == <<fetchTimer, completeTimer>>
blocks == <<queue, queues, queued>>
loop == <<at, work, task, ready, seen>>
chain == <<known, height>>
fetcherVars == <<announces, announced, fetching, fetched, completing, fetchTimer,
                 completeTimer, queue, queues, queued, at, work, task, ready, seen,
                 imports, known, height, dropped, offers>>

TooFar(n) == n < height - MaxUncleDist \/ n > height + MaxQueueDist
By(p, list) == Cardinality({i \in DOMAIN list : list[i].origin = p})
One(p, a) == IF a.origin = p THEN 1 ELSE 0
Pick(list) == {list[i] : i \in DOMAIN list}

(* forgetHash, after which the hash may be put in one of two stages again. *)
(* Every announcement of the hash is taken off its peer's count.           *)
ForgetHash(h, fetch, complete) ==
  /\ announces' = [p \in Peer |-> announces[p] - By(p, announced[h]) - One(p, fetching[h])
                                  - By(p, fetched[h]) - One(p, completing[h])]
  /\ announced' = [announced EXCEPT ![h] = <<>>]
  /\ fetching' = [fetching EXCEPT ![h] = fetch]
  /\ fetched' = [fetched EXCEPT ![h] = <<>>]
  /\ completing' = [completing EXCEPT ![h] = complete]

(* A faulty forgetBlock: the count of the peer is not lowered.             *)
ForgetBlockOnly(h) ==
  /\ queued' = [queued EXCEPT ![h] = None]
  /\ UNCHANGED queues

(* forgetBlock *)
ForgetBlock(h) ==
  /\ queues' = [p \in Peer |-> queues[p] - IF queued[h] = p THEN 1 ELSE 0]
  /\ queued' = [queued EXCEPT ![h] = None]

(* enqueue: a peer over its allowance or a block too far away forgets the  *)
(* hash; a block that is not queued yet is.                                *)
Enqueue(p, b) ==
  IF queues[p] + 1 > BlockLimit \/ TooFar(number[b])
  THEN ForgetHash(b, Nobody, Nobody) /\ UNCHANGED blocks
  ELSE /\ IF queued[b] = None
          THEN /\ queues' = [queues EXCEPT ![p] = @ + 1]
               /\ queued' = [queued EXCEPT ![b] = p]
               /\ queue' = queue \cup {[origin |-> p, block |-> b]}
          ELSE UNCHANGED blocks
       /\ UNCHANGED hashes
-----------------------------------------------------------------------------
(* The top of the loop.                                                    *)

(* A fetch that has taken longer than fetchTimeout is forgotten.           *)
Expire(h) ==
  /\ at = "top" /\ fetching[h] # Nobody
  /\ ForgetHash(h, Nobody, Nobody)
  /\ UNCHANGED <<timers, blocks, loop, imports, chain, dropped, offers>>

StartDrain ==
  /\ at = "top"
  /\ at' = "drain"
  /\ seen' = height
  /\ UNCHANGED <<hashes, timers, blocks, work, task, ready, imports, chain, dropped, offers>>

First(op) == op \in queue /\ \A o \in queue : number[op.block] <= number[o.block]

(* The lowest block is dropped when it is old or known, imported when it   *)
(* fits, and left for later when it is too high.                           *)
DrainStale(op) ==
  /\ at = "drain" /\ First(op) /\ number[op.block] <= seen + 1
  /\ number[op.block] + MaxUncleDist < seen \/ op.block \in known
  /\ queue' = queue \ {op}
  /\ ForgetBlock(op.block)
  /\ UNCHANGED <<hashes, timers, loop, imports, chain, dropped, offers>>
DrainInsert(op) ==
  /\ at = "drain" /\ First(op) /\ number[op.block] <= seen + 1
  /\ number[op.block] + MaxUncleDist >= seen /\ op.block \notin known
  /\ queue' = queue \ {op}
  /\ imports' = imports \cup {[origin |-> op.origin, block |-> op.block, pc |-> "run"]}
  /\ UNCHANGED <<hashes, timers, queues, queued, loop, chain, dropped, offers>>
DrainEnd ==
  /\ at = "drain" /\ \A o \in queue : number[o.block] > seen + 1
  /\ at' = "select" /\ seen' = 0
  /\ UNCHANGED <<hashes, timers, blocks, work, task, ready, imports, chain, dropped, offers>>
-----------------------------------------------------------------------------
(* The events.                                                             *)

(* What a peer may say of the number of a block.                           *)
Claims(p, h) == IF p \in Honest THEN {number[h]} ELSE {number[h], number[h] + 1}
MayOffer(p, h) == p \in Honest => h \notin Unsound

(* Notify: a hash that is not downloading yet is scheduled, and the timer  *)
(* set when it is the only one.                                            *)
Notify(p, h, n) ==
  /\ at = "select" /\ at' = "top"
  /\ offers < MaxOffers /\ offers' = offers + 1
  /\ IF \/ announces[p] + 1 > HashLimit
        \/ n > 0 /\ TooFar(n)
        \/ fetching[h] # Nobody \/ completing[h] # Nobody
     THEN UNCHANGED <<announces, announced, fetchTimer>>
     ELSE /\ announces' = [announces EXCEPT ![p] = @ + 1]
          /\ announced' = [announced EXCEPT ![h] = Append(@, [origin |-> p, number |-> n])]
          /\ fetchTimer' = (fetchTimer \/ \A x \in Block \ {h} : announced[x] = <<>>)
  /\ UNCHANGED <<fetching, fetched, completing, completeTimer, blocks, work, task, ready,
                 seen, imports, chain, dropped>>

(* Enqueue: a whole block is offered.                                      *)
InjectBlock(p, b) ==
  /\ at = "select" /\ at' = "top"
  /\ offers < MaxOffers /\ offers' = offers + 1
  /\ Enqueue(p, b)
  /\ UNCHANGED <<timers, work, task, ready, seen, imports, chain, dropped>>

(* rescheduleFetch, rescheduleComplete: a timer is set while it is needed. *)
RescheduleFetch == \E h \in Block : announced[h] # <<>>
RescheduleComplete == \E h \in Block : fetched[h] # <<>>

(* The timer of the announcements: those that are due are fetched from one *)
(* of the peers that announced them.                                       *)
FetchTimer(due) ==
  /\ at = "select" /\ fetchTimer
  /\ \A h \in due : announced[h] # <<>>
  /\ at' = "fetch" /\ work' = due
  /\ fetchTimer' = FALSE
  /\ UNCHANGED <<hashes, completeTimer, blocks, task, ready, seen, imports, chain, dropped, offers>>
Fetch(h) ==
  /\ at = "fetch" /\ h \in work
  /\ \E a \in Pick(announced[h]) : ForgetHash(h, IF h \in known THEN Nobody ELSE a, Nobody)
  /\ work' = work \ {h}
  /\ UNCHANGED <<timers, blocks, at, task, ready, seen, imports, chain, dropped, offers>>
(* The end of the handler: the timer is set again if hashes are left.      *)
FetchEnd ==
  /\ at = "fetch" /\ work = {}
  /\ at' = "top"
  /\ fetchTimer' = (fetchTimer \/ RescheduleFetch)
  /\ UNCHANGED <<hashes, completeTimer, blocks, work, task, ready, seen, imports, chain,
                 dropped, offers>>

(* The timer of the fetched headers: all their bodies are asked for.       *)
CompleteTimer ==
  /\ at = "select" /\ completeTimer
  /\ at' = "complete" /\ work' = {h \in Block : fetched[h] # <<>>}
  /\ completeTimer' = FALSE
  /\ UNCHANGED <<hashes, fetchTimer, blocks, task, ready, seen, imports, chain, dropped, offers>>
Complete(h) ==
  /\ at = "complete" /\ h \in work
  /\ \E a \in Pick(fetched[h]) : ForgetHash(h, Nobody, IF h \in known THEN Nobody ELSE a)
  /\ work' = work \ {h}
  /\ UNCHANGED <<timers, blocks, at, task, ready, seen, imports, chain, dropped, offers>>
CompleteEnd ==
  /\ at = "complete" /\ work = {}
  /\ at' = "top"
  /\ completeTimer' = (completeTimer \/ RescheduleComplete)
  /\ UNCHANGED <<hashes, fetchTimer, blocks, work, task, ready, seen, imports, chain, dropped, offers>>
-----------------------------------------------------------------------------
(* Deliveries.                                                             *)

FilterHeaders(p, hs) ==
  /\ at = "select" /\ at' = "headers"
  /\ Cardinality(hs) \in 1..MaxBatch
  /\ task' = p /\ work' = hs /\ ready' = {}
  /\ UNCHANGED <<hashes, timers, blocks, seen, imports, chain, dropped, offers>>

(* This peer was asked for the header, and nothing came of it yet.         *)
Asked(h) ==
  /\ fetching[h].origin = task /\ fetched[h] = <<>> /\ completing[h] = Nobody
  /\ queued[h] = None

(* A header the fetcher did not ask this peer for goes to others.          *)
ReturnHeader(h) ==
  /\ at = "headers" /\ h \in work /\ ~Asked(h)
  /\ work' = work \ {h}
  /\ UNCHANGED <<hashes, timers, blocks, at, task, ready, seen, imports, chain, dropped, offers>>
(* A faulty test of the number, made before that of the peer.              *)
WrongNumberFirst(h) ==
  /\ at = "headers" /\ h \in work /\ fetching[h] # Nobody
  /\ number[h] # fetching[h].number
  /\ dropped' = dropped \cup {task}
  /\ ForgetHash(h, Nobody, Nobody)
  /\ work' = work \ {h}
  /\ UNCHANGED <<timers, blocks, at, task, ready, seen, imports, chain, offers>>

(* One with another number than announced drops the announcer.             *)
WrongNumber(h) ==
  /\ at = "headers" /\ h \in work /\ Asked(h)
  /\ number[h] # fetching[h].number
  /\ dropped' = dropped \cup {fetching[h].origin}
  /\ ForgetHash(h, Nobody, Nobody)
  /\ work' = work \ {h}
  /\ UNCHANGED <<timers, blocks, at, task, ready, seen, imports, chain, offers>>
(* One of a block that has come by other means ends the fetch.             *)
HeaderKnown(h) ==
  /\ at = "headers" /\ h \in work /\ Asked(h)
  /\ number[h] = fetching[h].number /\ h \in known
  /\ ForgetHash(h, Nobody, Nobody)
  /\ work' = work \ {h}
  /\ UNCHANGED <<timers, blocks, at, task, ready, seen, imports, chain, dropped, offers>>
(* The header of an empty block completes it; any other waits for its body. *)
HeaderEmpty(h) ==
  /\ at = "headers" /\ h \in work /\ Asked(h)
  /\ number[h] = fetching[h].number /\ h \notin known /\ txs[h] = {}
  /\ completing' = [completing EXCEPT ![h] = fetching[h]]
  /\ ready' = ready \cup {h}
  /\ work' = work \ {h}
  /\ UNCHANGED <<announces, announced, fetching, fetched, timers, blocks, at, task, seen,
                 imports, chain, dropped, offers>>
HeaderFull(h) ==
  /\ at = "headers" /\ h \in work /\ Asked(h)
  /\ number[h] = fetching[h].number /\ h \notin known /\ txs[h] # {}
  /\ fetched' = [fetched EXCEPT ![h] = Append(@, fetching[h])]
  /\ completeTimer' = (completeTimer \/ \A x \in Block \ {h} : fetched[x] = <<>>)
  /\ work' = work \ {h}
  /\ UNCHANGED <<announces, announced, fetching, completing, fetchTimer, blocks, at, task,
                 ready, seen, imports, chain, dropped, offers>>
HeadersEnd ==
  /\ at = "headers" /\ work = {}
  /\ at' = "enqueue" /\ work' = ready
  /\ UNCHANGED <<hashes, timers, blocks, task, ready, seen, imports, chain, dropped, offers>>

(* A body completes every block being completed by that peer that has it,  *)
(* unless the block is queued; of one known by now the hash is forgotten.  *)
Matches(p, body) ==
  {h \in Block : completing[h].origin = p /\ queued[h] = None /\ txs[h] = body}
FilterBodies(p, body) ==
  /\ at = "select" /\ at' = "bodies"
  /\ task' = p /\ work' = Matches(p, body) /\ ready' = {}
  /\ UNCHANGED <<hashes, timers, blocks, seen, imports, chain, dropped, offers>>
MatchBody(h) ==
  /\ at = "bodies" /\ h \in work
  /\ IF h \in known
     THEN ForgetHash(h, Nobody, Nobody) /\ UNCHANGED ready
     ELSE ready' = ready \cup {h} /\ UNCHANGED hashes
  /\ work' = work \ {h}
  /\ UNCHANGED <<timers, blocks, at, task, seen, imports, chain, dropped, offers>>
BodiesEnd ==
  /\ at = "bodies" /\ work = {}
  /\ at' = "enqueue" /\ work' = ready
  /\ UNCHANGED <<hashes, timers, blocks, task, ready, seen, imports, chain, dropped, offers>>

(* The completed blocks are queued, if their hash is not forgotten.        *)
EnqueueReady(h) ==
  /\ at = "enqueue" /\ h \in work
  /\ IF completing[h] # Nobody
     THEN Enqueue(completing[h].origin, h)
     ELSE UNCHANGED <<hashes, blocks>>
  /\ work' = work \ {h}
  /\ UNCHANGED <<timers, at, task, ready, seen, imports, chain, dropped, offers>>
EnqueueEnd ==
  /\ at = "enqueue" /\ work = {}
  /\ at' = "top" /\ ready' = {} /\ task' = None
  /\ UNCHANGED <<hashes, timers, blocks, work, seen, imports, chain, dropped, offers>>
-----------------------------------------------------------------------------
(* insert: a goroutine per block.                                          *)

(* The chain takes in a block: its height is that of a heaviest block.     *)
Weight == [b \in Block |-> MapThenSumSet(LAMBDA x : difficulty[x], Anc[b])]
Adopt(b) ==
  /\ known' = known \cup {b}
  /\ height' \in {number[x] : x \in {y \in known' : \A z \in known' : Weight[z] <= Weight[y]}}

(* Without its parent the block is not imported; an unsound one drops the   *)
(* peer; otherwise insertChain adds it, perhaps as the head, or fails.      *)
ImportBlock(g) ==
  /\ g.pc = "run"
  /\ imports' = (imports \ {g}) \cup {[g EXCEPT !.pc = "done"]}
  /\ \/ /\ parent[g.block] \in known /\ g.block \in Unsound
        /\ dropped' = dropped \cup {g.origin}
        /\ UNCHANGED chain
     \/ /\ parent[g.block] \in known /\ g.block \notin Unsound
        /\ Adopt(g.block)
        /\ UNCHANGED dropped
     \/ /\ parent[g.block] \notin known \/ g.block \notin Unsound
        /\ UNCHANGED <<chain, dropped>>
  /\ UNCHANGED <<hashes, timers, blocks, loop, offers>>
(* The loop takes the report from done and forgets hash and block.         *)
Done(g) ==
  /\ at = "select" /\ g.pc = "done"
  /\ at' = "top"
  /\ imports' = imports \ {g}
  /\ ForgetHash(g.block, Nobody, Nobody)
  /\ ForgetBlock(g.block)
  /\ UNCHANGED <<queue, timers, work, task, ready, seen, chain, dropped, offers>>

(* The downloader or the miner adds a block.                               *)
ImportElsewhere(b) ==
  /\ b \notin known \cup Unsound /\ parent[b] \in known
  /\ Adopt(b)
  /\ UNCHANGED <<hashes, timers, blocks, loop, imports, dropped, offers>>

(* Stop closes quit, which loop sees when it waits for an event.           *)
Stop ==
  /\ at = "select"
  /\ at' = "quit"
  /\ UNCHANGED <<hashes, timers, blocks, work, task, ready, seen, imports, chain, dropped, offers>>
-----------------------------------------------------------------------------
FetcherInit ==
  /\ announces = [p \in Peer |-> 0]
  /\ announced = [h \in Block |-> <<>>] /\ fetching = [h \in Block |-> Nobody]
  /\ fetched = [h \in Block |-> <<>>] /\ completing = [h \in Block |-> Nobody]
  /\ fetchTimer = TRUE /\ completeTimer = TRUE
  /\ queue = {} /\ queues = [p \in Peer |-> 0] /\ queued = [h \in Block |-> None]
  /\ at = "top" /\ work = {} /\ task = None /\ ready = {} /\ seen = 0
  /\ imports = {} /\ known = {Genesis} /\ height = 0 /\ dropped = {} /\ offers = 0

(* A turn of the loop, once an event has come.                             *)
Handle ==
  \/ StartDrain \/ DrainEnd \/ FetchEnd \/ CompleteEnd \/ HeadersEnd \/ BodiesEnd \/ EnqueueEnd
  \/ \E op \in queue : DrainStale(op) \/ DrainInsert(op)
  \/ \E h \in Block : Fetch(h) \/ Complete(h) \/ MatchBody(h) \/ EnqueueReady(h)
                      \/ ReturnHeader(h) \/ WrongNumber(h) \/ HeaderKnown(h)
                      \/ HeaderEmpty(h) \/ HeaderFull(h)

FetcherNext ==
  \/ Handle
  \/ \E h \in Block : Expire(h)
  \/ \E p \in Peer, h \in Block \ {Genesis} : \E n \in Claims(p, h) :
       MayOffer(p, h) /\ Notify(p, h, n)
  \/ \E p \in Peer, b \in Block \ {Genesis} : MayOffer(p, b) /\ InjectBlock(p, b)
  \/ \E due \in SUBSET Block : FetchTimer(due)
  \/ CompleteTimer
  \/ \E p \in Peer, hs \in SUBSET (Block \ {Genesis}) : FilterHeaders(p, hs)
  \/ \E p \in Peer, b \in Block : FilterBodies(p, txs[b])
  \/ \E g \in imports : ImportBlock(g) \/ Done(g)
  \/ \E b \in Block : ImportElsewhere(b)
  \/ Stop

FetcherSpec == FetcherInit /\ [][FetcherNext]_fetcherVars
-----------------------------------------------------------------------------
(* The variables have their types.                                         *)
FetcherTypeOK ==
  /\ announces \in [Peer -> Int]
  /\ announced \in [Block -> Seq(Announce)] /\ fetched \in [Block -> Seq(Announce)]
  /\ fetching \in [Block -> Announce \cup {Nobody}]
  /\ completing \in [Block -> Announce \cup {Nobody}]
  /\ fetchTimer \in BOOLEAN /\ completeTimer \in BOOLEAN
  /\ queue \subseteq Inject /\ queues \in [Peer -> Nat] /\ queued \in [Block -> Peer \cup {None}]
  /\ at \in {"top", "drain", "select", "fetch", "complete", "headers", "bodies", "enqueue",
            "quit"}
  /\ work \subseteq Block /\ task \in Peer \cup {None} /\ ready \subseteq Block /\ seen \in Nat
  /\ imports \subseteq Import
  /\ known \subseteq Block /\ height \in Nat /\ dropped \subseteq Peer
  /\ offers \in 0..MaxOffers

(* A block is imported once at a time: what is marked as queued is waiting *)
(* in the queue or being imported, on one goroutine and for the peer that  *)
(* queued it, and nothing else is.                                         *)
ImportOnce ==
  /\ \A b \in Block : queued[b] # None <=>
       (\E op \in queue : op.block = b) \/ (\E g \in imports : g.block = b)
  /\ \A o \in queue, g \in imports : o.block # g.block
  /\ \A o \in queue : queued[o.block] = o.origin
  /\ \A g \in imports : queued[g.block] = g.origin
  /\ \A f, g \in imports : f.block = g.block => f = g

(* The allowance of a peer counts exactly its blocks that are queued, and  *)
(* is never exceeded.                                                      *)
QueueCounts ==
  \A p \in Peer : /\ queues[p] = Cardinality({b \in Block : queued[b] = p})
                  /\ queues[p] <= BlockLimit

(* The stages of a hash exclude each other: what is announced is not being *)
(* fetched or completed, so no late header or expired fetch revives it;    *)
(* and a header is kept only while its fetch has not expired.              *)
StagesDisjoint ==
  \A h \in Block : /\ announced[h] # <<>> => fetching[h] = Nobody /\ completing[h] = Nobody
                   /\ fetched[h] # <<>> => fetching[h] # Nobody /\ completing[h] = Nobody

(* No wakeup is lost: while hashes wait to be fetched or completed, their  *)
(* timer runs, except inside the handler that will set it again.           *)
TimersArmed ==
  /\ (\E h \in Block : announced[h] # <<>>) /\ at \notin {"fetch", "quit"} => fetchTimer
  /\ (\E h \in Block : fetched[h] # <<>>) /\ at \notin {"complete", "quit"} => completeTimer

(* A peer that only tells the truth is not dropped for what others say.    *)
HonestKept == dropped \cap Honest = {}

(* The bookkeeping of loop as a whole.                                     *)
FetcherSound == FetcherTypeOK /\ ImportOnce /\ QueueCounts /\ StagesDisjoint /\ TimersArmed
=============================================================================
