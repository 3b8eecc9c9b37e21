---------------------------- MODULE ServiceProofs ----------------------------
(***************************************************************************)
(* Three components around the chain, for every value of their constants:  *)
(* the block fetcher, the miner and the pipeline that verifies headers.    *)
(*                                                                         *)
(* The fetcher first.  Its bookkeeping is right for every tree of blocks,  *)
(* every set of peers and every limit: FetcherSound and HonestKept are     *)
(* invariants of FetcherSpec.                                              *)
(*                                                                         *)
(* The state falls into three parts.  The stages of the hashes change by   *)
(* forgetHash, which puts a hash in one stage at most, by a new            *)
(* announcement and by a header (HashInv).  The queue, its counters and    *)
(* the imports change together (BlockInv).  The rest is where loop is      *)
(* (LoopInv).  What is added to FetcherSound to make it inductive is       *)
(* Delivering, and Truthful, from which HonestKept follows.                *)
(***************************************************************************)
EXTENDS Fetcher, FiniteSetTheorems, TLAPS

(* What a peer that tells the truth says of a hash is true.                *)
True(h, a) == a.origin \in Honest => a.number = number[h] /\ h \notin Unsound

(* While headers are filtered, the peer that delivered them is known.      *)
Delivering == at = "headers" => task \in Peer

HashType ==
  /\ announces \in [Peer -> Int]
  /\ announced \in [Block -> Seq(Announce)] /\ fetched \in [Block -> Seq(Announce)]
  /\ fetching \in [Block -> Announce \cup {Nobody}]
  /\ completing \in [Block -> Announce \cup {Nobody}]

HashTrue ==
  \A h \in Block :
    /\ \A i \in DOMAIN announced[h] : True(h, announced[h][i])
    /\ \A i \in DOMAIN fetched[h] : True(h, fetched[h][i])
    /\ True(h, fetching[h]) /\ True(h, completing[h])

HashInv == HashType /\ StagesDisjoint /\ HashTrue

BlockType ==
  /\ queue \subseteq Inject /\ queues \in [Peer -> Nat] /\ queued \in [Block -> Peer \cup {None}]
  /\ imports \subseteq Import

BlockTrue ==
  /\ \A o \in queue : o.origin \in Honest => o.block \notin Unsound
  /\ \A g \in imports : g.origin \in Honest => g.block \notin Unsound

BlockInv == BlockType /\ ImportOnce /\ QueueCounts /\ BlockTrue

LoopInv ==
  /\ fetchTimer \in BOOLEAN /\ completeTimer \in BOOLEAN
  /\ at \in {"top", "drain", "select", "fetch", "complete", "headers", "bodies", "enqueue",
            "quit"}
  /\ work \subseteq Block /\ task \in Peer \cup {None} /\ ready \subseteq Block /\ seen \in Nat
  /\ known \subseteq Block /\ height \in Nat /\ dropped \subseteq Peer
  /\ offers \in 0..MaxOffers
  /\ Delivering /\ HonestKept

(* The inductive invariant.                                                *)
FetcherInv == HashInv /\ BlockInv /\ LoopInv /\ TimersArmed

(* It says all that is wanted.                                             *)
LEMMA InvSound == FetcherInv => FetcherSound /\ HonestKept
BY Zenon DEF FetcherInv, HashInv, BlockInv, LoopInv, HashType, BlockType, FetcherSound, FetcherTypeOK

-----------------------------------------------------------------------------
(* The stages of the hashes.                                               *)

(* No hash is announced, or has a header, that did not before.             *)
Fewer == \A x \in Block : /\ announced'[x] # <<>> => announced[x] # <<>>
                          /\ fetched'[x] # <<>> => fetched[x] # <<>>

(* The number of announcements of a list a peer has made.                  *)
LEMMA ByType ==
  ASSUME NEW p, NEW list \in Seq(Announce)
  PROVE  By(p, list) \in Nat
<1>1. IsFiniteSet(1..Len(list)) /\ DOMAIN list = 1..Len(list)
  BY FS_Interval
<1>2. {i \in DOMAIN list : list[i].origin = p} \in SUBSET (1..Len(list))
  BY <1>1, Zenon
<1>3. IsFiniteSet({i \in DOMAIN list : list[i].origin = p})
  BY <1>1, <1>2, FS_Subset, Zenon
<1> QED BY <1>3, FS_CardinalityType, Zenon DEF By

(* Nobody is no peer, and says nothing.                                    *)
LEMMA NobodySilent ==
  /\ Nobody.origin = None /\ None \notin Honest /\ None \notin Peer
  /\ \A h : True(h, Nobody)
  /\ Nobody \notin Announce
BY FetcherAssumption, Zenon DEF Nobody, True, Announce

(* forgetHash takes the hash out of every stage, and whatever it is put    *)
(* in next was true of it.                                                 *)
LEMMA Forget ==
  ASSUME HashInv, NEW h \in Block, NEW f \in Announce \cup {Nobody},
         NEW c \in Announce \cup {Nobody}, True(h, f), True(h, c), ForgetHash(h, f, c)
  PROVE  HashInv' /\ Fewer
<1>1. HashType'
  <2>1. ASSUME NEW p \in Peer
        PROVE  announces[p] - By(p, announced[h]) - One(p, fetching[h])
                 - By(p, fetched[h]) - One(p, completing[h]) \in Int
    <3>1. By(p, announced[h]) \in Nat /\ By(p, fetched[h]) \in Nat /\ announces[p] \in Int
      BY ByType, Zenon DEF HashInv, HashType
    <3>2. One(p, fetching[h]) \in Nat /\ One(p, completing[h]) \in Nat
      BY Zenon DEF One
    <3> QED BY <3>1, <3>2
  <2>2. announces' \in [Peer -> Int]
    BY <2>1, Zenon DEF ForgetHash
  <2>3. <<>> \in Seq(Announce)
    OBVIOUS
  <2> QED BY <2>2, <2>3, Zenon DEF HashInv, HashType, ForgetHash
<1>2. \A x \in Block : /\ announced'[x] = (IF x = h THEN <<>> ELSE announced[x])
                       /\ fetched'[x] = (IF x = h THEN <<>> ELSE fetched[x])
                       /\ fetching'[x] = (IF x = h THEN f ELSE fetching[x])
                       /\ completing'[x] = (IF x = h THEN c ELSE completing[x])
  BY Zenon DEF HashInv, HashType, ForgetHash
<1>3. StagesDisjoint' /\ Fewer
  BY <1>2, Zenon DEF HashInv, StagesDisjoint, Fewer
<1>4. HashTrue'
  <2> SUFFICES ASSUME NEW x \in Block
               PROVE  /\ \A i \in DOMAIN announced'[x] : True(x, announced'[x][i])
                      /\ \A i \in DOMAIN fetched'[x] : True(x, fetched'[x][i])
                      /\ True(x, fetching'[x]) /\ True(x, completing'[x])
    BY Zenon DEF HashTrue, True
  <2>1. CASE x = h
    <3>1. DOMAIN announced'[x] = {} /\ DOMAIN fetched'[x] = {}
      BY <2>1, <1>2
    <3> QED BY <2>1, <3>1, <1>2, Zenon
  <2>2. CASE x # h
    BY <2>2, <1>2, Zenon DEF HashInv, HashTrue
  <2> QED BY <2>1, <2>2, Zenon
<1> QED BY <1>1, <1>3, <1>4, Zenon DEF HashInv

(* What is left alone stays right.                                         *)
LEMMA HashKept ==
  ASSUME HashInv, UNCHANGED hashes
  PROVE  HashInv' /\ Fewer
BY Zenon DEF HashInv, HashType, StagesDisjoint, HashTrue, True, hashes, Fewer

-----------------------------------------------------------------------------
(* The queue, its counters and the imports.                                *)

(* The blocks a peer has in the queue or being imported.                   *)
Of(p) == {x \in Block : queued[x] = p}

LEMMA OfType == \A p : IsFiniteSet(Of(p)) /\ Cardinality(Of(p)) \in Nat
<1> TAKE p
<1>1. Of(p) \in SUBSET Block
  BY Zenon DEF Of
<1>2. IsFiniteSet(Of(p))
  BY <1>1, FS_Subset, FetcherAssumption, Zenon
<1> QED BY <1>2, FS_CardinalityType, Zenon

(* The count of the peer whose block is queued goes up by one.             *)
LEMMA CountUp ==
  ASSUME BlockType, NEW b \in Block, NEW p \in Peer, queued[b] = None,
         queued' = [queued EXCEPT ![b] = p]
  PROVE  \A q \in Peer : Cardinality(Of(q)') = Cardinality(Of(q)) + (IF q = p THEN 1 ELSE 0)
<1> TAKE q \in Peer
<1>1. b \notin Of(q)
  BY FetcherAssumption, Zenon DEF Of
<1>2. CASE q = p
  <2>1. Of(q)' = Of(q) \cup {b}
    BY <1>2, Zenon DEF Of, BlockType
  <2> QED BY <1>1, <1>2, <2>1, OfType, FS_AddElement, Zenon
<1>3. CASE q # p
  <2>1. Of(q)' = Of(q)
    BY <1>1, <1>3, Zenon DEF Of, BlockType
  <2> QED BY <1>3, <2>1, OfType
<1> QED BY <1>2, <1>3, Zenon

(* The count of the peer whose block is forgotten goes down by one.        *)
LEMMA CountDown ==
  ASSUME BlockType, NEW b \in Block, queued' = [queued EXCEPT ![b] = None]
  PROVE  \A q \in Peer :
           /\ Cardinality(Of(q)') = Cardinality(Of(q)) - (IF queued[b] = q THEN 1 ELSE 0)
           /\ Cardinality(Of(q)') \in Nat
<1> TAKE q \in Peer
<1>1. Of(q)' = Of(q) \ {b}
  BY FetcherAssumption, Zenon DEF Of, BlockType
<1>2. b \in Of(q) <=> queued[b] = q
  BY Zenon DEF Of
<1>3. IsFiniteSet(Of(q) \ {b})
  BY OfType, FS_RemoveElement, Zenon
<1> QED BY <1>1, <1>2, <1>3, OfType, FS_RemoveElement, FS_CardinalityType

(* What the counters say, in terms of Of.                                  *)
LEMMA CountsOf ==
  QueueCounts <=> \A p \in Peer : queues[p] = Cardinality(Of(p)) /\ queues[p] <= BlockLimit
BY Zenon DEF QueueCounts, Of

(* A block that is not queued yet joins the queue.                         *)
LEMMA Join ==
  ASSUME BlockInv, NEW p \in Peer, NEW b \in Block, p \in Honest => b \notin Unsound,
         queued[b] = None, queues[p] + 1 <= BlockLimit, UNCHANGED imports,
         queues' = [queues EXCEPT ![p] = @ + 1], queued' = [queued EXCEPT ![b] = p],
         queue' = queue \cup {[origin |-> p, block |-> b]}
  PROVE  BlockInv'
<1> DEFINE new == [origin |-> p, block |-> b]
<1>0. BlockType /\ ImportOnce /\ QueueCounts /\ BlockTrue
  BY Zenon DEF BlockInv
<1>1. new \in Inject /\ new.origin = p /\ new.block = b
  BY Zenon DEF Inject
<1>2. BlockType'
  BY <1>0, <1>1 DEF BlockType
<1>3. \A x \in Block : queued'[x] = IF x = b THEN p ELSE queued[x]
  BY <1>0, Zenon DEF BlockType
<1>4. p # None
  BY FetcherAssumption, Zenon
<1>5. /\ \A o \in queue : o.block # b /\ o.block \in Block
      /\ \A g \in imports : g.block # b /\ g.block \in Block
  BY <1>0, Zenon DEF ImportOnce, BlockType, Inject, Import
<1> HIDE DEF new
<1>6. queue' = queue \cup {new} /\ imports' = imports
  BY Zenon DEF new
<1>7. ImportOnce'
  <2>1. \A x \in Block : queued'[x] # None <=>
          (\E op \in queue' : op.block = x) \/ (\E g \in imports' : g.block = x)
    BY <1>0, <1>1, <1>3, <1>4, <1>5, <1>6 DEF ImportOnce
  <2>2. /\ \A o \in queue', g \in imports' : o.block # g.block
        /\ \A o \in queue' : queued'[o.block] = o.origin
        /\ \A g \in imports' : queued'[g.block] = g.origin
        /\ \A f, g \in imports' : f.block = g.block => f = g
    BY <1>0, <1>1, <1>3, <1>5, <1>6 DEF ImportOnce
  <2> QED BY <2>1, <2>2, Zenon DEF ImportOnce
<1>8. QueueCounts'
  <2>1. \A q \in Peer : queues'[q] = queues[q] + (IF q = p THEN 1 ELSE 0) /\ queues[q] \in Nat
    BY <1>0 DEF BlockType
  <2>2. \A q \in Peer : Cardinality(Of(q)') = Cardinality(Of(q)) + (IF q = p THEN 1 ELSE 0)
    BY <1>0, CountUp, Zenon
  <2>3. \A q \in Peer : queues[q] = Cardinality(Of(q)) /\ queues[q] <= BlockLimit
    BY <1>0, CountsOf, Zenon
  <2>4. \A q \in Peer : queues'[q] = Cardinality(Of(q)') /\ queues'[q] <= BlockLimit
    BY <2>1, <2>2, <2>3
  <2> QED BY <2>4, Zenon DEF QueueCounts, Of
<1>9. BlockTrue'
  BY <1>0, <1>1, <1>6, Zenon DEF BlockTrue
<1> QED BY <1>2, <1>7, <1>8, <1>9, Zenon DEF BlockInv

(* forgetBlock of a block that leaves the queue or has been imported.      *)
LEMMA Leave ==
  ASSUME BlockInv, NEW b \in Block, ForgetBlock(b),
         queue' = {o \in queue : o.block # b}, imports' = {g \in imports : g.block # b}
  PROVE  BlockInv'
<1>0. BlockType /\ ImportOnce /\ QueueCounts /\ BlockTrue
  BY Zenon DEF BlockInv
<1>1. queued' = [queued EXCEPT ![b] = None]
  BY Zenon DEF ForgetBlock
<1>2. \A x \in Block : queued'[x] = IF x = b THEN None ELSE queued[x]
  BY <1>0, <1>1, Zenon DEF BlockType
<1>3. \A q \in Peer : queues'[q] = queues[q] - (IF queued[b] = q THEN 1 ELSE 0)
  BY Zenon DEF ForgetBlock
<1>4. \A q \in Peer : queues[q] \in Nat /\ queues[q] = Cardinality(Of(q)) /\ queues[q] <= BlockLimit
  BY <1>0, CountsOf, Zenon DEF BlockType
<1>5. \A q \in Peer : queues'[q] = Cardinality(Of(q)') /\ queues'[q] \in Nat
  <2>1. \A q \in Peer :
          /\ Cardinality(Of(q)') = Cardinality(Of(q)) - (IF queued[b] = q THEN 1 ELSE 0)
          /\ Cardinality(Of(q)') \in Nat
    BY <1>0, <1>1, CountDown, Zenon
  <2> QED BY <1>3, <1>4, <2>1
<1>6. QueueCounts'
  <2>1. \A q \in Peer : queues'[q] <= BlockLimit
    BY <1>3, <1>4, FetcherAssumption
  <2> QED BY <1>5, <2>1, Zenon DEF QueueCounts, Of
<1>7. BlockType'
  <2>1. queues' \in [Peer -> Nat]
    BY <1>5, Zenon DEF ForgetBlock
  <2> QED BY <1>0, <1>1, <2>1, Zenon DEF BlockType
<1>8. (\A o \in queue : o.block \in Block) /\ (\A g \in imports : g.block \in Block)
  BY <1>0, Zenon DEF BlockType, Inject, Import
<1>9. ImportOnce'
  BY <1>0, <1>2, <1>8 DEF ImportOnce
<1>10. BlockTrue'
  BY <1>0, Zenon DEF BlockTrue
<1> QED BY <1>6, <1>7, <1>9, <1>10, Zenon DEF BlockInv

(* What is left alone stays right.                                         *)
LEMMA BlocksKept ==
  ASSUME BlockInv, UNCHANGED <<blocks, imports>>
  PROVE  BlockInv'
BY DEF BlockInv, BlockType, ImportOnce, QueueCounts, BlockTrue, blocks

(* enqueue, of a block its peer has not lied about.                        *)
LEMMA EnqueueKeeps ==
  ASSUME HashInv, BlockInv, NEW p \in Peer, NEW b \in Block, p \in Honest => b \notin Unsound,
         Enqueue(p, b), UNCHANGED imports
  PROVE  HashInv' /\ Fewer /\ BlockInv'
<1>0. queues[p] \in Nat /\ BlockLimit \in Nat
  BY FetcherAssumption, Zenon DEF BlockInv, BlockType
<1>1. CASE queues[p] + 1 > BlockLimit \/ TooFar(number[b])
  <2>1. ForgetHash(b, Nobody, Nobody) /\ UNCHANGED blocks
    BY <1>1, Zenon DEF Enqueue
  <2> QED BY <2>1, Forget, BlocksKept, NobodySilent, Zenon
<1>2. CASE ~(queues[p] + 1 > BlockLimit \/ TooFar(number[b]))
  <2>1. UNCHANGED hashes
    BY <1>2, Zenon DEF Enqueue
  <2>2. BlockInv'
    <3>1. CASE queued[b] = None
      BY <1>0, <1>2, <3>1, Join DEF Enqueue
    <3>2. CASE queued[b] # None
      BY <1>2, <3>2, BlocksKept, Zenon DEF Enqueue
    <3> QED BY <3>1, <3>2, Zenon
  <2> QED BY <2>1, <2>2, HashKept, Zenon
<1> QED BY <1>1, <1>2, Zenon

-----------------------------------------------------------------------------
(* The timers.                                                             *)

(* A step that leaves the timers alone, and no handler of a timer, loses   *)
(* no wakeup unless a hash comes to wait.                                  *)
LEMMA StillArmed ==
  ASSUME TimersArmed, Fewer, UNCHANGED timers,
         at \in {"fetch", "complete", "quit"} => at' = at
  PROVE  TimersArmed'
<1>1. (\E h \in Block : announced'[h] # <<>>) /\ at' \notin {"fetch", "quit"} => fetchTimer'
  BY Zenon DEF TimersArmed, Fewer, timers
<1>2. (\E h \in Block : fetched'[h] # <<>>) /\ at' \notin {"complete", "quit"} => completeTimer'
  BY Zenon DEF TimersArmed, Fewer, timers
<1> QED BY <1>1, <1>2, Zenon DEF TimersArmed

-----------------------------------------------------------------------------
(* The actions: first those that only move loop.                           *)

LEMMA Moves ==
  ASSUME FetcherInv, UNCHANGED <<hashes, blocks, imports>>, LoopInv', TimersArmed'
  PROVE  FetcherInv'
BY HashKept, BlocksKept, Zenon DEF FetcherInv

LEMMA TurnKeeps ==
  ASSUME FetcherInv, StartDrain \/ DrainEnd \/ HeadersEnd \/ BodiesEnd \/ EnqueueEnd
                     \/ Stop \/ \E h \in Block : ReturnHeader(h)
  PROVE  FetcherInv'
<1>1. /\ UNCHANGED <<hashes, blocks, imports>> /\ UNCHANGED timers
      /\ at \notin {"fetch", "complete", "quit"}
  BY Zenon DEF StartDrain, DrainEnd, HeadersEnd, BodiesEnd, EnqueueEnd, Stop, ReturnHeader, loop
<1>2. LoopInv'
  BY DEF StartDrain, DrainEnd, HeadersEnd, BodiesEnd, EnqueueEnd, Stop, ReturnHeader, timers,
         chain, FetcherInv, LoopInv, Delivering, HonestKept
<1>3. TimersArmed'
  BY <1>1, HashKept, StillArmed, Zenon DEF FetcherInv
<1> QED BY <1>1, <1>2, <1>3, Moves, Zenon

(* A delivery is taken up.                                                 *)
LEMMA FilterKeeps ==
  ASSUME FetcherInv, NEW p \in Peer, NEW hs \in SUBSET Block, NEW body,
         FilterHeaders(p, hs) \/ FilterBodies(p, body)
  PROVE  FetcherInv'
<1>1. /\ UNCHANGED <<hashes, blocks, imports>> /\ UNCHANGED timers
      /\ at \notin {"fetch", "complete", "quit"}
  BY Zenon DEF FilterHeaders, FilterBodies
<1>2. LoopInv'
  BY Zenon DEF FilterHeaders, FilterBodies, Matches, timers, chain, FetcherInv, LoopInv, Delivering,
         HonestKept
<1>3. TimersArmed'
  BY <1>1, HashKept, StillArmed, Zenon DEF FetcherInv
<1> QED BY <1>1, <1>2, <1>3, Moves, Zenon

(* A timer fires, and is set again when its handler ends.                  *)
LEMMA TimerKeeps ==
  ASSUME FetcherInv, \/ CompleteTimer \/ FetchEnd \/ CompleteEnd
                     \/ \E due \in SUBSET Block : FetchTimer(due)
  PROVE  FetcherInv'
<1>1. UNCHANGED <<hashes, blocks, imports>> /\ announced' = announced /\ fetched' = fetched
  BY Zenon DEF CompleteTimer, FetchEnd, CompleteEnd, FetchTimer, hashes
<1>2. LoopInv'
  BY Zenon DEF CompleteTimer, FetchEnd, CompleteEnd, FetchTimer, chain, FetcherInv, LoopInv,
         Delivering, HonestKept
<1>3. TimersArmed'
  <2>1. CASE CompleteTimer
    BY <1>1, <2>1, Zenon DEF CompleteTimer, FetcherInv, TimersArmed
  <2>2. CASE \E due \in SUBSET Block : FetchTimer(due)
    BY <1>1, <2>2 DEF FetchTimer, FetcherInv, TimersArmed
  <2>3. CASE FetchEnd
    BY <1>1, <2>3, Zenon DEF FetchEnd, RescheduleFetch, FetcherInv, TimersArmed
  <2>4. CASE CompleteEnd
    BY <1>1, <2>4, Zenon DEF CompleteEnd, RescheduleComplete, FetcherInv, TimersArmed
  <2> QED BY <2>1, <2>2, <2>3, <2>4, Zenon
<1> QED BY <1>1, <1>2, <1>3, Moves, Zenon

-----------------------------------------------------------------------------
(* The actions that forget a hash, or move it to its next stage.           *)

(* An announcement of a list, and what a peer said in it.                  *)
LEMMA Picked ==
  ASSUME NEW h, NEW list \in Seq(Announce), \A i \in DOMAIN list : True(h, list[i]),
         NEW a \in Pick(list)
  PROVE  a \in Announce /\ True(h, a)
<1>1. PICK i \in DOMAIN list : a = list[i]
  BY Zenon DEF Pick
<1>2. list[i] \in Announce
  OBVIOUS
<1> QED BY <1>1, <1>2, Zenon

LEMMA ForgetMoves ==
  ASSUME FetcherInv, NEW h \in Block, NEW f \in Announce \cup {Nobody},
         NEW c \in Announce \cup {Nobody}, True(h, f), True(h, c), ForgetHash(h, f, c),
         UNCHANGED <<blocks, imports>>, UNCHANGED timers, at' = at, LoopInv'
  PROVE  FetcherInv'
BY Forget, BlocksKept, StillArmed, Zenon DEF FetcherInv

(* Expire, and the handlers of the two timers.                             *)
LEMMA FetchKeeps ==
  ASSUME FetcherInv, NEW h \in Block, Expire(h) \/ Fetch(h) \/ Complete(h)
  PROVE  FetcherInv'
<1>1. UNCHANGED <<blocks, imports>> /\ UNCHANGED timers /\ at' = at
  BY Zenon DEF Expire, Fetch, Complete, loop
<1>2. LoopInv'
  BY Zenon DEF Expire, Fetch, Complete, timers, chain, loop, FetcherInv, LoopInv, Delivering, HonestKept
<1>3. CASE Expire(h)
  <2>1. ForgetHash(h, Nobody, Nobody)
    BY <1>3, Zenon DEF Expire
  <2> QED BY <1>1, <1>2, <2>1, ForgetMoves, NobodySilent, Zenon
<1>4. CASE Fetch(h)
  <2>1. PICK a \in Pick(announced[h]) : ForgetHash(h, IF h \in known THEN Nobody ELSE a, Nobody)
    BY <1>4, Zenon DEF Fetch
  <2>2. announced[h] \in Seq(Announce) /\ \A i \in DOMAIN announced[h] : True(h, announced[h][i])
    BY Zenon DEF FetcherInv, HashInv, HashType, HashTrue
  <2>3. a \in Announce /\ True(h, a)
    BY <2>2, Picked, Zenon
  <2> QED BY <1>1, <1>2, <2>1, <2>3, ForgetMoves, NobodySilent, Zenon
<1>5. CASE Complete(h)
  <2>1. PICK a \in Pick(fetched[h]) : ForgetHash(h, Nobody, IF h \in known THEN Nobody ELSE a)
    BY <1>5, Zenon DEF Complete
  <2>2. fetched[h] \in Seq(Announce) /\ \A i \in DOMAIN fetched[h] : True(h, fetched[h][i])
    BY Zenon DEF FetcherInv, HashInv, HashType, HashTrue
  <2>3. a \in Announce /\ True(h, a)
    BY <2>2, Picked, Zenon
  <2> QED BY <1>1, <1>2, <2>1, <2>3, ForgetMoves, NobodySilent, Zenon
<1> QED BY <1>3, <1>4, <1>5, Zenon

(* The header this peer was asked for: a fetch is under way.               *)
LEMMA AskedFetching ==
  ASSUME FetcherInv, NEW h \in Block, at = "headers", Asked(h)
  PROVE  /\ fetching[h] \in Announce /\ True(h, fetching[h])
         /\ announced[h] = <<>> /\ fetched[h] = <<>> /\ completing[h] = Nobody
<1>1. fetching[h].origin \in Peer
  BY Zenon DEF FetcherInv, LoopInv, Delivering, Asked
<1>2. fetching[h] # Nobody
  BY <1>1, NobodySilent, Zenon
<1> QED BY <1>2 DEF FetcherInv, HashInv, HashType, StagesDisjoint, HashTrue, Asked

(* A header of the wrong number drops the peer that announced it, which    *)
(* cannot be one that tells the truth.                                     *)
LEMMA WrongKeeps ==
  ASSUME FetcherInv, NEW h \in Block, WrongNumber(h)
  PROVE  FetcherInv'
<1>1. fetching[h] \in Announce /\ True(h, fetching[h])
  BY AskedFetching, Zenon DEF WrongNumber
<1>2. fetching[h].origin \in Peer \ Honest
  BY <1>1, Zenon DEF WrongNumber, True, Announce
<1>3. LoopInv'
  BY <1>2, Zenon DEF WrongNumber, timers, chain, FetcherInv, LoopInv, Delivering, HonestKept
<1> QED BY <1>3, ForgetMoves, NobodySilent, Zenon DEF WrongNumber

LEMMA KnownKeeps ==
  ASSUME FetcherInv, NEW h \in Block, HeaderKnown(h)
  PROVE  FetcherInv'
<1>1. LoopInv'
  BY Zenon DEF HeaderKnown, timers, chain, FetcherInv, LoopInv, Delivering, HonestKept
<1> QED BY <1>1, ForgetMoves, NobodySilent, Zenon DEF HeaderKnown

LEMMA BodyKeeps ==
  ASSUME FetcherInv, NEW h \in Block, MatchBody(h)
  PROVE  FetcherInv'
<1>1. LoopInv'
  BY Zenon DEF MatchBody, timers, chain, FetcherInv, LoopInv, Delivering, HonestKept
<1>2. UNCHANGED <<blocks, imports>> /\ UNCHANGED timers /\ at' = at
  BY Zenon DEF MatchBody
<1>3. CASE h \in known
  BY <1>1, <1>2, <1>3, ForgetMoves, NobodySilent, Zenon DEF MatchBody
<1>4. CASE h \notin known
  <2>1. UNCHANGED hashes
    BY <1>4, Zenon DEF MatchBody
  <2>2. TimersArmed'
    BY <1>2, <2>1, HashKept, StillArmed, Zenon DEF FetcherInv
  <2> QED BY <1>1, <1>2, <2>1, <2>2, Moves, Zenon
<1> QED BY <1>3, <1>4, Zenon

-----------------------------------------------------------------------------
(* The actions that put a hash in a stage.                                 *)

LEMMA EmptyKeeps ==
  ASSUME FetcherInv, NEW h \in Block, HeaderEmpty(h)
  PROVE  FetcherInv'
<1>1. /\ fetching[h] \in Announce /\ True(h, fetching[h]) /\ announced[h] = <<>>
      /\ fetched[h] = <<>>
  BY AskedFetching, Zenon DEF HeaderEmpty
<1>2. /\ UNCHANGED <<announces, announced, fetching, fetched>>
      /\ completing' = [completing EXCEPT ![h] = fetching[h]]
  BY Zenon DEF HeaderEmpty
<1>3. HashType /\ StagesDisjoint /\ HashTrue
  BY Zenon DEF FetcherInv, HashInv
<1>4. \A x \in Block : completing'[x] = IF x = h THEN fetching[h] ELSE completing[x]
  BY <1>2, <1>3, Zenon DEF HashType
<1>5. HashType'
  BY <1>1, <1>2, <1>3, Zenon DEF HashType
<1>6. StagesDisjoint'
  BY <1>1, <1>2, <1>3, <1>4, Zenon DEF StagesDisjoint
<1>7. HashTrue'
  BY <1>1, <1>2, <1>3, <1>4, Zenon DEF HashTrue, True
<1>8. Fewer
  BY <1>2, Zenon DEF Fewer
<1>9. LoopInv'
  BY Zenon DEF HeaderEmpty, timers, chain, FetcherInv, LoopInv, Delivering, HonestKept
<1>10. TimersArmed'
  BY <1>8, StillArmed, Zenon DEF HeaderEmpty, FetcherInv
<1>11. BlockInv'
  BY BlocksKept, Zenon DEF HeaderEmpty, FetcherInv
<1> QED BY <1>5, <1>6, <1>7, <1>9, <1>10, <1>11, Zenon DEF FetcherInv, HashInv

LEMMA FullKeeps ==
  ASSUME FetcherInv, NEW h \in Block, HeaderFull(h)
  PROVE  FetcherInv'
<1>1. /\ fetching[h] \in Announce /\ True(h, fetching[h]) /\ announced[h] = <<>>
      /\ fetched[h] = <<>> /\ completing[h] = Nobody
  BY AskedFetching, Zenon DEF HeaderFull
<1>2. /\ UNCHANGED <<announces, announced, fetching, completing>>
      /\ fetched' = [fetched EXCEPT ![h] = <<fetching[h]>>]
  BY <1>1 DEF HeaderFull
<1>3. HashType /\ StagesDisjoint /\ HashTrue
  BY Zenon DEF FetcherInv, HashInv
<1>4. \A x \in Block : fetched'[x] = IF x = h THEN <<fetching[h]>> ELSE fetched[x]
  BY <1>2, <1>3, Zenon DEF HashType
<1>5. HashType'
  <2>1. <<fetching[h]>> \in Seq(Announce)
    BY <1>1
  <2> QED BY <1>2, <1>3, <2>1, Zenon DEF HashType
<1>6. StagesDisjoint'
  <2>1. fetching[h] # Nobody
    BY <1>1, NobodySilent, Zenon
  <2> QED BY <1>1, <1>2, <1>3, <1>4, <2>1, Zenon DEF StagesDisjoint
<1>7. HashTrue'
  <2>1. \A i \in DOMAIN <<fetching[h]>> : <<fetching[h]>>[i] = fetching[h]
    OBVIOUS
  <2>2. \A x \in Block : \A i \in DOMAIN fetched'[x] : True(x, fetched'[x][i])
    BY <1>1, <1>3, <1>4, <2>1, Zenon DEF HashTrue
  <2> QED BY <1>2, <1>3, <2>2, Zenon DEF HashTrue, True
<1>8. LoopInv'
  <2>1. completeTimer' \in BOOLEAN
    BY Zenon DEF HeaderFull
  <2> QED BY <2>1, Zenon DEF HeaderFull, chain, FetcherInv, LoopInv, Delivering, HonestKept
<1>9. TimersArmed'
  <2>1. completeTimer'
    BY Zenon DEF HeaderFull, FetcherInv, TimersArmed
  <2>2. announced' = announced /\ fetchTimer' = fetchTimer /\ at' = at
    BY Zenon DEF HeaderFull
  <2> QED BY <2>1, <2>2, Zenon DEF FetcherInv, TimersArmed
<1>10. BlockInv'
  BY BlocksKept, Zenon DEF HeaderFull, FetcherInv
<1> QED BY <1>5, <1>6, <1>7, <1>8, <1>9, <1>10, Zenon DEF FetcherInv, HashInv

(* A hash is announced while nothing of it is under way.                   *)
LEMMA NotifyKeeps ==
  ASSUME FetcherInv, NEW p \in Peer, NEW h \in Block, NEW n \in Claims(p, h), MayOffer(p, h),
         Notify(p, h, n)
  PROVE  FetcherInv'
<1> DEFINE a == [origin |-> p, number |-> n]
<1>1. n \in 0..(MaxNumber + 1) /\ (p \in Honest => n = number[h])
  BY TreeAssumption DEF Claims
<1>2. a \in Announce /\ True(h, a)
  BY <1>1, Zenon DEF Announce, True, MayOffer
<1>3. /\ at = "select" /\ at' = "top"
      /\ UNCHANGED <<fetching, fetched, completing, completeTimer, imports>> /\ UNCHANGED blocks
  BY Zenon DEF Notify
<1>4. LoopInv'
  <2>1. fetchTimer' \in BOOLEAN
    BY Zenon DEF Notify, FetcherInv, LoopInv
  <2>2. offers' \in 0..MaxOffers
    BY FetcherAssumption DEF Notify, FetcherInv, LoopInv
  <2> QED BY <1>3, <2>1, <2>2, Zenon DEF Notify, chain, FetcherInv, LoopInv, Delivering, HonestKept
<1>5. HashType /\ StagesDisjoint /\ HashTrue /\ TimersArmed /\ BlockInv
  BY Zenon DEF FetcherInv, HashInv
<1>6. BlockInv'
  BY <1>3, <1>5, BlocksKept, Zenon
<1> HIDE DEF a
<1>7. CASE UNCHANGED <<announces, announced, fetchTimer>>
  <2>1. HashInv' /\ Fewer
    BY <1>3, <1>5, <1>7, HashKept, Zenon DEF HashInv, hashes
  <2>2. TimersArmed'
    BY <1>3, <1>5, <1>7, <2>1, StillArmed, Zenon DEF timers
  <2> QED BY <1>4, <1>6, <2>1, <2>2, Zenon DEF FetcherInv
<1>8. CASE /\ fetching[h] = Nobody /\ completing[h] = Nobody
           /\ announces' = [announces EXCEPT ![p] = @ + 1]
           /\ announced' = [announced EXCEPT ![h] = Append(@, a)]
           /\ fetchTimer' = (fetchTimer \/ \A x \in Block \ {h} : announced[x] = <<>>)
  <2>1. announced[h] \in Seq(Announce)
    BY <1>5, Zenon DEF HashType
  <2>2. Append(announced[h], a) \in Seq(Announce)
    BY <1>2, <2>1
  <2>3. \A i \in DOMAIN Append(announced[h], a) :
          \/ Append(announced[h], a)[i] = a
          \/ i \in DOMAIN announced[h] /\ Append(announced[h], a)[i] = announced[h][i]
    BY <1>2, <2>1
  <2>4. \A x \in Block : announced'[x] = IF x = h THEN Append(announced[h], a) ELSE announced[x]
    BY <1>5, <1>8, Zenon DEF HashType
  <2>5. HashType'
    BY <1>3, <1>5, <1>8, <2>2 DEF HashType
  <2>6. StagesDisjoint'
    BY <1>3, <1>5, <1>8, <2>4, Zenon DEF StagesDisjoint
  <2>7. HashTrue'
    <3>1. \A i \in DOMAIN Append(announced[h], a) : True(h, Append(announced[h], a)[i])
      <4>1. \A i \in DOMAIN announced[h] : True(h, announced[h][i])
        BY <1>5, Zenon DEF HashTrue
      <4> QED BY <1>2, <2>3, <4>1, Zenon
    <3>2. \A x \in Block : \A i \in DOMAIN announced'[x] : True(x, announced'[x][i])
      BY <1>5, <2>4, <3>1, Zenon DEF HashTrue
    <3> QED BY <1>3, <1>5, <3>2, Zenon DEF HashTrue, True
  <2>8. TimersArmed'
    <3>1. fetchTimer'
      BY <1>3, <1>5, <1>8, Zenon DEF TimersArmed
    <3> QED BY <1>3, <1>5, <3>1, Zenon DEF TimersArmed
  <2> QED BY <1>4, <1>6, <2>5, <2>6, <2>7, <2>8, Zenon DEF FetcherInv, HashInv
<1> QED BY <1>7, <1>8, Zenon DEF Notify, a

-----------------------------------------------------------------------------
(* The actions on the queue and the imports.                               *)

LEMMA InjectKeeps ==
  ASSUME FetcherInv, NEW p \in Peer, NEW b \in Block, MayOffer(p, b), InjectBlock(p, b)
  PROVE  FetcherInv'
<1>1. at = "select" /\ UNCHANGED timers /\ Enqueue(p, b) /\ UNCHANGED imports
  BY Zenon DEF InjectBlock
<1>2. HashInv' /\ Fewer /\ BlockInv'
  BY <1>1, EnqueueKeeps, Zenon DEF FetcherInv, MayOffer
<1>3. TimersArmed'
  BY <1>1, <1>2, StillArmed, Zenon DEF FetcherInv
<1>4. LoopInv'
  BY FetcherAssumption DEF InjectBlock, timers, chain, FetcherInv, LoopInv, Delivering, HonestKept
<1> QED BY <1>2, <1>3, <1>4, Zenon DEF FetcherInv

LEMMA ReadyKeeps ==
  ASSUME FetcherInv, NEW h \in Block, EnqueueReady(h)
  PROVE  FetcherInv'
<1>1. at = "enqueue" /\ at' = at /\ UNCHANGED timers /\ UNCHANGED imports
  BY Zenon DEF EnqueueReady
<1>2. HashInv' /\ Fewer /\ BlockInv'
  <2>1. CASE completing[h] # Nobody
    <3>1. completing[h].origin \in Peer /\ True(h, completing[h])
      BY <2>1, Zenon DEF FetcherInv, HashInv, HashType, HashTrue, Announce
    <3> QED BY <1>1, <2>1, <3>1, EnqueueKeeps, Zenon DEF EnqueueReady, FetcherInv, True
  <2>2. CASE completing[h] = Nobody
    BY <1>1, <2>2, HashKept, BlocksKept, Zenon DEF EnqueueReady, FetcherInv
  <2> QED BY <2>1, <2>2, Zenon
<1>3. TimersArmed'
  BY <1>1, <1>2, StillArmed, Zenon DEF FetcherInv
<1>4. LoopInv'
  BY Zenon DEF EnqueueReady, timers, chain, FetcherInv, LoopInv, Delivering, HonestKept
<1> QED BY <1>2, <1>3, <1>4, Zenon DEF FetcherInv

(* The queue and the imports do not share a block, nor two of their        *)
(* members.                                                                *)
LEMMA Distinct ==
  ASSUME BlockInv
  PROVE  /\ \A o \in queue : o.block \in Block /\ o.origin \in Peer
         /\ \A g \in imports : g.block \in Block /\ g.origin \in Peer
         /\ \A o \in queue, g \in imports : o.block # g.block
         /\ \A o, q \in queue : o.block = q.block => o = q
         /\ \A f, g \in imports : f.block = g.block => f = g
<1>1. /\ \A o \in queue : o \in Inject /\ o.block \in Block /\ o.origin \in Peer
      /\ \A g \in imports : g.block \in Block /\ g.origin \in Peer
  BY Zenon DEF BlockInv, BlockType, Inject, Import
<1>2. \A o, q \in Inject : o.block = q.block /\ o.origin = q.origin => o = q
  BY DEF Inject
<1>3. \A o, q \in queue : o.block = q.block => o.origin = q.origin
  BY Zenon DEF BlockInv, ImportOnce
<1>4. \A o, q \in queue : o.block = q.block => o = q
  BY <1>1, <1>2, <1>3, Zenon
<1> QED BY <1>1, <1>4, Zenon DEF BlockInv, ImportOnce

LEMMA StaleKeeps ==
  ASSUME FetcherInv, NEW op \in queue, DrainStale(op)
  PROVE  FetcherInv'
<1>0. BlockInv /\ op.block \in Block
  BY Distinct, Zenon DEF FetcherInv
<1>1. /\ at = "drain" /\ at' = at /\ UNCHANGED timers /\ UNCHANGED hashes
      /\ queue' = queue \ {op} /\ imports' = imports /\ ForgetBlock(op.block)
  BY Zenon DEF DrainStale, loop
<1>2. queue' = {o \in queue : o.block # op.block}
  BY <1>0, <1>1, Distinct, Zenon
<1>3. imports' = {g \in imports : g.block # op.block}
  BY <1>0, <1>1, Distinct, Zenon
<1>4. BlockInv'
  BY <1>0, <1>1, <1>2, <1>3, Leave, Zenon
<1>5. HashInv' /\ TimersArmed'
  BY <1>1, HashKept, StillArmed, Zenon DEF FetcherInv
<1>6. LoopInv'
  BY Zenon DEF DrainStale, timers, chain, loop, FetcherInv, LoopInv, Delivering, HonestKept
<1> QED BY <1>4, <1>5, <1>6, Zenon DEF FetcherInv

(* A block goes from the queue to a goroutine of its own.                  *)
LEMMA InsertKeeps ==
  ASSUME FetcherInv, NEW op \in queue, DrainInsert(op)
  PROVE  FetcherInv'
<1> DEFINE new == [origin |-> op.origin, block |-> op.block, pc |-> "run"]
<1>0. BlockInv /\ op.block \in Block /\ op.origin \in Peer
  BY Distinct, Zenon DEF FetcherInv
<1>1. /\ at = "drain" /\ at' = at /\ UNCHANGED timers /\ UNCHANGED hashes
      /\ queue' = queue \ {op} /\ imports' = imports \cup {new} /\ UNCHANGED <<queues, queued>>
  BY Zenon DEF DrainInsert, loop
<1>2. new \in Import /\ new.block = op.block /\ new.origin = op.origin
  BY <1>0, Zenon DEF Import
<1> HIDE DEF new
<1>3. BlockType'
  BY <1>0, <1>1, <1>2, Zenon DEF BlockInv, BlockType
<1>4. QueueCounts'
  BY <1>0, <1>1, Zenon DEF BlockInv, QueueCounts
<1>5. BlockTrue'
  BY <1>0, <1>1, <1>2, Zenon DEF BlockInv, BlockTrue
<1>6. ImportOnce'
  <2>1. \A b \in Block : queued'[b] # None <=>
          (\E o \in queue' : o.block = b) \/ (\E g \in imports' : g.block = b)
    BY <1>0, <1>1, <1>2, Distinct DEF BlockInv, ImportOnce
  <2>2. /\ \A o \in queue', g \in imports' : o.block # g.block
        /\ \A f, g \in imports' : f.block = g.block => f = g
    BY <1>0, <1>1, <1>2, Distinct
  <2>3. /\ \A o \in queue' : queued'[o.block] = o.origin
        /\ \A g \in imports' : queued'[g.block] = g.origin
    BY <1>0, <1>1, <1>2 DEF BlockInv, ImportOnce
  <2> QED BY <2>1, <2>2, <2>3, Zenon DEF ImportOnce
<1>7. HashInv' /\ TimersArmed'
  BY <1>1, HashKept, StillArmed, Zenon DEF FetcherInv
<1>8. LoopInv'
  BY Zenon DEF DrainInsert, timers, chain, loop, FetcherInv, LoopInv, Delivering, HonestKept
<1> QED BY <1>3, <1>4, <1>5, <1>6, <1>7, <1>8, Zenon DEF FetcherInv, BlockInv

(* The chain takes in a block.                                             *)
LEMMA AdoptType ==
  ASSUME known \subseteq Block, NEW b \in Block, Adopt(b)
  PROVE  known' \subseteq Block /\ height' \in Nat
<1>1. known' \subseteq Block
  BY Zenon DEF Adopt
<1>2. PICK x \in known' : height' = number[x]
  BY Zenon DEF Adopt
<1> QED BY <1>1, <1>2, TreeAssumption

(* An import ends; only a peer that does not tell the truth is dropped.    *)
LEMMA ImportKeeps ==
  ASSUME FetcherInv, NEW g \in imports, ImportBlock(g)
  PROVE  FetcherInv'
<1> DEFINE new == [g EXCEPT !.pc = "done"]
<1>0. BlockInv /\ g.block \in Block /\ g.origin \in Peer /\ g \in Import
  BY Distinct, Zenon DEF FetcherInv, BlockInv, BlockType
<1>1. /\ at' = at /\ UNCHANGED timers /\ UNCHANGED hashes /\ UNCHANGED blocks
      /\ imports' = (imports \ {g}) \cup {new}
  BY Zenon DEF ImportBlock, loop
<1>2. new \in Import /\ new.block = g.block /\ new.origin = g.origin
  BY <1>0, Zenon DEF Import
<1> HIDE DEF new
<1>3. BlockType' /\ QueueCounts' /\ BlockTrue'
  BY <1>0, <1>1, <1>2, Zenon DEF BlockInv, BlockType, QueueCounts, BlockTrue, blocks
<1>4. ImportOnce'
  <2>1. queue' = queue /\ queued' = queued
    BY <1>1, Zenon DEF blocks
  <2>2. \A b \in Block : (\E f \in imports' : f.block = b) <=> (\E f \in imports : f.block = b)
    BY <1>1, <1>2, Zenon
  <2>3. /\ \A o \in queue', f \in imports' : o.block # f.block
        /\ \A e, f \in imports' : e.block = f.block => e = f
    BY <1>0, <1>1, <1>2, <2>1, Distinct
  <2>4. \A f \in imports' : queued'[f.block] = f.origin
    BY <1>0, <1>1, <1>2, <2>1 DEF BlockInv, ImportOnce
  <2> QED BY <1>0, <2>1, <2>2, <2>3, <2>4, Zenon DEF BlockInv, ImportOnce
<1>5. HashInv' /\ TimersArmed'
  BY <1>1, HashKept, StillArmed, Zenon DEF FetcherInv
<1>6. dropped' \subseteq Peer /\ dropped' \cap Honest = {}
  BY <1>0, Zenon DEF ImportBlock, FetcherInv, LoopInv, HonestKept, BlockInv, BlockTrue
<1>7. known' \subseteq Block /\ height' \in Nat
  BY <1>0, AdoptType, Zenon DEF ImportBlock, chain, FetcherInv, LoopInv
<1>8. LoopInv'
  BY <1>6, <1>7, Zenon DEF ImportBlock, timers, loop, FetcherInv, LoopInv, Delivering, HonestKept
<1> QED BY <1>3, <1>4, <1>5, <1>8, Zenon DEF FetcherInv, BlockInv

LEMMA DoneKeeps ==
  ASSUME FetcherInv, NEW g \in imports, Done(g)
  PROVE  FetcherInv'
<1>0. BlockInv /\ HashInv /\ TimersArmed /\ g.block \in Block
  BY Distinct, Zenon DEF FetcherInv
<1>1. /\ at = "select" /\ UNCHANGED timers /\ queue' = queue /\ imports' = imports \ {g}
      /\ ForgetHash(g.block, Nobody, Nobody) /\ ForgetBlock(g.block)
  BY Zenon DEF Done
<1>2. imports' = {f \in imports : f.block # g.block}
  BY <1>0, <1>1, Distinct, Zenon
<1>3. queue' = {o \in queue : o.block # g.block}
  BY <1>0, <1>1, Distinct, Zenon
<1>4. BlockInv'
  BY <1>0, <1>1, <1>2, <1>3, Leave, Zenon
<1>5. HashInv' /\ Fewer
  BY <1>0, <1>1, Forget, NobodySilent, Zenon
<1>6. TimersArmed'
  BY <1>0, <1>1, <1>5, StillArmed, Zenon
<1>7. LoopInv'
  BY Zenon DEF Done, timers, chain, FetcherInv, LoopInv, Delivering, HonestKept
<1> QED BY <1>4, <1>5, <1>6, <1>7, Zenon DEF FetcherInv

LEMMA ElsewhereKeeps ==
  ASSUME FetcherInv, NEW b \in Block, ImportElsewhere(b)
  PROVE  FetcherInv'
<1>1. UNCHANGED <<hashes, blocks, imports>> /\ UNCHANGED timers /\ at' = at
  BY Zenon DEF ImportElsewhere, loop
<1>2. known' \subseteq Block /\ height' \in Nat
  BY AdoptType, Zenon DEF ImportElsewhere, FetcherInv, LoopInv
<1>3. LoopInv'
  BY <1>2, Zenon DEF ImportElsewhere, timers, loop, FetcherInv, LoopInv, Delivering, HonestKept
<1>4. TimersArmed'
  BY <1>1, HashKept, StillArmed, Zenon DEF FetcherInv
<1> QED BY <1>1, <1>3, <1>4, Moves, Zenon

-----------------------------------------------------------------------------
(* The invariant.                                                          *)

LEMMA InitFetcher == FetcherInit => FetcherInv
<1> SUFFICES ASSUME FetcherInit PROVE FetcherInv
  BY Zenon
<1>1. HashInv
  <2>1. HashType
    BY DEF FetcherInit, HashType
  <2>2. StagesDisjoint
    BY Zenon DEF FetcherInit, StagesDisjoint
  <2>3. HashTrue
    BY NobodySilent DEF FetcherInit, HashTrue
  <2> QED BY <2>1, <2>2, <2>3, Zenon DEF HashInv
<1>2. BlockInv
  <2>1. BlockType /\ ImportOnce /\ BlockTrue
    BY Zenon DEF FetcherInit, BlockType, ImportOnce, BlockTrue
  <2>2. \A p \in Peer : Of(p) = {}
    BY FetcherAssumption, Zenon DEF FetcherInit, Of
  <2>3. QueueCounts
    <3>1. \A p \in Peer : queues[p] = 0 /\ Cardinality(Of(p)) = 0
      BY <2>2, FS_EmptySet, Zenon DEF FetcherInit
    <3> QED BY <3>1, CountsOf, FetcherAssumption
  <2> QED BY <2>1, <2>3, Zenon DEF BlockInv
<1>3. LoopInv
  BY TreeAssumption, FetcherAssumption DEF FetcherInit, LoopInv, Delivering, HonestKept
<1>4. TimersArmed
  BY Zenon DEF FetcherInit, TimersArmed
<1> QED BY <1>1, <1>2, <1>3, <1>4, Zenon DEF FetcherInv

LEMMA NextFetcher == FetcherInv /\ [FetcherNext]_fetcherVars => FetcherInv'
<1> SUFFICES ASSUME FetcherInv, [FetcherNext]_fetcherVars PROVE FetcherInv'
  BY Zenon
<1>1. CASE Handle
  <2>1. CASE StartDrain \/ DrainEnd \/ HeadersEnd \/ BodiesEnd \/ EnqueueEnd
    BY <2>1, TurnKeeps, Zenon
  <2>2. CASE FetchEnd \/ CompleteEnd
    BY <2>2, TimerKeeps, Zenon
  <2>3. CASE \E op \in queue : DrainStale(op) \/ DrainInsert(op)
    BY <2>3, StaleKeeps, InsertKeeps, Zenon
  <2>4. CASE \E h \in Block : Fetch(h) \/ Complete(h) \/ MatchBody(h) \/ EnqueueReady(h)
                              \/ ReturnHeader(h) \/ WrongNumber(h) \/ HeaderKnown(h)
                              \/ HeaderEmpty(h) \/ HeaderFull(h)
    BY <2>4, FetchKeeps, BodyKeeps, ReadyKeeps, TurnKeeps, WrongKeeps, KnownKeeps, EmptyKeeps,
       FullKeeps, Zenon
  <2> QED BY <1>1, <2>1, <2>2, <2>3, <2>4, Zenon DEF Handle
<1>2. CASE \E h \in Block : Expire(h)
  BY <1>2, FetchKeeps, Zenon
<1>3. CASE \E p \in Peer, h \in Block \ {Genesis} : \E n \in Claims(p, h) :
             MayOffer(p, h) /\ Notify(p, h, n)
  BY <1>3, NotifyKeeps, Zenon
<1>4. CASE \E p \in Peer, b \in Block \ {Genesis} : MayOffer(p, b) /\ InjectBlock(p, b)
  BY <1>4, InjectKeeps, Zenon
<1>5. CASE (\E due \in SUBSET Block : FetchTimer(due)) \/ CompleteTimer
  BY <1>5, TimerKeeps, Zenon
<1>6. CASE \E p \in Peer, hs \in SUBSET (Block \ {Genesis}) : FilterHeaders(p, hs)
  BY <1>6, FilterKeeps, Zenon
<1>7. CASE \E p \in Peer, b \in Block : FilterBodies(p, txs[b])
  BY <1>7, FilterKeeps, Zenon
<1>8. CASE \E g \in imports : ImportBlock(g) \/ Done(g)
  BY <1>8, ImportKeeps, DoneKeeps, Zenon
<1>9. CASE \E b \in Block : ImportElsewhere(b)
  BY <1>9, ElsewhereKeeps, Zenon
<1>10. CASE Stop
  BY <1>10, TurnKeeps, Zenon
<1>11. CASE UNCHANGED fetcherVars
  <2>1. UNCHANGED <<hashes, blocks, imports>> /\ UNCHANGED timers /\ at' = at
    BY <1>11, Zenon DEF fetcherVars, hashes, blocks, timers
  <2>2. LoopInv'
    BY <1>11, Zenon DEF fetcherVars, FetcherInv, LoopInv, Delivering, HonestKept
  <2>3. TimersArmed'
    BY <2>1, HashKept, StillArmed, Zenon DEF FetcherInv
  <2> QED BY <2>1, <2>2, <2>3, Moves, Zenon
<1> QED BY <1>1, <1>2, <1>3, <1>4, <1>5, <1>6, <1>7, <1>8, <1>9, <1>10, <1>11, Zenon DEF FetcherNext

(* Whatever peers announce, offer and deliver, in whatever order, and      *)
(* whatever else the chain takes in meanwhile: a block is in the queue or  *)
(* being imported once at most, the allowance of each peer counts exactly  *)
(* its blocks there, the stages of a hash exclude each other and no hash   *)
(* is left waiting without its timer.                                      *)
THEOREM FetcherAlwaysSound == FetcherSpec => []FetcherSound
<1>1. FetcherInv => FetcherSound
  BY InvSound, Zenon
<1> QED BY <1>1, InitFetcher, NextFetcher, PTL DEF FetcherSpec

(* A peer that announces true numbers and offers sound blocks is never     *)
(* dropped: neither for the header another peer delivers nor for the       *)
(* outcome of an import.                                                   *)
THEOREM HonestNeverDropped == FetcherSpec => []HonestKept
<1>1. FetcherInv => HonestKept
  BY InvSound, Zenon
<1> QED BY <1>1, InitFetcher, NextFetcher, PTL DEF FetcherSpec

-----------------------------------------------------------------------------
(***************************************************************************)
(* The miner: LoopsMatch, OneSearch and WorkTaken are invariants, however  *)
(* many heads, syncs and calls of Start and Stop there are.  (MinerMoves,  *)
(* the fourth part of MinerSound, is about ENABLED.)                       *)
(***************************************************************************)
VARIABLES canStart, shouldStart, mining, call, looping, syncs, syncing, wmining, heads, headSeen,
  isMining, stop, workCh, loops, quitOp, search, recv, mustCommit, pushes, calls
CONSTANTS MaxHeads, MaxCalls, MaxSyncs

M == INSTANCE Miner WITH seen <- headSeen

(* What makes the three inductive: the worker and its agent are on and off *)
(* together, and real work has a number that NoWork has not.               *)
Works == (Nat \ {0}) \X Nat
MinerType ==
  /\ loops \in Nat /\ pushes \in Nat /\ heads \in Nat
  /\ stop \in BOOLEAN /\ isMining \in BOOLEAN
  /\ workCh \in Works \cup {M!NoWork}
MinerInv ==
  /\ MinerType /\ wmining = isMining
  /\ \A w \in DOMAIN search : w \in Works /\ search[w] \in BOOLEAN
  /\ \A w \in DOMAIN search : ~search[w] => w = quitOp
  /\ loops = 0 => quitOp = M!NoWork
  /\ M!LoopsMatch /\ M!WorkTaken

LEMMA NoWorkFree == M!NoWork \notin Works
BY Zenon DEF Works, M!NoWork

LEMMA MinerInvSound == MinerInv => M!LoopsMatch /\ M!OneSearch /\ M!WorkTaken
BY NoWorkFree, Zenon DEF MinerInv, M!OneSearch

(* Pushing work: the agent is on to take it.                               *)
LEMMA PushKeeps ==
  ASSUME MinerInv, M!Push
  PROVE  /\ pushes' \in Nat /\ workCh' \in Works \cup {M!NoWork}
         /\ workCh' # M!NoWork => isMining
<1>1. CASE wmining
  <2>1. <<pushes + 1, heads>> \in Works /\ pushes + 1 \in Nat
    BY DEF MinerInv, MinerType, Works
  <2> QED BY <1>1, <2>1, Zenon DEF M!Push, MinerInv
<1>2. CASE ~wmining
  BY <1>2, Zenon DEF M!Push, MinerInv, MinerType, M!WorkTaken
<1> QED BY <1>1, <1>2, Zenon

(* The searches and the agent are left alone.                              *)
LEMMA MinerPush ==
  ASSUME MinerInv, pushes' \in Nat, workCh' \in Works \cup {M!NoWork},
         workCh' # M!NoWork => isMining, heads' \in Nat,
         UNCHANGED <<wmining, isMining, stop, loops, quitOp, search>>
  PROVE  MinerInv'
BY Zenon DEF MinerInv, MinerType, M!LoopsMatch, M!WorkTaken, M!NoWork

LEMMA MinerStep == MinerInv /\ [M!Next]_M!minerVars => MinerInv'
<1> SUFFICES ASSUME MinerInv, [M!Next]_M!minerVars PROVE MinerInv'
  BY Zenon
<1>1. CASE UNCHANGED <<M!work, M!agent>>
  BY <1>1, MinerPush, Zenon DEF MinerInv, MinerType, M!WorkTaken, M!work, M!agent
<1>2. ASSUME NEW c \in M!Caller, M!SpinUp(c) PROVE MinerInv'
  <2>1. /\ wmining' = TRUE /\ isMining' = TRUE /\ loops' = IF isMining THEN loops ELSE loops + 1
        /\ UNCHANGED <<heads, pushes, stop, workCh, quitOp, search>>
    BY <1>2, Zenon DEF M!SpinUp
  <2>2. MinerType' /\ wmining' = isMining'
    BY <2>1 DEF MinerInv, MinerType, M!NoWork
  <2>3. loops' # 0
    BY <2>1 DEF MinerInv, MinerType, M!LoopsMatch
  <2>4. M!LoopsMatch' /\ M!WorkTaken'
    BY <2>1 DEF MinerInv, MinerType, M!LoopsMatch, M!WorkTaken
  <2> QED BY <2>1, <2>2, <2>3, <2>4, Zenon DEF MinerInv
<1>3. ASSUME NEW c \in M!Caller, M!Commit(c) PROVE MinerInv'
  BY <1>3, PushKeeps, MinerPush, Zenon DEF M!Commit, MinerInv, MinerType
<1>4. ASSUME NEW c \in M!Caller, M!StopAgent(c) PROVE MinerInv'
  <2>1. wmining' = FALSE /\ UNCHANGED <<heads, pushes, loops, quitOp, search>>
    BY <1>4, Zenon DEF M!StopAgent
  <2>2. CASE isMining
    <3>1. ~stop /\ stop' = TRUE /\ workCh' = M!NoWork /\ isMining' = FALSE
      BY <1>4, <2>2, Zenon DEF M!StopAgent, MinerInv
    <3>2. MinerType' /\ wmining' = isMining' /\ M!WorkTaken'
      BY <2>1, <3>1, Zenon DEF MinerInv, MinerType, M!WorkTaken, M!NoWork
    <3>3. M!LoopsMatch'
      BY <2>1, <2>2, <3>1 DEF MinerInv, MinerType, M!LoopsMatch
    <3> QED BY <2>1, <3>2, <3>3, Zenon DEF MinerInv, M!NoWork
  <2>3. CASE ~isMining
    BY <1>4, <2>1, <2>3, Zenon DEF M!StopAgent, MinerInv, MinerType, M!LoopsMatch, M!WorkTaken, M!NoWork
  <2> QED BY <2>2, <2>3, Zenon DEF MinerInv, MinerType
<1>5. CASE M!TakeWork
  <2>1. /\ loops > 0 /\ workCh \in Works /\ quitOp' = workCh /\ workCh' = M!NoWork
        /\ UNCHANGED <<isMining, wmining, stop, loops, heads, pushes>>
        /\ search' = [w \in DOMAIN search \cup {workCh} |->
                        IF w = workCh THEN FALSE ELSE M!Told(search)[w]]
    BY <1>5, Zenon DEF M!TakeWork, M!work, MinerInv, MinerType
  <2>2. ASSUME NEW w \in DOMAIN search'
        PROVE  w \in Works /\ search'[w] \in BOOLEAN /\ (~search'[w] => w = quitOp')
    BY <2>1, <2>2, Zenon DEF M!Told, MinerInv
  <2>3. MinerType' /\ M!LoopsMatch' /\ M!WorkTaken' /\ loops' # 0
    BY <2>1 DEF MinerInv, MinerType, M!LoopsMatch, M!WorkTaken, M!NoWork
  <2> QED BY <2>1, <2>2, <2>3, Zenon DEF MinerInv
<1>6. CASE M!TakeStop
  <2>1. /\ loops > 0 /\ stop /\ stop' = FALSE /\ loops' = loops - 1 /\ search' = M!Told(search)
        /\ quitOp' = M!NoWork /\ UNCHANGED <<isMining, wmining, workCh, heads, pushes>>
    BY <1>6, Zenon DEF M!TakeStop, M!work
  <2>2. ASSUME NEW w \in DOMAIN search' PROVE w \in Works /\ search'[w] = TRUE
    <3>1. w \in DOMAIN search /\ search'[w] = IF w = quitOp THEN TRUE ELSE search[w]
      BY <2>1, Zenon DEF M!Told
    <3>2. w # quitOp => search[w] = TRUE
      BY <3>1, Zenon DEF MinerInv
    <3> QED BY <3>1, <3>2, Zenon DEF MinerInv
  <2>3. loops - 1 = IF isMining THEN 1 ELSE 0
    BY <2>1, Zenon DEF MinerInv, M!LoopsMatch
  <2>4. MinerType'
    <3>1. MinerType
      BY Zenon DEF MinerInv
    <3>2. loops' \in Nat
      BY <2>1, <3>1 DEF MinerType
    <3> QED BY <2>1, <3>1, <3>2, Zenon DEF MinerType, M!NoWork
  <2>5. M!WorkTaken'
    BY <2>1, Zenon DEF MinerInv, M!WorkTaken, M!NoWork
  <2>6. M!LoopsMatch'
    <3>1. ~stop' /\ loops' \in Nat /\ loops' = IF isMining' THEN 1 ELSE 0
      BY <2>1, <2>3, <2>4, Zenon DEF MinerType
    <3> QED BY <3>1 DEF M!LoopsMatch
  <2> QED BY <2>1, <2>2, <2>4, <2>5, <2>6, Zenon DEF MinerInv, M!NoWork
<1>7. ASSUME NEW w \in DOMAIN search, M!Seal(w) PROVE MinerInv'
  <2>1. /\ search' = [v \in DOMAIN search \ {w} |-> search[v]]
        /\ UNCHANGED <<isMining, wmining, stop, workCh, loops, quitOp, heads, pushes>>
    BY <1>7, Zenon DEF M!Seal, M!work
  <2>2. MinerType' /\ M!LoopsMatch' /\ M!WorkTaken'
    BY <2>1, Zenon DEF MinerInv, MinerType, M!LoopsMatch, M!WorkTaken, M!NoWork
  <2> QED BY <2>1, <2>2, Zenon DEF MinerInv, M!NoWork
<1>8. CASE M!Wait
  <2>1. heads' \in Nat /\ UNCHANGED <<wmining, isMining, stop, loops, quitOp, search>>
    BY <1>8 DEF M!Wait, MinerInv, MinerType
  <2>2. M!Push \/ UNCHANGED <<workCh, pushes>>
    BY <1>8, Zenon DEF M!Wait
  <2> QED BY <2>1, <2>2, PushKeeps, MinerPush, Zenon DEF MinerInv, MinerType, M!WorkTaken
<1>9. CASE M!HeadEvent
  BY <1>9, PushKeeps, MinerPush, Zenon DEF M!HeadEvent, MinerInv, MinerType
<1>10. CASE M!NewHead
  BY <1>10, MinerPush DEF M!NewHead, M!agent, MinerInv, MinerType, M!WorkTaken
<1>11. ASSUME NEW c \in M!Caller,
              \/ M!StartCall(c) \/ M!Check(c) \/ M!SetMining(c) \/ M!ClearMining(c)
              \/ M!ClearShould(c)
       PROVE  UNCHANGED <<M!work, M!agent>>
  BY <1>11, Zenon DEF M!StartCall, M!Check, M!SetMining, M!ClearMining, M!ClearShould
<1>12. ASSUME \/ M!IfMining \/ M!Aborted \/ M!StartEvent \/ M!DoneEvent
              \/ (\E op \in {"start", "stop"} : M!UserCall(op))
       PROVE  UNCHANGED <<M!work, M!agent>>
  BY <1>12, Zenon DEF M!IfMining, M!Aborted, M!StartEvent, M!DoneEvent, M!UserCall
<1>13. CASE UNCHANGED M!minerVars
  BY <1>1, <1>13, Zenon DEF M!minerVars, M!work, M!agent
<1>14. CASE M!Work
  BY <1>1, <1>2, <1>3, <1>4, <1>5, <1>6, <1>7, <1>8, <1>9, <1>11, <1>12, <1>14, Zenon DEF M!Work
<1> QED BY <1>1, <1>7, <1>10, <1>12, <1>13, <1>14, Zenon DEF M!Next

(* However Start, Stop, syncs, heads and results interleave: one agent     *)
(* goroutine runs while the agent is on, and one more only while its stop  *)
(* token waits; at most one search has not been told to stop, and none     *)
(* when no goroutine is left; and work waits in the channel only for an    *)
(* agent that is on.                                                       *)
THEOREM MinerAlwaysSound == M!Spec => [](M!LoopsMatch /\ M!OneSearch /\ M!WorkTaken)
<1>1. M!Init => MinerInv
  <2> SUFFICES ASSUME M!Init PROVE MinerInv
    BY Zenon
  <2>1. MinerType /\ wmining = isMining /\ DOMAIN search = {}
    BY Zenon DEF M!Init, MinerType
  <2>2. M!LoopsMatch /\ M!WorkTaken
    <3>1. ~stop /\ ~isMining /\ loops = 0 /\ workCh = M!NoWork
      BY Zenon DEF M!Init
    <3>2. M!LoopsMatch
      <4>1. (IF stop THEN 1 ELSE 0) = 0 /\ (IF isMining THEN 1 ELSE 0) = 0
        BY <3>1, Zenon
      <4>2. 0 - 0 = 0
        OBVIOUS
      <4> QED BY <3>1, <4>1, <4>2, Zenon DEF M!LoopsMatch
    <3>3. M!WorkTaken
      BY <3>1, Zenon DEF M!WorkTaken
    <3> QED BY <3>2, <3>3, Zenon
  <2>3. quitOp = M!NoWork
    BY Zenon DEF M!Init
  <2> QED BY <2>1, <2>2, <2>3, Zenon DEF MinerInv
<1> QED BY <1>1, MinerInvSound, MinerStep, PTL DEF M!Spec

-----------------------------------------------------------------------------
(***************************************************************************)
(* VerifyHeaders: PipelineSound is an invariant for every batch that is    *)
(* not empty, for which VerifyHeaders returns at once, and any number of   *)
(* workers.                                                                *)
(***************************************************************************)
VARIABLES next, out, checked, inputs, busy, errors, reporting, done, results, read, abort
CONSTANTS Header, Worker

V == INSTANCE VerifyHeaders WITH ready <- reporting

NonEmpty == V!N \in Nat \ {0}
Verdicts == {"unknown ancestor", "ok", "invalid", V!Unchecked}
InDone(i) == \E k \in 1..Len(done) : done[k] = i

PipeType ==
  /\ next \in 1..(V!N + 1) /\ out \in 1..(V!N + 1) /\ checked \subseteq 1..V!N
  /\ inputs \in {"open", "sent", "closed"}
  /\ busy \in [Worker -> 0..V!N] /\ errors \in [1..V!N -> Verdicts]
  /\ reporting \subseteq Worker /\ \A w \in reporting : busy[w] # 0
  /\ done \in Seq(1..V!N) /\ results \in Seq(Verdicts)
  /\ read \in Nat /\ abort \in BOOLEAN

(* Every header sent to a worker is with it, reported or collected, and    *)
(* its verdict is known once the worker waits to report.                   *)
Tracked ==
  /\ \A i \in 1..(next - 1) : i \in checked \/ InDone(i) \/ \E w \in Worker : busy[w] = i
  /\ \A i \in 1..V!N : i \in checked \/ InDone(i) \/ (\E w \in reporting : busy[w] = i)
                       => errors[i] = V!Verdict(i)

(* out is the first header whose verdict is missing, and those before it   *)
(* are delivered.                                                          *)
Delivery ==
  /\ out \notin checked
  /\ Len(results) = out - 1 /\ \A i \in 1..(out - 1) : results[i] = V!Verdict(i)

(* The dispatcher stops when all is delivered, or the importer has.        *)
Stopping ==
  /\ inputs = "open" => next <= V!N
  /\ inputs = "sent" => next = V!N + 1
  /\ out = V!N + 1 => inputs = "closed"
  /\ inputs = "closed" => abort \/ out = V!N + 1
  /\ read <= Len(results) /\ (~abort => read < V!N)

PipeInv == PipeType /\ Tracked /\ Delivery /\ Stopping

LEMMA ElementType ==
  ASSUME NEW S, NEW s \in Seq(S), NEW k \in 1..Len(s)
  PROVE  s[k] \in S
OBVIOUS

LEMMA ConcatLength ==
  ASSUME NEW S, NEW s \in Seq(S), NEW t \in Seq(S)
  PROVE  Len(s \o t) = Len(s) + Len(t)
OBVIOUS

LEMMA VerdictType == \A i : V!Verdict(i) \in Verdicts
BY Zenon DEF V!Verdict, Verdicts

LEMMA PipeSound ==
  ASSUME NonEmpty, PipeInv
  PROVE  V!PipelineSound
<1>1. V!VerdictsInOrder
  <2>1. DOMAIN results = 1..Len(results)
    BY DEF PipeInv, PipeType
  <2> QED BY <2>1, Zenon DEF PipeInv, Delivery, V!VerdictsInOrder
<1>2. V!VerdictComes
  <2> SUFFICES ASSUME ~abort, read = Len(results), done = <<>>, \A w \in Worker : busy[w] = 0,
                      inputs # "open"
               PROVE  FALSE
    BY Zenon DEF V!VerdictComes
  <2>1. out # V!N + 1
    BY DEF PipeInv, PipeType, Delivery, Stopping, NonEmpty
  <2>2. inputs = "sent"
    BY <2>1, Zenon DEF PipeInv, PipeType, Stopping
  <2>3. out \in 1..(next - 1)
    BY <2>1, <2>2 DEF PipeInv, PipeType, Stopping, NonEmpty
  <2>4. ~InDone(out) /\ \A w \in Worker : busy[w] # out
    BY <2>3 DEF InDone, PipeInv, PipeType
  <2> QED BY <2>3, <2>4, Zenon DEF PipeInv, Tracked, Delivery
<1> QED BY <1>1, <1>2, Zenon DEF V!PipelineSound

LEMMA DispatchKeeps ==
  ASSUME NonEmpty, PipeInv, NEW w \in Worker, V!Dispatch(w)
  PROVE  PipeInv'
<1>1. /\ inputs = "open" /\ busy[w] = 0 /\ next' = next + 1
      /\ busy' = [busy EXCEPT ![w] = next]
      /\ inputs' = IF next' > V!N THEN "sent" ELSE "open"
      /\ UNCHANGED <<out, checked, errors, reporting, done, results, read, abort>>
  BY Zenon DEF V!Dispatch
<1>2. next \in 1..V!N /\ w \notin reporting
  BY <1>1 DEF PipeInv, PipeType, Stopping, NonEmpty
<1>3. \A v \in Worker : busy'[v] = IF v = w THEN next ELSE busy[v]
  BY <1>1, Zenon DEF PipeInv, PipeType
<1>4. PipeType'
  BY <1>1, <1>2, <1>3 DEF PipeInv, PipeType, NonEmpty
<1>5. \A i : InDone(i)' <=> InDone(i)
  BY <1>1, Zenon DEF InDone
<1>6. Tracked'
  <2>1. ASSUME NEW i \in 1..(next' - 1)
        PROVE  i \in checked' \/ InDone(i)' \/ \E v \in Worker : busy'[v] = i
    <3>1. CASE i = next
      BY <1>3, <3>1, Zenon
    <3>2. CASE i # next
      <4>1. i \in 1..(next - 1) /\ i # 0
        BY <1>1, <1>2, <3>2 DEF NonEmpty
      <4> QED BY <1>1, <1>3, <1>5, <4>1, Zenon DEF PipeInv, Tracked
    <3> QED BY <3>1, <3>2, Zenon
  <2>2. \A i : (\E v \in reporting' : busy'[v] = i) => \E v \in reporting : busy[v] = i
    BY <1>1, <1>2, <1>3, Zenon DEF PipeInv, PipeType
  <2>3. \A i \in 1..V!N : i \in checked' \/ InDone(i)' \/ (\E v \in reporting' : busy'[v] = i)
                          => errors'[i] = V!Verdict(i)
    BY <1>1, <1>5, <2>2, Zenon DEF PipeInv, Tracked
  <2> QED BY <2>1, <2>3, Zenon DEF Tracked, V!Verdict, V!N, InDone
<1>7. Delivery'
  BY <1>1, Zenon DEF PipeInv, Delivery, V!Verdict
<1>8. Stopping'
  BY <1>1, <1>2 DEF PipeInv, PipeType, Stopping, NonEmpty, V!N
<1> QED BY <1>4, <1>6, <1>7, <1>8, Zenon DEF PipeInv

LEMMA VerifyKeeps ==
  ASSUME NonEmpty, PipeInv, NEW w \in Worker, V!Verify(w)
  PROVE  PipeInv'
<1>1. /\ busy[w] # 0 /\ errors' = [errors EXCEPT ![busy[w]] = V!Verdict(busy[w])]
      /\ reporting' = reporting \cup {w}
      /\ UNCHANGED <<next, out, checked, inputs, busy, done, results, read, abort>>
  BY Zenon DEF V!Verify
<1>2. busy[w] \in 1..V!N
  BY <1>1 DEF PipeInv, PipeType, NonEmpty
<1>3. \A i \in 1..V!N : errors'[i] = IF i = busy[w] THEN V!Verdict(i) ELSE errors[i]
  BY <1>1, <1>2, Zenon DEF PipeInv, PipeType
<1>4. PipeType'
  BY <1>1, <1>2, VerdictType, Zenon DEF PipeInv, PipeType, V!N
<1>5. \A i : InDone(i)' <=> InDone(i)
  BY <1>1, Zenon DEF InDone
<1>6. Tracked'
  <2>1. \A i \in 1..V!N : i \in checked' \/ InDone(i)' \/ (\E v \in reporting' : busy'[v] = i)
                          => errors'[i] = V!Verdict(i)
    BY <1>1, <1>3, <1>5, Zenon DEF PipeInv, Tracked
  <2>2. \A i \in 1..(next' - 1) : i \in checked' \/ InDone(i)' \/ \E v \in Worker : busy'[v] = i
    BY <1>1, <1>5, Zenon DEF PipeInv, Tracked
  <2> QED BY <2>1, <2>2, Zenon DEF Tracked, V!Verdict, V!N, InDone
<1>7. Delivery' /\ Stopping'
  BY <1>1, Zenon DEF PipeInv, Delivery, Stopping, V!Verdict, V!N
<1> QED BY <1>4, <1>6, <1>7, Zenon DEF PipeInv

LEMMA ReportKeeps ==
  ASSUME NonEmpty, PipeInv, NEW w \in Worker, V!Report(w)
  PROVE  PipeInv'
<1>1. /\ w \in reporting /\ done' = Append(done, busy[w])
      /\ busy' = [busy EXCEPT ![w] = 0] /\ reporting' = reporting \ {w}
      /\ UNCHANGED <<next, out, checked, inputs, errors, results, read, abort>>
  BY Zenon DEF V!Report
<1>2. busy[w] \in 1..V!N
  BY <1>1 DEF PipeInv, PipeType, NonEmpty
<1>3. \A v \in Worker : busy'[v] = IF v = w THEN 0 ELSE busy[v]
  BY <1>1, Zenon DEF PipeInv, PipeType
<1>4. PipeType'
  BY <1>1, <1>2, <1>3 DEF PipeInv, PipeType, V!N
<1>5. \A i : InDone(i)' <=> InDone(i) \/ i = busy[w]
  BY <1>1, <1>2 DEF InDone, PipeInv, PipeType
<1>6. Tracked'
  <2>1. \A i \in 1..V!N : i \in checked' \/ InDone(i)' \/ (\E v \in reporting' : busy'[v] = i)
                          => errors'[i] = V!Verdict(i)
    BY <1>1, <1>3, <1>5, Zenon DEF PipeInv, PipeType, Tracked
  <2>2. \A i \in 1..(next' - 1) : i \in checked' \/ InDone(i)' \/ \E v \in Worker : busy'[v] = i
    BY <1>1, <1>3, <1>5, Zenon DEF PipeInv, Tracked
  <2> QED BY <2>1, <2>2, Zenon DEF Tracked, V!Verdict, V!N, InDone
<1>7. Delivery' /\ Stopping'
  BY <1>1, Zenon DEF PipeInv, Delivery, Stopping, V!Verdict, V!N
<1> QED BY <1>4, <1>6, <1>7, Zenon DEF PipeInv

LEMMA CollectKeeps ==
  ASSUME NonEmpty, PipeInv, V!Collect
  PROVE  PipeInv'
<1> DEFINE index == Head(done)
<1>0. /\ inputs # "closed" /\ done # <<>> /\ done' = Tail(done)
      /\ UNCHANGED <<next, busy, errors, reporting, read, abort>>
  BY Zenon DEF V!Collect
<1>1. PICK upto \in out..(V!N + 1) :
        /\ upto \notin checked \cup {index} /\ \A j \in out..(upto - 1) : j \in checked \cup {index}
        /\ checked' = checked \cup {index} /\ out' = upto
        /\ results' = results \o V!Delivered(upto, index)
        /\ inputs' = IF upto = V!N + 1 THEN "closed" ELSE inputs
  BY Zenon DEF V!Collect
<1>2. index \in 1..V!N /\ InDone(index)
  <2>1. Len(done) \in Nat /\ Len(done) >= 1 /\ index = done[1]
    BY <1>0 DEF PipeInv, PipeType
  <2> HIDE DEF index
  <2>2. 1 \in 1..Len(done) /\ done \in Seq(1..V!N)
    BY <2>1 DEF PipeInv, PipeType
  <2>3. done[1] \in 1..V!N
    BY <2>2, ElementType, Zenon
  <2>4. InDone(done[1])
    BY <2>2, Zenon DEF InDone
  <2> QED BY <2>1, <2>3, <2>4, Zenon
<1>3. \A i : InDone(i) <=> i = index \/ InDone(i)'
  <2>1. /\ Len(done) \in Nat /\ Len(done) >= 1 /\ index = done[1]
        /\ Len(done') = Len(done) - 1 /\ \A k \in 1..(Len(done) - 1) : done'[k] = done[k + 1]
    BY <1>0 DEF PipeInv, PipeType
  <2> SUFFICES ASSUME NEW i PROVE InDone(i) <=> i = index \/ InDone(i)'
    BY Zenon
  <2> HIDE DEF index
  <2>2. InDone(i)' => InDone(i)
    <3> SUFFICES ASSUME InDone(i)' PROVE InDone(i)
      BY Zenon
    <3>1. PICK k \in 1..(Len(done) - 1) : done'[k] = i
      BY <2>1, Zenon DEF InDone
    <3>2. k + 1 \in 1..Len(done) /\ done[k + 1] = i
      BY <2>1, <3>1
    <3> QED BY <3>2, Zenon DEF InDone
  <2>3. InDone(i) => i = index \/ InDone(i)'
    <3> SUFFICES ASSUME InDone(i), i # index PROVE InDone(i)'
      BY Zenon
    <3>1. PICK k \in 1..Len(done) : done[k] = i
      BY Zenon DEF InDone
    <3>2. k - 1 \in 1..(Len(done) - 1) /\ (k - 1) + 1 = k
      BY <2>1, <3>1
    <3>3. k - 1 \in 1..Len(done') /\ done'[k - 1] = i
      BY <2>1, <3>1, <3>2, Zenon
    <3> QED BY <3>3, Zenon DEF InDone
  <2> QED BY <1>2, <2>2, <2>3, Zenon
<1> HIDE DEF index
<1>4. out \in 1..(V!N + 1) /\ V!N \in Nat /\ upto \in 1..(V!N + 1) /\ upto >= out
  BY DEF PipeInv, PipeType, NonEmpty
<1>5. /\ V!Delivered(upto, index) \in Seq(Verdicts) /\ Len(V!Delivered(upto, index)) = upto - out
      /\ \A k \in 1..(upto - out) : V!Delivered(upto, index)[k] = errors[out + k - 1]
  <2>1. \A k \in 1..(upto - out) : out + k - 1 \in 1..V!N
    BY <1>4
  <2>2. \A k \in 1..(upto - out) : errors[out + k - 1] \in Verdicts
    BY <2>1, Zenon DEF PipeInv, PipeType
  <2>3. upto - out \in Nat
    BY <1>4
  <2> QED BY <2>2, <2>3 DEF V!Delivered
<1>6. PipeType'
  <2>1. done' \in Seq(1..V!N) /\ results' \in Seq(Verdicts)
    BY <1>0, <1>1, <1>5 DEF PipeInv, PipeType
  <2> QED BY <1>0, <1>1, <1>2, <1>4, <2>1, Zenon DEF PipeInv, PipeType, Verdicts, V!N, V!Unchecked
<1>7. Tracked'
  <2>1. \A i \in 1..V!N : i \in checked' \/ InDone(i)' \/ (\E v \in reporting' : busy'[v] = i)
                          => errors'[i] = V!Verdict(i)
    BY <1>0, <1>1, <1>2, <1>3, Zenon DEF PipeInv, Tracked
  <2>2. \A i \in 1..(next' - 1) : i \in checked' \/ InDone(i)' \/ \E v \in Worker : busy'[v] = i
    BY <1>0, <1>1, <1>3, Zenon DEF PipeInv, Tracked
  <2> QED BY <2>1, <2>2, Zenon DEF Tracked, V!Verdict, V!N, InDone
<1>8. Len(results') = upto - 1 /\ \A i \in 1..(upto - 1) : results'[i] = V!Verdict(i)
  <2>1. results \in Seq(Verdicts) /\ Len(results) = out - 1
    BY Zenon DEF PipeInv, PipeType, Delivery
  <2>2. Len(results') = upto - 1
    <3>1. Len(results') = Len(results) + Len(V!Delivered(upto, index))
      BY <1>1, <1>5, <2>1, ConcatLength, Zenon
    <3>2. upto - 1 = (out - 1) + (upto - out)
      BY <1>4
    <3> QED BY <1>5, <2>1, <3>1, <3>2, Zenon
  <2>3. ASSUME NEW i \in 1..(upto - 1) PROVE results'[i] = V!Verdict(i)
    <3>1. CASE i <= out - 1
      <4>1. results'[i] = results[i]
        BY <1>1, <1>4, <1>5, <2>1, <3>1
      <4> QED BY <1>4, <3>1, <4>1 DEF PipeInv, Delivery
    <3>2. CASE i >= out
      <4>1. i - (out - 1) \in 1..(upto - out) /\ out + (i - (out - 1)) - 1 = i /\ i \in 1..V!N
        BY <1>4, <3>2
      <4>2. results'[i] = V!Delivered(upto, index)[i - (out - 1)]
        BY <1>1, <1>4, <1>5, <2>1, <3>2, <4>1
      <4>3. results'[i] = errors[i]
        BY <1>5, <4>1, <4>2, Zenon
      <4>4. i \in checked \/ i = index
        BY <1>1, <1>4, <3>2
      <4> QED BY <1>2, <4>1, <4>3, <4>4, Zenon DEF PipeInv, Tracked
    <3> QED BY <1>4, <3>1, <3>2
  <2> QED BY <2>2, <2>3, Zenon
<1>9. Delivery'
  BY <1>1, <1>8, Zenon DEF Delivery, V!Verdict
<1>10. Stopping'
  <2>1. read <= Len(results') /\ read' = read
    BY <1>0, <1>4, <1>8 DEF PipeInv, PipeType, Stopping, Delivery
  <2>2. \/ inputs' = "closed" /\ out' = V!N + 1
        \/ inputs' = inputs /\ out' # V!N + 1
    BY <1>1, Zenon
  <2> QED BY <1>0, <2>1, <2>2, Zenon DEF PipeInv, PipeType, Stopping, V!N
<1> QED BY <1>6, <1>7, <1>9, <1>10, Zenon DEF PipeInv

(* The importer reads, or stops; the dispatcher follows.                   *)
LEMMA ImporterKeeps ==
  ASSUME NonEmpty, PipeInv, V!Aborts \/ V!Read \/ V!Interrupted \/ UNCHANGED V!headerVars
  PROVE  PipeInv'
<1>1. UNCHANGED <<next, out, checked, busy, errors, reporting, done, results>>
  BY Zenon DEF V!Aborts, V!Read, V!Interrupted, V!headerVars
<1>2. /\ inputs' \in {"open", "sent", "closed"} /\ read' \in Nat /\ abort' \in BOOLEAN
      /\ Stopping'
  <2>1. CASE V!Aborts
    BY <2>1, Zenon DEF V!Aborts, PipeInv, PipeType, Stopping, V!N
  <2>2. CASE V!Interrupted
    BY <2>2, Zenon DEF V!Interrupted, PipeInv, PipeType, Stopping, V!N
  <2>3. CASE V!Read
    <3>1. /\ ~abort /\ read < Len(results) /\ read' = read + 1 /\ inputs' = inputs
          /\ abort' = (results[read + 1] # "ok" \/ read + 1 = V!N)
      BY <2>3, Zenon DEF V!Read
    <3>2. Len(results) \in Nat /\ V!N \in Nat /\ read \in Nat /\ read < V!N
      BY <3>1 DEF PipeInv, PipeType, Stopping, NonEmpty
    <3>3. read' <= Len(results)
      BY <3>1, <3>2
    <3>4. ~abort' => read + 1 # V!N
      BY <3>1, Zenon
    <3>5. ~abort' => read' < V!N
      BY <3>1, <3>2, <3>4
    <3>6. inputs = "closed" => out = V!N + 1
      BY <3>1, Zenon DEF PipeInv, Stopping
    <3> QED BY <1>1, <3>1, <3>2, <3>3, <3>5, <3>6 DEF PipeInv, PipeType, Stopping, V!N
  <2>4. CASE UNCHANGED V!headerVars
    BY <2>4, Zenon DEF V!headerVars, PipeInv, PipeType, Stopping, V!N
  <2> QED BY <2>1, <2>2, <2>3, <2>4, Zenon
<1>3. PipeType' /\ Tracked' /\ Delivery'
  BY <1>1, <1>2, Zenon DEF PipeInv, PipeType, Tracked, Delivery, InDone, V!Verdict, V!N, Verdicts,
                    V!Unchecked
<1> QED BY <1>2, <1>3, Zenon DEF PipeInv

(* Whichever order the workers finish in, the importer reads the verdict   *)
(* of each header in its turn, and while it has not stopped reading one is *)
(* on its way.                                                             *)
THEOREM VerdictsAlwaysSound ==
  ASSUME NonEmpty
  PROVE  V!Spec => []V!PipelineSound
<1>1. V!Init => PipeInv
  <2> SUFFICES ASSUME V!Init PROVE PipeInv
    BY Zenon
  <2>1. PipeType
    <3>1. /\ next \in 1..(V!N + 1) /\ out \in 1..(V!N + 1) /\ read \in Nat
          /\ busy \in [Worker -> 0..V!N]
      BY DEF V!Init, NonEmpty
    <3>2. errors \in [1..V!N -> Verdicts] /\ done \in Seq(1..V!N) /\ results \in Seq(Verdicts)
      BY DEF V!Init, Verdicts
    <3> QED BY <3>1, <3>2, Zenon DEF V!Init, PipeType
  <2>2. Tracked /\ Delivery /\ Stopping
    BY DEF V!Init, Tracked, Delivery, Stopping, InDone, NonEmpty
  <2> QED BY <2>1, <2>2, Zenon DEF PipeInv
<1>2. PipeInv /\ [V!Next]_V!headerVars => PipeInv'
  BY DispatchKeeps, VerifyKeeps, ReportKeeps, CollectKeeps, ImporterKeeps, Zenon DEF V!Next
<1>3. PipeInv => V!PipelineSound
  BY PipeSound, Zenon
<1> QED BY <1>1, <1>2, <1>3, PTL DEF V!Spec
=============================================================================
