------------------------------ MODULE FastSync ------------------------------
(***************************************************************************)
(* Fast synchronisation on top of the chain manager.  The downloader       *)
(* (xdn/downloader/downloader.go) runs two goroutines over a peer's chain: *)
(* processHeaders inserts headers (InsertHeaderChain, WriteHeader) and,    *)
(* when it fails, rolls the uncertain ones back (Rollback);                *)
(* processFastSyncContent stores bodies and receipts up to the pivot       *)
(* (InsertReceiptChain), commits the pivot as head (FastSyncCommitHead)    *)
(* once its state is there, and imports the blocks behind it in full.      *)
(* They meet only in the chain.                                            *)
(***************************************************************************)
EXTENDS BlockChain

CONSTANTS
  Paths,          \* the chains that peers offer: sequences of blocks from number 1
  Pivots,         \* the pivot numbers that the random offset may give
  SafetyNet,      \* how many uncertain headers are kept (fsHeaderSafetyNet)
  ForceVerify,    \* headers around the pivot that are all checked (fsHeaderForceVerify)
  CriticalTrials  \* failures after which fast sync is given up (fsCriticalTrials)

VARIABLES
  fastSync,    \* ProtocolManager.fastSync
  son,         \* the sync and its processHeaders: "off", "on", "failed",
               \* "rolledBack" or "headersDone"
  path, pivot, \* the peer's chain and the pivot number of this sync
  hdr, upto,   \* headers in the chain up to hdr; the chunk at work ends in upto
  fresh,       \* of that chunk, the headers that were unknown
  uncertain,   \* rollback: the headers to roll back on failure
  pivotLock, pivotFails,  \* fsPivotLock and fsPivotFails
  rpc, done,   \* processFastSyncContent, and how far it has come
  rrest, rbatch, rlast  \* InsertReceiptChain: blocks left, batch, last block

header == <<son, path, pivot, hdr, upto, fresh, uncertain, pivotLock, pivotFails>>
content == <<rpc, done, rrest, rbatch, rlast>>
sync == <<fastSync, header, content>>
chain == <<blocks, index, hashes, mem, future, node, writers, import, todo, holder>>
fvars == <<vars, sync>>
-----------------------------------------------------------------------------
(* Starting and ending a sync: ProtocolManager.synchronise, syncWithPeer.  *)

(* A faulty FindAncestor: known headers above the fast head count, too.    *)
AncestorByHeader(p) == {0} \cup {i \in 1..Len(p) : p[i] \in headers}

(* findAncestor in fast mode: a block of the peer's chain, not above the   *)
(* fast head, whose header is known.  The heights it samples depend on the *)
(* distance, so it need not be the last such block.                        *)
FindAncestor(p) ==
  {0} \cup {i \in 1..Len(p) : i <= number[currentFastBlock] /\ p[i] \in headers}

(* A faulty FastAllowed: fast sync is tried for ever.                      *)
AlwaysAllowed == TRUE

(* syncWithPeer gives fast sync up after too many failures behind a pivot. *)
FastAllowed == pivotFails < CriticalTrials

BeginSync(p, n) ==
  /\ Free /\ son = "off" /\ pc["import"] = "idle"
  /\ \/ fastSync
     \/ number[currentBlock] = 0 /\ number[currentFastBlock] > 0
  /\ FastAllowed
  /\ n < Len(p)
  /\ pivotLock # None => n = number[pivotLock]
  /\ \E i \in FindAncestor(p) :
       LET origin == IF n < i THEN n - 1 ELSE i IN
       hdr' = origin /\ upto' = origin /\ done' = origin
  /\ fastSync' = TRUE
  /\ son' = "on" /\ path' = p /\ pivot' = n
  /\ fresh' = <<>> /\ uncertain' = <<>>
  /\ rpc' = "idle" /\ rrest' = <<>> /\ rbatch' = {} /\ rlast' = Genesis
  /\ UNCHANGED <<chain, pivotLock, pivotFails>>

(* spawnSync has both goroutines' results.                                 *)
EndSync ==
  /\ up = "up" /\ todo = <<>>
  /\ son \in {"rolledBack", "headersDone"} /\ rpc \in {"idle", "ended"}
  /\ son' = "off"
  /\ LET failed == son = "rolledBack" \/ rpc = "ended" \/ done < Len(path) IN
     pivotFails' = IF failed /\ pivotLock # None THEN pivotFails + 1 ELSE pivotFails
  /\ fastSync' = (fastSync /\ number[currentBlock] = 0)
  /\ UNCHANGED <<chain, path, pivot, hdr, upto, fresh, uncertain, pivotLock, content>>

(* State entries keep coming: the failure count falls back to 1.           *)
StateProgress ==
  /\ up = "up" /\ son # "off" /\ pivotFails > 1
  /\ pivotFails' = 1
  /\ UNCHANGED <<chain, fastSync, son, path, pivot, hdr, upto, fresh, uncertain, pivotLock,
                 content>>
-----------------------------------------------------------------------------
(* processHeaders *)

(* No chunk is being inserted.                                             *)
Between == up = "up" /\ son = "on" /\ hdr = upto

(* VerifyHeaders on a chunk: an unknown parent and a future timestamp are  *)
(* always found; a bad seal is found if it is checked, which is sure of    *)
(* the last header and near the pivot, and left to chance elsewhere.       *)
Refused(c, i) ==
  \/ i = 1 /\ parent[c[1]] \notin headers
  \/ c[i] \notin headers /\ c[i] \in ahead
BadSeal(c, i) == c[i] \notin headers /\ c[i] \in BadHeader
Checked(c, i) == i = Len(c) \/ number[c[Len(c)]] + ForceVerify > pivot
Fails(c, i) == Refused(c, i) \/ (BadSeal(c, i) /\ Checked(c, i))

(* ValidateHeaderChain passes and the chunk goes to InsertHeaderChain.     *)
InsertHeaderChain(k) ==
  /\ Between /\ pc["import"] = "idle"
  /\ k \in hdr+1..Len(path)
  /\ LET c == SubSeq(path, hdr + 1, k) IN
     /\ \A i \in 1..Len(c) : ~Fails(c, i)
     /\ rest' = c
     /\ fresh' = SelectSeq(c, LAMBDA b : b \notin headers)
  /\ upto' = k
  /\ pc' = [pc EXCEPT !["import"] = "headers"]
  /\ UNCHANGED <<blocks, index, hashes, mem, future, node, todo, holder, blk, ptd, prev,
                 fastSync, son, path, pivot, hdr, uncertain, pivotLock, pivotFails,
                 content>>

(* ValidateHeaderChain fails at the i-th header: those before it go to the *)
(* rollback list, although none of them was inserted.                      *)
RejectHeaderChain(k) ==
  /\ Between
  /\ k \in hdr+1..Len(path)
  /\ LET c == SubSeq(path, hdr + 1, k) IN
     \E i \in 1..Len(c) :
       /\ Refused(c, i) \/ BadSeal(c, i)
       /\ \A j \in 1..i-1 : ~Fails(c, j)
       /\ uncertain' = uncertain \o SubSeq(c, 1, i - 1)
  /\ son' = "failed"
  /\ UNCHANGED <<chain, fastSync, path, pivot, hdr, upto, fresh, pivotLock, pivotFails,
                 content>>

SkipHeader ==
  /\ up = "up" /\ pc["import"] = "headers" /\ rest # <<>> /\ rest[1] \in headers
  /\ rest' = Tail(rest)
  /\ UNCHANGED <<blocks, index, hashes, mem, future, node, todo, holder, writers, prev, sync>>

(* Faulty forms of the next two: the weight of the current header in place *)
(* of the parent's; the header before its total difficulty.                *)
TdOfHead(b) == tds[currentHeader] + difficulty[b]
HeaderFirst(b, td) == <<OfBlock("header", b), Op("td", b, b, td, 0)>>

HeaderTd(b) == tds[parent[b]] + difficulty[b]
StoreTdAndHeader(b, td) == <<Op("td", b, b, td, 0), OfBlock("header", b)>>

(* HeaderChain.WriteHeader, under mu: total difficulty and header and, if  *)
(* it is heavier than the current one (or as heavy, on a coin), the        *)
(* canonical numbers and the head header.                                  *)
WriteHeader ==
  /\ Free /\ pc["import"] = "headers" /\ rest # <<>> /\ rest[1] \notin headers
  /\ LET b == rest[1]
         td == HeaderTd(b)
         store == StoreTdAndHeader(b, td)
         link == <<OfNumber("clearAbove", number[b] + 1), OfBlock("relink", parent[b]),
                   OfBlock("canonTip", b), OfBlock("headHeader", b)>>
     IN \/ /\ tds[parent[b]] = NoTd
           /\ Enter("import", <<OfBlock("headerDone", b)>>)
        \/ /\ tds[parent[b]] # NoTd
           /\ \/ /\ td >= tds[currentHeader]
                 /\ Enter("import", store \o link \o <<OfBlock("headerDone", b)>>)
              \/ /\ td <= tds[currentHeader]
                 /\ Enter("import", store \o <<OfBlock("headerDone", b)>>)
  /\ pc' = [pc EXCEPT !["import"] = "locked"]
  /\ UNCHANGED <<blocks, index, hashes, mem, future, node, blk, ptd, import, sync>>

StoreNewHeader ==
  /\ At("header")
  /\ headers' = headers \cup {todo[1].b}
  /\ Then(<<>>)
  /\ UNCHANGED <<bodies, states, tds, index, hashes, mem, future, node, writers, import, sync>>

(* Delete the canonical numbers above the new head, up to the first gap.   *)
ClearAbove ==
  /\ At("clearAbove")
  /\ LET n == todo[1].n IN
     IF n \in Numbers /\ canon[n] # None
     THEN /\ canon' = [canon EXCEPT ![n] = None]
          /\ Then(<<OfNumber("clearAbove", n + 1)>>)
     ELSE Then(<<>>) /\ UNCHANGED canon
  /\ UNCHANGED <<blocks, lookup, hashes, mem, future, node, writers, import, sync>>

(* Overwrite stale canonical numbers below it, down to the first match; a  *)
(* missing header is dereferenced.                                         *)
Relink ==
  /\ At("relink")
  /\ LET b == todo[1].b IN
     IF canon[number[b]] = b
     THEN Then(<<>>) /\ UNCHANGED <<canon, mem, future, node, writers, import>>
     ELSE /\ canon' = [canon EXCEPT ![number[b]] = b]
          /\ IF b \in headers
             THEN /\ Then(<<OfBlock("relink", parent[b])>>)
                  /\ UNCHANGED <<mem, future, node, writers, import>>
             ELSE Die /\ panicked' = TRUE /\ UNCHANGED ahead
  /\ UNCHANGED <<blocks, lookup, hashes, sync>>

WriteTip ==
  /\ At("canonTip")
  /\ canon' = [canon EXCEPT ![number[todo[1].b]] = todo[1].b]
  /\ Then(<<>>)
  /\ UNCHANGED <<blocks, lookup, hashes, mem, future, node, writers, import, sync>>

(* WriteHeader returns.  Without a parent it returns an error: the headers *)
(* of the chunk before this one go to the rollback list.                   *)
HeaderDone ==
  /\ At("headerDone")
  /\ Enter("none", <<>>)
  /\ LET b == todo[1].b IN
     IF b \in headers
     THEN /\ rest' = Tail(rest)
          /\ pc' = [pc EXCEPT !["import"] = "headers"]
          /\ UNCHANGED <<son, uncertain>>
     ELSE /\ rest' = <<>>
          /\ pc' = [pc EXCEPT !["import"] = "idle"]
          /\ son' = "failed"
          /\ uncertain' = uncertain \o SubSeq(path, hdr + 1, number[b] - 1)
  /\ UNCHANGED <<blocks, index, hashes, mem, future, node, blk, ptd, prev, fastSync, path,
                 pivot, hdr, upto, fresh, pivotLock, pivotFails, content>>

(* The last SafetyNet headers of the rollback list.                        *)
Net(s) == IF Len(s) > SafetyNet THEN SubSeq(s, Len(s) - SafetyNet + 1, Len(s)) ELSE s

(* A faulty PivotChanged: the lock is not looked at.                       *)
NeverChanged == FALSE

(* The chunk brings a pivot header other than the one locked in.           *)
PivotChanged == pivotLock # None /\ pivot \in hdr+1..upto /\ path[pivot] # pivotLock

(* The chunk is in.  Its new headers are uncertain for now; a pivot header *)
(* other than the one locked in ends the sync; otherwise the chunk is      *)
(* scheduled for content.                                                  *)
ChunkDone ==
  /\ up = "up" /\ pc["import"] = "headers" /\ rest = <<>>
  /\ pc' = [pc EXCEPT !["import"] = "idle"]
  /\ uncertain' = Net(uncertain \o fresh)
  /\ IF PivotChanged
     THEN son' = "failed" /\ UNCHANGED hdr
     ELSE hdr' = upto /\ UNCHANGED son
  /\ UNCHANGED <<blocks, index, hashes, mem, future, node, todo, holder, blk, ptd, import,
                 fastSync, path, pivot, upto, fresh, pivotLock, pivotFails, content>>

(* All headers are in: nothing is uncertain any more.                      *)
HeadersDone ==
  /\ Between /\ hdr = Len(path)
  /\ son' = "headersDone" /\ uncertain' = <<>>
  /\ UNCHANGED <<chain, fastSync, path, pivot, hdr, upto, fresh, pivotLock, pivotFails,
                 content>>

(* The peer stalls, a fetcher times out, the content goroutine has failed  *)
(* or the sync is cancelled.                                               *)
HeadersFail ==
  /\ Between
  /\ son' = "failed"
  /\ UNCHANGED <<chain, fastSync, path, pivot, hdr, upto, fresh, uncertain, pivotLock,
                 pivotFails, content>>

(* The deferred function of processHeaders calls Rollback.                 *)
BeginRollback ==
  /\ Free /\ son = "failed"
  /\ son' = "rolledBack"
  /\ IF uncertain = <<>>
     THEN UNCHANGED <<todo, holder>>
     ELSE Enter("rollback", <<OfNumber("rollback", Len(uncertain)), OfNumber("unlock", 0)>>)
  /\ pivotLock' = IF /\ uncertain # <<>> /\ number[uncertain[Len(uncertain)]] > pivot
                     /\ pivotFails = 0
                     /\ \E i \in 1..Len(uncertain) : uncertain[i] = path[pivot]
                  THEN path[pivot] ELSE pivotLock
  /\ UNCHANGED <<blocks, index, hashes, mem, future, node, writers, import, fastSync, path,
                 pivot, hdr, upto, fresh, uncertain, pivotFails, content>>

(* Rollback: from the last header of the list to the first, every head     *)
(* that is this very header steps to its parent.  Nothing is deleted.      *)
Rollback ==
  /\ At("rollback")
  /\ IF todo[1].n = 0
     THEN Then(<<>>) /\ UNCHANGED <<node, mem, future, writers, import, headHeaderHash>>
     ELSE LET h == uncertain[todo[1].n]  p == parent[h]
              back(name, head) == IF head = h THEN <<OfBlock(name, p)>> ELSE <<>>
          IN IF \/ currentHeader = h /\ p \notin headers
                \/ h \in {currentFastBlock, currentBlock} /\ p \notin Full
             THEN /\ Die /\ panicked' = TRUE
                  /\ headHeaderHash' = IF currentHeader = h /\ p \in headers
                                       THEN p ELSE headHeaderHash
                  /\ UNCHANGED ahead
             ELSE /\ Then(back("headHeader", currentHeader)
                          \o back("headFast", currentFastBlock)
                          \o back("headBlock", currentBlock)
                          \o <<OfNumber("rollback", todo[1].n - 1)>>)
                  /\ UNCHANGED <<node, mem, future, writers, import, headHeaderHash>>
  /\ UNCHANGED <<blocks, index, headBlockHash, headFastHash, sync>>
-----------------------------------------------------------------------------
(* processFastSyncContent: results come in order, once their headers are   *)
(* scheduled, until the queue is closed.                                   *)
Working == up = "up" /\ son # "off" /\ rpc = "idle" /\ done < hdr

(* commitFastSyncData: bodies and receipts of blocks before the pivot.     *)
CommitFastSyncData(k) ==
  /\ Working
  /\ k \in done+1..hdr /\ k < pivot
  /\ rrest' = SubSeq(path, done + 1, k) /\ rbatch' = {} /\ rlast' = path[k]
  /\ rpc' = "scan"
  /\ UNCHANGED <<chain, fastSync, header, done>>

(* commitPivotBlock: the state of the pivot has been downloaded.           *)
CommitPivotBlock ==
  /\ Working /\ done + 1 = pivot
  /\ states' = states \cup {path[pivot]}
  /\ rrest' = <<path[pivot]>> /\ rbatch' = {} /\ rlast' = path[pivot]
  /\ rpc' = "scan"
  /\ UNCHANGED <<headers, bodies, tds, index, hashes, mem, future, node, writers, import,
                 todo, holder, fastSync, header, done>>

(* importBlockResults: the blocks after the pivot.                         *)
ImportBlockResults(k) ==
  /\ Working /\ done >= pivot /\ pc["import"] = "idle"
  /\ k \in done+1..hdr
  /\ pc' = [pc EXCEPT !["import"] = "next"]
  /\ rest' = SubSeq(path, done + 1, k) /\ prev' = None
  /\ rpc' = "importing" /\ rlast' = path[k]
  /\ UNCHANGED <<blocks, index, hashes, mem, future, node, todo, holder, blk, ptd, fastSync,
                 header, done, rrest, rbatch>>

BlocksImported ==
  /\ up = "up" /\ rpc = "importing" /\ pc["import"] = "idle"
  /\ IF HasBlockAndState(rlast)
     THEN rpc' = "idle" /\ done' = number[rlast]
     ELSE rpc' = "ended" /\ UNCHANGED done
  /\ UNCHANGED <<chain, fastSync, header, rrest, rbatch, rlast>>

(* The state download of the pivot fails, or the queue is closed.          *)
ContentFails ==
  /\ up = "up" /\ son # "off" /\ rpc = "idle"
  /\ rpc' = "ended"
  /\ UNCHANGED <<chain, fastSync, header, done, rrest, rbatch, rlast>>

(* InsertReceiptChain, without a lock: a block whose header is unknown     *)
(* ends it, one that is stored is skipped, another goes to the batch.  A   *)
(* batch that is large enough is written at once.                          *)
Flushed(batch) ==
  /\ bodies' = bodies \cup batch
  /\ lookup' = [t \in Tx |->
                  LET held == {b \in batch : t \in txs[b]} IN
                  IF held = {} THEN lookup[t]
                  ELSE CHOOSE b \in held : \A x \in held : number[x] <= number[b]]

ScanBlock ==
  /\ up = "up" /\ rpc = "scan" /\ rrest # <<>>
  /\ LET b == rrest[1] IN
     IF b \notin headers
     THEN rpc' = "ended" /\ UNCHANGED <<rrest, rbatch, bodies, lookup>>
     ELSE /\ rrest' = Tail(rrest)
          /\ UNCHANGED rpc
          /\ \/ /\ rbatch' = IF b \in Full THEN rbatch ELSE rbatch \cup {b}
                /\ UNCHANGED <<bodies, lookup>>
             \/ /\ b \notin Full
                /\ Flushed(rbatch \cup {b})
                /\ rbatch' = {}
  /\ UNCHANGED <<headers, states, tds, canon, hashes, mem, future, node, writers, import,
                 todo, holder, fastSync, header, done, rlast>>

WriteReceiptBatch ==
  /\ up = "up" /\ rpc = "scan" /\ rrest = <<>>
  /\ Flushed(rbatch)
  /\ rbatch' = {}
  /\ rpc' = "head"
  /\ UNCHANGED <<headers, states, tds, canon, hashes, mem, future, node, writers, import,
                 todo, holder, fastSync, header, done, rrest, rlast>>

(* "Update the head fast sync block if better", under mu.                  *)
UpdateFastHead ==
  /\ Free /\ rpc = "head"
  /\ IF tds[rlast] # NoTd /\ tds[currentFastBlock] < tds[rlast]
     THEN headFastHash' = rlast /\ currentFastBlock' = rlast
     ELSE UNCHANGED <<headFastHash, currentFastBlock>>
  /\ IF number[rlast] = pivot
     THEN rpc' = "check" /\ UNCHANGED done
     ELSE rpc' = "idle" /\ done' = number[rlast]
  /\ UNCHANGED <<blocks, index, headBlockHash, headHeaderHash, currentBlock, currentHeader,
                 future, node, writers, import, todo, holder, fastSync, header, rrest, rbatch,
                 rlast>>

(* FastSyncCommitHead: the block and its state are checked first, and mu   *)
(* is taken afterwards.  Only the memory of the chain manager changes.     *)
CheckPivot ==
  /\ up = "up" /\ rpc = "check"
  /\ rpc' = IF HasBlockAndState(rlast) THEN "commit" ELSE "ended"
  /\ UNCHANGED <<chain, fastSync, header, done, rrest, rbatch, rlast>>

FastSyncCommitHead ==
  /\ Free /\ rpc = "commit"
  /\ currentBlock' = rlast
  /\ rpc' = "idle" /\ done' = pivot
  /\ UNCHANGED <<blocks, index, hashes, currentHeader, currentFastBlock, future, node, writers,
                 import, todo, holder, fastSync, header, rrest, rbatch, rlast>>
-----------------------------------------------------------------------------
FInit ==
  /\ Init
  /\ fastSync = TRUE
  /\ son = "off" /\ path = <<>> /\ pivot = 0 /\ hdr = 0 /\ upto = 0
  /\ fresh = <<>> /\ uncertain = <<>> /\ pivotLock = None /\ pivotFails = 0
  /\ rpc = "idle" /\ done = 0 /\ rrest = <<>> /\ rbatch = {} /\ rlast = Genesis

HeaderStep ==
  \/ \E k \in Numbers : InsertHeaderChain(k) \/ RejectHeaderChain(k)
  \/ SkipHeader \/ WriteHeader \/ StoreNewHeader \/ ClearAbove \/ Relink \/ WriteTip
  \/ HeaderDone \/ ChunkDone \/ HeadersDone \/ HeadersFail
  \/ BeginRollback \/ Rollback

ContentStep ==
  \/ \E k \in Numbers : CommitFastSyncData(k) \/ ImportBlockResults(k)
  \/ CommitPivotBlock \/ BlocksImported \/ ContentFails
  \/ ScanBlock \/ WriteReceiptBatch \/ UpdateFastHead \/ CheckPivot \/ FastSyncCommitHead

(* A step of the chain manager.  When a boot is over, NewProtocolManager   *)
(* chooses fast sync only on an empty chain.                               *)
ChainStep ==
  /\ Step
  /\ fastSync' = IF up = "boot" /\ up' = "up" THEN number[currentBlock] = 0 ELSE fastSync
  /\ UNCHANGED <<header, content>>

(* A new process knows nothing of the syncs of the one before.             *)
Reboot ==
  /\ NewBlockChain
  /\ fastSync' = FALSE /\ son' = "off" /\ path' = <<>> /\ pivot' = 0 /\ hdr' = 0 /\ upto' = 0
  /\ fresh' = <<>> /\ uncertain' = <<>> /\ pivotLock' = None /\ pivotFails' = 0
  /\ rpc' = "idle" /\ done' = 0 /\ rrest' = <<>> /\ rbatch' = {} /\ rlast' = Genesis

FNext ==
  \/ ChainStep
  \/ Crash /\ UNCHANGED sync
  \/ Reboot
  \/ \E p \in Paths, n \in Pivots : BeginSync(p, n)
  \/ HeaderStep
  \/ ContentStep
  \/ StateProgress
  \/ EndSync

FSpec == FInit /\ [][FNext]_fvars
-----------------------------------------------------------------------------
(* Every variable has its type; the sync never runs past the peer's chain  *)
(* (hdr, upto, done) nor past the trials it is allowed (pivotFails).       *)
FTypeOK ==
  /\ TypeOK
  /\ fastSync \in BOOLEAN
  /\ son \in {"off", "on", "failed", "rolledBack", "headersDone"}
  /\ path \in Seq(Block) /\ pivot \in Numbers
  /\ hdr \in Numbers /\ upto \in Numbers /\ done \in Numbers
  /\ fresh \in Seq(Block) /\ uncertain \in Seq(Block)
  /\ pivotLock \in Block \cup {None} /\ pivotFails \in 0..CriticalTrials
  /\ rpc \in {"idle", "scan", "head", "check", "commit", "importing", "ended"}
  /\ rrest \in Seq(Block) /\ rbatch \subseteq Block /\ rlast \in Block

(* The fast head, the head block and all their ancestors have header and   *)
(* body: content that is stored without a lock, while headers come and go, *)
(* leaves no hole.                                                         *)
FastHeadComplete == Quiet => Anc[currentFastBlock] \cup Anc[currentBlock] \subseteq Full

(* GetHeaderByNumber leads from every number up to the head header along   *)
(* its own ancestors, after header reorganisations and rollbacks.          *)
CanonMatchesHeader == Quiet => \A x \in Anc[currentHeader] : canon[number[x]] = x

(* Every head has its total difficulty whenever mu is free: synchronise,   *)
(* WriteHeader, InsertReceiptChain and WriteBlockAndState dereference it   *)
(* unchecked, with no regard to what was rolled back or lost before.       *)
HeadsHaveTd ==
  Quiet => \A b \in {currentBlock, currentHeader, currentFastBlock} : tds[b] # NoTd

(* Once the pivot is locked in, the process never changes it and commits   *)
(* no other block as pivot, however many syncs fail and whichever peer     *)
(* they were with.                                                         *)
PivotLocked ==
  [][/\ up # "down" /\ pivotLock # None => pivotLock' = pivotLock
     /\ FastSyncCommitHead /\ pivotLock # None => currentBlock' = pivotLock]_fvars
-----------------------------------------------------------------------------
(* What a comment of the code says, and the code does not do.              *)

(* FastSyncCommitHead: "Make sure that both the block as well at its state *)
(* trie exists".                                                           *)
CommittedHeadExists == Quiet => currentBlock \in Full
=============================================================================
