----------------------------- MODULE BlockChain -----------------------------
(***************************************************************************)
(* The chain manager of core/blockchain.go over its database: block import *)
(* (insertChain), sealing (the miner's WriteBlockAndState), the future     *)
(* block queue, rewinding (SetHead), crash and restart (loadLastState).    *)
(*                                                                         *)
(* Every database write is a step of its own.  A critical section of       *)
(* BlockChain.mu is a stack of pending operations, todo: its first element *)
(* is the next write (or the next piece of control) of the goroutine that  *)
(* holds the lock.  Goroutines that do not hold the lock interleave with   *)
(* the section, and a crash may strike between any two writes.             *)
(*                                                                         *)
(* The LRU caches are not modelled: a read is a read of the database.  A   *)
(* read that a cache serves while SetHead deletes is the read that would   *)
(* have come before the deletion.                                          *)
(***************************************************************************)
EXTENDS BlockTree

CONSTANTS
  Chains,     \* the block sequences that peers offer to InsertChain
  Mined,      \* the blocks the local miner may seal
  Ahead,      \* blocks whose timestamp lies in the future when they arrive
  BadHeader,  \* blocks whose header fails verification
  BadState,   \* blocks that fail VerifyUncles, Process or ValidateState
  SetHeads,   \* the heights an operator may rewind to
  MaxFuture,  \* capacity of futureBlocks (maxFutureBlocks)
  CanCrash    \* whether the process may be killed and started again

ASSUME ChainAssumption ==
  /\ \A c \in Chains : c \in Seq(Block)
  /\ Mined \subseteq Block \ {Genesis}
  /\ Ahead \subseteq Block
  /\ SetHeads \subseteq Numbers
  /\ MaxFuture \in Nat \ {0}
  /\ CanCrash \in BOOLEAN
  /\ IsFiniteSet(Block)

VARIABLES
  \* the database
  headers, bodies, states,  \* blocks whose header, body, state trie is stored
  tds,                      \* the stored total difficulty of a block
  canon,                    \* the number -> canonical hash table
  lookup,                   \* the transaction -> block index
  headBlockHash, headHeaderHash, headFastHash,
  \* the memory of the chain manager
  currentBlock, currentHeader, currentFastBlock,
  futureBlocks,             \* blocks parked until their time comes
  sweep,                    \* the snapshot procFutureBlocks still has to offer
  ahead,                    \* blocks whose timestamp is still in the future
  \* the goroutines
  up,                       \* "down", "boot" or "up"
  panicked,                 \* a nil dereference killed the process
  todo, holder,             \* the critical section of mu and its owner
  pc, blk, ptd,             \* the two callers of WriteBlockAndState
  rest, prev                \* the import's remaining blocks, and its last one

hashes == <<headBlockHash, headHeaderHash, headFastHash>>
blocks == <<headers, bodies, states, tds>>
index == <<canon, lookup>>
mem == <<currentBlock, currentHeader, currentFastBlock>>
future == <<futureBlocks, sweep, ahead>>
node == <<up, panicked>>
writers == <<pc, blk, ptd>>
import == <<rest, prev>>
vars == <<headers, bodies, states, tds, canon, lookup, headBlockHash,
          headHeaderHash, headFastHash, currentBlock, currentHeader,
          currentFastBlock, futureBlocks, sweep, ahead, up, panicked, todo,
          holder, pc, blk, ptd, rest, prev>>

Writer == {"import", "mine"}
PcName == {"idle", "next", "process", "ptd", "write", "locked", "headers"}
NoTd == -1

Full == headers \cap bodies                  \* GetBlock(b) # nil
HasBlockAndState(b) == b \in Full \cap states

-----------------------------------------------------------------------------
(* The critical section of mu.                                             *)

OpName == {"td", "batch", "insert", "headBlock", "headHeader", "headFast",
           "reorg", "lookup", "unlookup", "written", "failed", "setHead",
           "rewind", "delBody", "delHeader", "delTd", "delCanon", "setHeader",
           "rewindBlocks", "load", "putBlock", "fastMem", "unlock", "stuck",
           "header", "clearAbove", "relink", "canonTip", "headerDone",
           "rollback"}
Op(name, b, o, n, m) == [op |-> name, b |-> b, o |-> o, n |-> n, m |-> m]
OfBlock(name, b) == Op(name, b, b, 0, 0)
OfNumber(name, n) == Op(name, Genesis, Genesis, n, 0)
Ops == [op : OpName, b : Block, o : Block, n : Int, m : Int]

At(name) == up # "down" /\ todo # <<>> /\ todo[1].op = name
Then(ops) == todo' = ops \o Tail(todo) /\ UNCHANGED holder
Free == up = "up" /\ todo = <<>>
Enter(who, ops) == todo' = ops /\ holder' = who

(* HeaderChain.WriteTd. *)
WriteTd ==
  /\ At("td")
  /\ tds' = [tds EXCEPT ![todo[1].b] = todo[1].n]
  /\ Then(<<>>)
  /\ UNCHANGED <<headers, bodies, states, index, hashes, mem, future, node, writers, import>>

(* batch.Write(): header, body, state and receipts of the block, and its   *)
(* lookup entries (m = 1) when it becomes canonical, in one atomic write.  *)
WriteBatch ==
  /\ At("batch")
  /\ headers' = headers \cup {todo[1].b}
  /\ bodies' = bodies \cup {todo[1].b}
  /\ states' = states \cup {todo[1].b}
  /\ lookup' = IF todo[1].m = 1
               THEN [t \in Tx |-> IF t \in txs[todo[1].b] THEN todo[1].b ELSE lookup[t]]
               ELSE lookup
  /\ Then(<<>>)
  /\ UNCHANGED <<tds, canon, hashes, mem, future, node, writers, import>>

(* BlockChain.insert: the canonical number first, then the head block, and *)
(* the head header and the fast head only when the number changed hands.   *)
Insert ==
  /\ At("insert")
  /\ LET b == todo[1].b IN
     /\ canon' = [canon EXCEPT ![number[b]] = b]
     /\ Then(<<OfBlock("headBlock", b)>> \o
             IF canon[number[b]] # b
             THEN <<OfBlock("headHeader", b), OfBlock("headFast", b)>>
             ELSE <<>>)
  /\ UNCHANGED <<blocks, lookup, hashes, mem, future, node, writers, import>>

WriteHeadBlockHash ==
  /\ At("headBlock")
  /\ headBlockHash' = todo[1].b
  /\ currentBlock' = todo[1].b
  /\ Then(<<>>)
  /\ UNCHANGED <<blocks, index, headHeaderHash, headFastHash, currentHeader,
                 currentFastBlock, future, node, writers, import>>

(* HeaderChain.SetCurrentHeader. *)
SetCurrentHeader ==
  /\ At("headHeader")
  /\ headHeaderHash' = todo[1].b
  /\ currentHeader' = todo[1].b
  /\ Then(<<>>)
  /\ UNCHANGED <<blocks, index, headBlockHash, headFastHash, currentBlock,
                 currentFastBlock, future, node, writers, import>>

WriteHeadFastBlockHash ==
  /\ At("headFast")
  /\ headFastHash' = todo[1].b
  /\ currentFastBlock' = todo[1].b
  /\ Then(<<>>)
  /\ UNCHANGED <<blocks, index, headBlockHash, headHeaderHash, currentBlock,
                 currentHeader, future, node, writers, import>>

(* A faulty Reorg: only the new head is inserted.                          *)
ReorgHeadOnly ==
  /\ At("reorg")
  /\ Then(<<OfBlock("insert", todo[1].b), OfBlock("lookup", todo[1].b)>>)
  /\ UNCHANGED <<blocks, index, hashes, mem, future, node, writers, import>>

(* The insertion loop of reorg: from the new head (b) down to the common   *)
(* ancestor with the old one (o).                                          *)
Reorg ==
  /\ At("reorg")
  /\ LET b == todo[1].b  o == todo[1].o IN
     Then(IF b \in Anc[o] THEN <<>>
          ELSE <<OfBlock("insert", b), OfBlock("lookup", b),
                 Op("reorg", parent[b], o, 0, 0)>>)
  /\ UNCHANGED <<blocks, index, hashes, mem, future, node, writers, import>>

WriteTxLookupEntries ==
  /\ At("lookup")
  /\ lookup' = [t \in Tx |-> IF t \in txs[todo[1].b] THEN todo[1].b ELSE lookup[t]]
  /\ Then(<<>>)
  /\ UNCHANGED <<blocks, canon, hashes, mem, future, node, writers, import>>

(* A faulty DeleteTxLookupEntries: it forgets what both branches hold, too. *)
DeleteAllLookupEntries ==
  /\ At("unlookup")
  /\ LET gone == TxsOf(OldChain(todo[1].o, todo[1].b)) IN
     lookup' = [t \in Tx |-> IF t \in gone THEN None ELSE lookup[t]]
  /\ Then(<<>>)
  /\ UNCHANGED <<blocks, canon, hashes, mem, future, node, writers, import>>

(* The last part of reorg: forget the transactions of the abandoned chain  *)
(* that the adopted one lacks (TxDifference).                              *)
DeleteTxLookupEntries ==
  /\ At("unlookup")
  /\ LET b == todo[1].b  o == todo[1].o
         diff == TxsOf(OldChain(o, b)) \ TxsOf(NewChain(o, b)) IN
     lookup' = [t \in Tx |-> IF t \in diff THEN None ELSE lookup[t]]
  /\ Then(<<>>)
  /\ UNCHANGED <<blocks, canon, hashes, mem, future, node, writers, import>>
-----------------------------------------------------------------------------
(* WriteBlockAndState, called by insertChain and by the miner's wait loop. *)

Idle == [w \in Writer |-> "idle"]

(* The process dies: its memory and its goroutines are gone.               *)
Die ==
  /\ up' = "down"
  /\ currentBlock' = Genesis
  /\ currentHeader' = Genesis
  /\ currentFastBlock' = Genesis
  /\ futureBlocks' = {}
  /\ sweep' = {}
  /\ todo' = <<>>
  /\ holder' = "none"
  /\ pc' = Idle
  /\ blk' = [w \in Writer |-> Genesis]
  /\ ptd' = [w \in Writer |-> 0]
  /\ rest' = <<>>
  /\ prev' = None

(* insertChain moves on to the next block, or returns.                     *)
Advance(b) ==
  /\ rest' = Tail(rest)
  /\ prev' = IF Tail(rest) = <<>> THEN None ELSE b
  /\ pc' = [pc EXCEPT !["import"] = IF Tail(rest) = <<>> THEN "idle" ELSE "next"]

(* WriteBlockAndState returns an error: insertChain returns it, the miner  *)
(* logs it and waits for the next result.                                  *)
Abort(w) ==
  /\ pc' = [pc EXCEPT ![w] = "idle"]
  /\ rest' = IF w = "import" THEN <<>> ELSE rest
  /\ prev' = IF w = "import" THEN None ELSE prev

(* A faulty ReadPtd: the head's total difficulty in place of the parent's. *)
ReadHeadTd(w) ==
  /\ up = "up" /\ pc[w] = "ptd"
  /\ pc' = [pc EXCEPT ![w] = "write"]
  /\ ptd' = [ptd EXCEPT ![w] = tds[currentBlock]]
  /\ UNCHANGED <<blocks, index, hashes, mem, future, node, todo, holder, blk, import>>

(* The parent's total difficulty is read before mu is taken.               *)
ReadPtd(w) ==
  /\ up = "up" /\ pc[w] = "ptd"
  /\ LET td == tds[parent[blk[w]]] IN
     IF td = NoTd
     THEN Abort(w) /\ UNCHANGED ptd
     ELSE /\ pc' = [pc EXCEPT ![w] = "write"]
          /\ ptd' = [ptd EXCEPT ![w] = td]
          /\ UNCHANGED import
  /\ UNCHANGED <<blocks, index, hashes, mem, future, node, todo, holder, blk>>

(* reorg walks both chains down to the common ancestor with GetBlock and   *)
(* gives up when a block is missing.                                       *)
Reorgable(old, new) ==
  \A x \in OldChain(old, new) \cup NewChain(old, new) : parent[x] \in Full

(* What WriteBlockAndState does once it knows that the block extends or    *)
(* replaces the canonical chain.                                           *)
WriteCanon(b) ==
  LET linked == parent[b] = currentBlock IN
  IF ~linked /\ ~Reorgable(currentBlock, b)
  THEN <<Op("failed", b, currentBlock, 0, 0)>>
  ELSE (IF linked THEN <<>>
        ELSE <<Op("reorg", b, currentBlock, 0, 0),
               Op("unlookup", b, currentBlock, 0, 0)>>)
       \o <<Op("batch", b, b, 0, 1), OfBlock("insert", b),
            Op("written", b, currentBlock, 0, 0)>>

WriteSide(b) ==
  <<Op("batch", b, b, 0, 0), Op("written", b, currentBlock, 0, 0)>>

(* A faulty fork choice: equal weight is a tie whatever the number.        *)
TiesByWeight(b, externTd) == externTd = tds[currentBlock]

(* A faulty fork choice: the longest chain.                                *)
WinsByNumber(b, externTd) == number[b] > number[currentBlock]

(* The fork choice: the higher total difficulty, then the lower number,    *)
(* then a coin.                                                            *)
Wins(b, externTd) ==
  \/ externTd > tds[currentBlock]
  \/ externTd = tds[currentBlock] /\ number[b] < number[currentBlock]
Ties(b, externTd) ==
  externTd = tds[currentBlock] /\ number[b] = number[currentBlock]

(* A faulty order: the total difficulty after the block.                   *)
TdLast(b, td, ops) ==
  SubSeq(ops, 1, Len(ops) - 1) \o <<Op("td", b, b, td, 0), ops[Len(ops)]>>

(* The total difficulty is written before everything else.                 *)
TdFirst(b, td, ops) == <<Op("td", b, b, td, 0)>> \o ops

WriteBlockAndState(w) ==
  /\ Free /\ pc[w] = "write"
  /\ LET b == blk[w]
         externTd == ptd[w] + difficulty[b] IN
     IF tds[currentBlock] = NoTd
     THEN /\ Die /\ panicked' = TRUE
          /\ tds' = [tds EXCEPT ![b] = externTd]
          /\ UNCHANGED ahead
     ELSE /\ \/ /\ Wins(b, externTd) \/ Ties(b, externTd)
                /\ Enter(w, TdFirst(b, externTd, WriteCanon(b)))
             \/ /\ ~Wins(b, externTd)
                /\ Enter(w, TdFirst(b, externTd, WriteSide(b)))
          /\ pc' = [pc EXCEPT ![w] = "locked"]
          /\ UNCHANGED <<tds, mem, future, node, blk, ptd, import>>
  /\ UNCHANGED <<headers, bodies, states, index, hashes>>

(* A faulty Written: the block stays among the future ones.                *)
WrittenStaysParked ==
  /\ At("written")
  /\ Enter("none", <<>>)
  /\ IF holder = "import"
     THEN Advance(todo[1].b)
     ELSE pc' = [pc EXCEPT !["mine"] = "idle"] /\ UNCHANGED import
  /\ UNCHANGED <<blocks, index, hashes, mem, future, node, blk, ptd>>

(* The tail of WriteBlockAndState: forget the block among the future ones  *)
(* and release mu; insertChain goes on to its next block.                  *)
Written ==
  /\ At("written")
  /\ futureBlocks' = futureBlocks \ {todo[1].b}
  /\ Enter("none", <<>>)
  /\ IF holder = "import"
     THEN Advance(todo[1].b)
     ELSE pc' = [pc EXCEPT !["mine"] = "idle"] /\ UNCHANGED import
  /\ UNCHANGED <<blocks, index, hashes, mem, sweep, ahead, node, blk, ptd>>

Failed ==
  /\ At("failed")
  /\ Enter("none", <<>>)
  /\ Abort(holder)
  /\ UNCHANGED <<blocks, index, hashes, mem, future, node, blk, ptd>>
-----------------------------------------------------------------------------
(* insertChain, under chainmu, one block at a time.                        *)

InsertChain(c) ==
  /\ up = "up" /\ pc["import"] = "idle"
  /\ c # <<>> /\ Contiguous(c)
  /\ pc' = [pc EXCEPT !["import"] = "next"]
  /\ rest' = c
  /\ prev' = None
  /\ UNCHANGED <<blocks, index, hashes, mem, future, node, todo, holder, blk, ptd>>

(* The outcome of VerifyHeaders (Dnpoc.verifyHeaderWorker) and, when that  *)
(* finds no fault, of ValidateBody.                                        *)
Verdict(b) ==
  IF prev = None /\ parent[b] \notin headers THEN "unknown"
  ELSE IF b \notin headers /\ b \in ahead THEN "future"
  ELSE IF b \notin headers /\ b \in BadHeader THEN "bad"
  ELSE IF HasBlockAndState(b) THEN "known"
  ELSE IF ~HasBlockAndState(parent[b]) THEN "unknown"
  ELSE "ok"

Turn == up = "up" /\ pc["import"] = "next"

SkipKnown ==
  /\ Turn /\ Verdict(rest[1]) = "known"
  /\ Advance(rest[1])
  /\ UNCHANGED <<blocks, index, hashes, mem, future, node, todo, holder, blk, ptd>>

(* A faulty Park: the queue has no limit.                                  *)
ParkUnbounded(b) == futureBlocks' = futureBlocks \cup {b}

(* futureBlocks.Add: a full queue evicts an entry.                         *)
Park(b) ==
  \/ /\ Cardinality(futureBlocks \cup {b}) <= MaxFuture
     /\ futureBlocks' = futureBlocks \cup {b}
  \/ /\ Cardinality(futureBlocks \cup {b}) > MaxFuture
     /\ \E x \in futureBlocks \ {b} : futureBlocks' = (futureBlocks \ {x}) \cup {b}

QueueFuture ==
  /\ Turn
  /\ LET b == rest[1] IN
     /\ \/ Verdict(b) = "future"
        \/ Verdict(b) = "unknown" /\ parent[b] \in futureBlocks
     /\ Park(b)
     /\ Advance(b)
  /\ UNCHANGED <<blocks, index, hashes, mem, sweep, ahead, node, todo, holder, blk, ptd>>

(* A faulty RejectBlock: the import tries the block again and again.       *)
RetryBlock ==
  /\ Turn
  /\ Verdict(rest[1]) \in {"future", "bad", "unknown"}
  /\ UNCHANGED vars

(* A block too far in the future, without a parent, or at fault ends the   *)
(* import.                                                                 *)
RejectBlock ==
  /\ Turn
  /\ LET b == rest[1] IN
     \/ Verdict(b) \in {"future", "bad"}
     \/ Verdict(b) = "unknown" /\ parent[b] \notin futureBlocks
  /\ Abort("import")
  /\ UNCHANGED <<blocks, index, hashes, mem, future, node, todo, holder, blk, ptd>>

AcceptBlock ==
  /\ Turn /\ Verdict(rest[1]) = "ok"
  /\ pc' = [pc EXCEPT !["import"] = "process"]
  /\ blk' = [blk EXCEPT !["import"] = rest[1]]
  /\ UNCHANGED <<blocks, index, hashes, mem, future, node, todo, holder, ptd, import>>

(* The parent of the first block is read from the database again, and      *)
(* dereferenced; then the block is processed on the parent's state.        *)
ProcessBlock ==
  /\ up = "up" /\ pc["import"] = "process"
  /\ LET b == blk["import"] IN
     IF prev = None /\ parent[b] \notin Full
     THEN Die /\ panicked' = TRUE /\ UNCHANGED ahead
     ELSE /\ IF parent[b] \notin states \/ b \in BadState
             THEN Abort("import")
             ELSE pc' = [pc EXCEPT !["import"] = "ptd"] /\ UNCHANGED import
          /\ UNCHANGED <<mem, future, node, todo, holder, blk, ptd>>
  /\ UNCHANGED <<blocks, index, hashes>>

(* procFutureBlocks: a snapshot of the queue, offered by ascending number. *)
ProcFutureBlocks ==
  /\ up = "up" /\ sweep = {} /\ futureBlocks # {}
  /\ sweep' = futureBlocks
  /\ UNCHANGED <<blocks, index, hashes, mem, futureBlocks, ahead, node, todo, holder,
                 writers, import>>

InsertFuture(b) ==
  /\ up = "up" /\ pc["import"] = "idle"
  /\ b \in sweep /\ \A x \in sweep : number[b] <= number[x]
  /\ sweep' = sweep \ {b}
  /\ pc' = [pc EXCEPT !["import"] = "next"]
  /\ rest' = <<b>>
  /\ prev' = None
  /\ UNCHANGED <<blocks, index, hashes, mem, futureBlocks, ahead, node, todo, holder,
                 blk, ptd>>

TimePasses(b) ==
  /\ b \in ahead
  /\ ahead' = ahead \ {b}
  /\ UNCHANGED <<blocks, index, hashes, mem, futureBlocks, sweep, node, todo, holder,
                 writers, import>>

(* The miner starts on the current head; its result may come at any later  *)
(* time, or never (the work is replaced).                                  *)
CommitNewWork(b) ==
  /\ Free /\ pc["mine"] = "idle"
  /\ b \notin headers /\ parent[b] = currentBlock
  /\ pc' = [pc EXCEPT !["mine"] = "ptd"]
  /\ blk' = [blk EXCEPT !["mine"] = b]
  /\ UNCHANGED <<blocks, index, hashes, mem, future, node, todo, holder, ptd, import>>

AbandonWork ==
  /\ up = "up" /\ pc["mine"] = "ptd"
  /\ pc' = [pc EXCEPT !["mine"] = "idle"]
  /\ UNCHANGED <<blocks, index, hashes, mem, future, node, todo, holder, blk, ptd, import>>
-----------------------------------------------------------------------------
(* SetHead, and the boot sequence that may call it through Reset.          *)

SetHead(n) ==
  /\ Free
  /\ Enter("setHead", <<OfNumber("setHead", n), OfNumber("unlock", 0)>>)
  /\ UNCHANGED <<blocks, index, hashes, mem, future, node, writers, import>>

(* The skeleton of BlockChain.SetHead: HeaderChain.SetHead deletes the     *)
(* headers above n from the current one downwards and then their canonical *)
(* numbers, the block heads follow, and the state is loaded again.         *)
BeginSetHead ==
  /\ At("setHead")
  /\ Then(<<OfNumber("rewind", todo[1].n),
            Op("delCanon", Genesis, Genesis, number[currentHeader], todo[1].n),
            OfNumber("setHeader", 0), OfNumber("rewindBlocks", 0), OfNumber("load", 1)>>)
  /\ UNCHANGED <<blocks, index, hashes, mem, future, node, writers, import>>

Rewind ==
  /\ At("rewind")
  /\ LET b == currentHeader IN
     Then(IF number[b] > todo[1].n
          THEN <<OfBlock("delBody", b), OfBlock("delHeader", b), OfBlock("delTd", b), todo[1]>>
          ELSE <<>>)
  /\ UNCHANGED <<blocks, index, hashes, mem, future, node, writers, import>>

DeleteBody ==
  /\ At("delBody")
  /\ bodies' = bodies \ {todo[1].b}
  /\ Then(<<>>)
  /\ UNCHANGED <<headers, states, tds, index, hashes, mem, future, node, writers, import>>

DeleteHeader ==
  /\ At("delHeader")
  /\ headers' = headers \ {todo[1].b}
  /\ Then(<<>>)
  /\ UNCHANGED <<bodies, states, tds, index, hashes, mem, future, node, writers, import>>

(* The current header steps to its parent; a missing parent ends the walk  *)
(* in the genesis header.                                                  *)
DeleteTd ==
  /\ At("delTd")
  /\ LET b == todo[1].b IN
     /\ tds' = [tds EXCEPT ![b] = NoTd]
     /\ currentHeader' = IF parent[b] \in headers THEN parent[b] ELSE Genesis
  /\ Then(<<>>)
  /\ UNCHANGED <<headers, bodies, states, index, hashes, currentBlock, currentFastBlock,
                 future, node, writers, import>>

(* A faulty DeleteCanonicalHash: the target height itself is unlinked.     *)
DeleteCanonicalTooFar ==
  /\ At("delCanon")
  /\ LET i == todo[1].n  n == todo[1].m IN
     IF i >= n
     THEN /\ canon' = [canon EXCEPT ![i] = None]
          /\ Then(<<Op("delCanon", Genesis, Genesis, i - 1, n)>>)
     ELSE /\ UNCHANGED canon
          /\ Then(<<>>)
  /\ UNCHANGED <<blocks, lookup, hashes, mem, future, node, writers, import>>

DeleteCanonicalHash ==
  /\ At("delCanon")
  /\ LET i == todo[1].n  n == todo[1].m IN
     IF i > n
     THEN /\ canon' = [canon EXCEPT ![i] = None]
          /\ Then(<<Op("delCanon", Genesis, Genesis, i - 1, n)>>)
     ELSE /\ UNCHANGED canon
          /\ Then(<<>>)
  /\ UNCHANGED <<blocks, lookup, hashes, mem, future, node, writers, import>>

StoreHeader ==
  /\ At("setHeader")
  /\ Then(<<OfBlock("headHeader", currentHeader)>>)
  /\ UNCHANGED <<blocks, index, hashes, mem, future, node, writers, import>>

(* A faulty RewindBlocks: the head block hash is not rewritten.            *)
RewindFastOnly ==
  /\ At("rewindBlocks")
  /\ LET follow(b) == IF number[currentHeader] >= number[b] THEN b
                      ELSE IF currentHeader \in Full THEN currentHeader ELSE Genesis
     IN Then(<<OfBlock("headFast", follow(currentFastBlock))>>)
  /\ futureBlocks' = {}
  /\ UNCHANGED <<blocks, index, hashes, mem, sweep, ahead, node, writers, import>>

(* The head block and the fast head follow a header below them, if that    *)
(* block is there (and, for the head block, its state); otherwise they     *)
(* fall back to the genesis block.                                         *)
RewindBlocks ==
  /\ At("rewindBlocks")
  /\ LET follow(b) == IF number[currentHeader] >= number[b] THEN b
                      ELSE IF currentHeader \in Full THEN currentHeader ELSE Genesis
         head == IF follow(currentBlock) \in states THEN follow(currentBlock) ELSE Genesis
     IN Then(<<OfBlock("headBlock", head), OfBlock("headFast", follow(currentFastBlock))>>)
  /\ futureBlocks' = {}
  /\ UNCHANGED <<blocks, index, hashes, mem, sweep, ahead, node, writers, import>>

(* Faulty forms of LoadLastState: the head block is taken unchecked; a     *)
(* missing one is waited for.                                              *)
LoadUnchecked ==
  /\ At("load")
  /\ currentBlock' = headBlockHash
  /\ currentFastBlock' = headBlockHash
  /\ Then(<<OfBlock("headHeader", headBlockHash)>>)
  /\ UNCHANGED <<blocks, index, hashes, currentHeader, future, node, writers, import>>
LoadOrWait ==
  /\ At("load") /\ HasBlockAndState(headBlockHash)
  /\ currentBlock' = headBlockHash
  /\ currentFastBlock' = headBlockHash
  /\ Then(<<OfBlock("headHeader", headBlockHash)>>)
  /\ UNCHANGED <<blocks, index, hashes, currentHeader, future, node, writers, import>>

(* loadLastState.  A head block that is missing, or that lacks its state,  *)
(* resets the chain.  Reset takes mu, which SetHead already holds when it  *)
(* calls loadLastState (n = 1): that goroutine would wait for itself.      *)
LoadLastState ==
  /\ At("load")
  /\ IF headBlockHash # None /\ headBlockHash \in Full /\ headBlockHash \in states
     THEN /\ currentBlock' = headBlockHash
          /\ currentFastBlock' = IF headFastHash # None /\ headFastHash \in Full
                                 THEN headFastHash ELSE headBlockHash
          /\ Then(<<OfBlock("headHeader",
                            IF headHeaderHash # None /\ headHeaderHash \in headers
                            THEN headHeaderHash ELSE headBlockHash)>>)
     ELSE /\ Then(IF todo[1].n = 0
                  THEN <<OfNumber("setHead", 0), Op("td", Genesis, Genesis, 0, 0),
                         OfBlock("putBlock", Genesis), OfBlock("insert", Genesis),
                         OfBlock("headHeader", Genesis), OfBlock("fastMem", Genesis)>>
                  ELSE <<OfNumber("stuck", 0)>>)
          /\ UNCHANGED <<currentBlock, currentFastBlock>>
  /\ UNCHANGED <<blocks, index, hashes, currentHeader, future, node, writers, import>>

(* WriteBlock(genesis) of ResetWithGenesisBlock. *)
WriteGenesis ==
  /\ At("putBlock")
  /\ headers' = headers \cup {todo[1].b}
  /\ bodies' = bodies \cup {todo[1].b}
  /\ Then(<<>>)
  /\ UNCHANGED <<states, tds, index, hashes, mem, future, node, writers, import>>

ResetFastHead ==
  /\ At("fastMem")
  /\ currentFastBlock' = todo[1].b
  /\ Then(<<>>)
  /\ UNCHANGED <<blocks, index, hashes, currentBlock, currentHeader, future, node,
                 writers, import>>

Unlock ==
  /\ At("unlock")
  /\ Enter("none", <<>>)
  /\ up' = "up"
  /\ UNCHANGED <<blocks, index, hashes, mem, future, panicked, writers, import>>

Crash ==
  /\ CanCrash /\ up # "down"
  /\ Die
  /\ UNCHANGED <<blocks, index, hashes, ahead, panicked>>

(* NewBlockChain: NewHeaderChain starts from the header of the head block. *)
NewBlockChain ==
  /\ CanCrash /\ up = "down"
  /\ up' = "boot"
  /\ currentHeader' = IF headBlockHash \in headers THEN headBlockHash ELSE Genesis
  /\ Enter("boot", <<OfNumber("load", 0), OfNumber("unlock", 0)>>)
  /\ UNCHANGED <<blocks, index, hashes, currentBlock, currentFastBlock, future, panicked,
                 writers, import>>
-----------------------------------------------------------------------------
(* Genesis.Commit on an empty database, then NewBlockChain.                *)
Init ==
  /\ headers = {Genesis} /\ bodies = {Genesis} /\ states = {Genesis}
  /\ tds = [b \in Block |-> IF b = Genesis THEN difficulty[Genesis] ELSE NoTd]
  /\ canon = [n \in Numbers |-> IF n = 0 THEN Genesis ELSE None]
  /\ lookup = [t \in Tx |-> None]
  /\ headBlockHash = Genesis /\ headHeaderHash = Genesis /\ headFastHash = None
  /\ currentBlock = Genesis /\ currentHeader = Genesis /\ currentFastBlock = Genesis
  /\ futureBlocks = {} /\ sweep = {} /\ ahead = Ahead
  /\ up = "up" /\ panicked = FALSE
  /\ todo = <<>> /\ holder = "none"
  /\ pc = Idle
  /\ blk = [w \in Writer |-> Genesis]
  /\ ptd = [w \in Writer |-> 0]
  /\ rest = <<>> /\ prev = None

(* One step of the critical section of mu.                                 *)
Section ==
  \/ WriteTd \/ WriteBatch \/ Insert
  \/ WriteHeadBlockHash \/ SetCurrentHeader \/ WriteHeadFastBlockHash
  \/ Reorg \/ WriteTxLookupEntries \/ DeleteTxLookupEntries
  \/ Written \/ Failed
  \/ BeginSetHead \/ Rewind \/ DeleteBody \/ DeleteHeader \/ DeleteTd
  \/ DeleteCanonicalHash \/ StoreHeader \/ RewindBlocks
  \/ LoadLastState \/ WriteGenesis \/ ResetFastHead \/ Unlock

(* One step of insertChain outside mu.                                     *)
ImportStep ==
  \/ SkipKnown \/ QueueFuture \/ RejectBlock \/ AcceptBlock \/ ProcessBlock
  \/ ReadPtd("import") \/ WriteBlockAndState("import")

Sweep ==
  \/ ProcFutureBlocks
  \/ \E b \in Block : InsertFuture(b)

(* Everything but the process's own death and birth.                       *)
Step ==
  \/ Section
  \/ ImportStep
  \/ Sweep
  \/ ReadPtd("mine") \/ WriteBlockAndState("mine")
  \/ \E c \in Chains : InsertChain(c)
  \/ \E b \in Mined : CommitNewWork(b)
  \/ AbandonWork
  \/ \E b \in Ahead : TimePasses(b)
  \/ \E n \in SetHeads : SetHead(n)

Next == Step \/ Crash \/ NewBlockChain

Spec == Init /\ [][Next]_vars

(* The goroutine inside mu runs, an import runs to its end, mu is granted  *)
(* to a waiter sooner or later, time passes and the 5 second timer of      *)
(* update() fires, and a dead process is started again.  New blocks, mined *)
(* blocks, rewinds and crashes are never required.                         *)
Fairness ==
  /\ WF_vars(Section)
  /\ WF_vars(SkipKnown \/ QueueFuture \/ RejectBlock \/ AcceptBlock \/ ProcessBlock
             \/ ReadPtd("import"))
  /\ SF_vars(WriteBlockAndState("import"))
  /\ SF_vars(WriteBlockAndState("mine"))
  /\ WF_vars(ProcFutureBlocks)
  /\ \A b \in Block : SF_vars(InsertFuture(b))
  /\ \A b \in Ahead : WF_vars(TimePasses(b))
  /\ WF_vars(NewBlockChain)

FairSpec == Spec /\ Fairness
-----------------------------------------------------------------------------
(* Every variable has its type, canonical numbers stay within the tree,    *)
(* and futureBlocks within its capacity.                                   *)
TypeOK ==
  /\ headers \subseteq Block /\ bodies \subseteq Block /\ states \subseteq Block
  /\ tds \in [Block -> Int]
  /\ canon \in [Numbers -> Block \cup {None}]
  /\ lookup \in [Tx -> Block \cup {None}]
  /\ headBlockHash \in Block /\ headHeaderHash \in Block
  /\ headFastHash \in Block \cup {None}
  /\ currentBlock \in Block /\ currentHeader \in Block /\ currentFastBlock \in Block
  /\ futureBlocks \subseteq Block /\ Cardinality(futureBlocks) <= MaxFuture
  /\ sweep \subseteq Block /\ ahead \subseteq Block
  /\ up \in {"down", "boot", "up"} /\ panicked \in BOOLEAN
  /\ todo \in Seq(Ops)
  /\ holder \in {"none", "import", "mine", "setHead", "boot", "receipts", "rollback"}
  /\ pc \in [Writer -> PcName]
  /\ blk \in [Writer -> Block]
  /\ ptd \in [Writer -> Int]
  /\ rest \in Seq(Block) /\ prev \in Block \cup {None}

(* mu is free: what CurrentBlock() and the other readers may see.          *)
Quiet == up = "up" /\ todo = <<>>

(* The head block and all its ancestors are stored, the head has its state *)
(* and its total difficulty: State(), reorg and WriteBlockAndState can     *)
(* rely on them whatever import, rewind or restart came before.            *)
HeadComplete ==
  Quiet => /\ Anc[currentBlock] \subseteq Full
           /\ currentBlock \in states
           /\ tds[currentBlock] # NoTd

(* GetBlockByNumber leads from every number up to the head along the       *)
(* head's own ancestors, after every extension, reorganisation and rewind. *)
CanonMatchesHead == Quiet => \A x \in Anc[currentBlock] : canon[number[x]] = x

(* A stored total difficulty is the stored parent's plus the block's own:  *)
(* the sums agree however the blocks came in, at every step.               *)
TdSound ==
  \A b \in headers \ {Genesis} :
    parent[b] \in headers => tds[b] = tds[parent[b]] + difficulty[b]

(* The transaction index knows exactly the transactions of the canonical   *)
(* chain, and points into it: reorg neither leaves an entry of the         *)
(* abandoned branch nor loses one that both branches hold.                 *)
LookupMatchesCanon ==
  Quiet => \A t \in Tx :
             LET on == {b \in Anc[currentBlock] : t \in txs[b]} IN
             IF on = {} THEN lookup[t] = None ELSE lookup[t] \in on

(* No database write order leaves a stored header without its total        *)
(* difficulty, not even between two writes: the fork choice of a node      *)
(* restarted there would dereference nil.                                  *)
HeadersHaveTd == \A b \in headers : tds[b] # NoTd

(* SetHead never finds a head that loadLastState would reset: Reset would  *)
(* wait for the mutex SetHead holds.                                       *)
NoSelfDeadlock == todo # <<>> => todo[1].op # "stuck"

(* No goroutine dereferences a block that another one deleted.             *)
NoPanic == ~panicked

(* Start-up runs into neither.                                            *)
Bootable == NoSelfDeadlock /\ NoPanic

(* An import, and the miner's write, give the lock back and return.        *)
ImportsEnd ==
  /\ pc["import"] # "idle" ~> pc["import"] = "idle"
  /\ pc["mine"] = "write" ~> pc["mine"] = "idle"

(* A parked block whose parent has arrived does not stay parked: the timer *)
(* of update() imports it, unless the queue overflows and drops it.        *)
FutureBlocksLeave ==
  \A b \in Block \ (BadHeader \cup BadState) :
    b \in futureBlocks /\ HasBlockAndState(parent[b]) ~> b \notin futureBlocks

(* A node that stops crashing comes back up.                               *)
Restarts == <>[][~Crash]_vars => [](up = "down" => <>(up = "up"))
=============================================================================
