-------------------------- MODULE ImportInvariant ---------------------------
(***************************************************************************)
(* What holds while blocks are imported and mined, nobody calls SetHead    *)
(* and the process does not crash.  The inductive invariant ImportInv says *)
(* what is on the stack of the goroutine that holds mu; each operation     *)
(* takes it from one of these places to the next.                          *)
(***************************************************************************)
EXTENDS BlockChain, ForkChoiceProofs

(* The process has met no rewind and no crash.                             *)
Undisturbed == SetHeads = {} /\ ~CanCrash

(* No block is stored without its ancestors, its state and its total       *)
(* difficulty.                                                             *)
Stored ==
  /\ bodies = headers /\ headers \subseteq states
  /\ Genesis \in headers /\ Closed(headers)
  /\ \A h \in headers : tds[h] \in Nat /\ Genesis \in Anc[h]
  /\ TdSound

(* What a caller of WriteBlockAndState found before it took mu still       *)
(* holds: its block has a stored parent, of the total difficulty it read.  *)
Caller(w) ==
  /\ pc[w] # "headers"
  /\ pc[w] \in {"process", "ptd", "write", "locked"} =>
       blk[w] # Genesis /\ parent[blk[w]] \in headers
  /\ pc[w] \in {"write", "locked"} => ptd[w] = tds[parent[blk[w]]]
  /\ pc[w] = "locked" <=> holder = w

StoreInv ==
  /\ up = "up" /\ ~panicked
  /\ Stored
  /\ \A w \in Writer : Caller(w)
  /\ holder \in Writer \cup {"none"}

(* The operations of mu that remain while b is written over the head o,    *)
(* from the last one to the first.                                         *)
Ending(b, o) == <<Op("written", b, o, 0, 0)>>
Inserting(b, o) == Push(OfBlock("insert", b), Ending(b, o))
Batching(b, o) == Push(Op("batch", b, b, 0, 1), Inserting(b, o))
Forgetting(b, o) == Push(Op("unlookup", b, o, 0, 0), Batching(b, o))
Siding(b, o) == Push(Op("batch", b, b, 0, 0), Ending(b, o))
Reorging(x, b, o) == Push(Op("reorg", x, o, 0, 0), Forgetting(b, o))
Indexing(x, b, o) == Push(OfBlock("lookup", x), Reorging(parent[x], b, o))

(* The head updates of insert before the operations k.                     *)
Fast(x, k) == Push(OfBlock("headFast", x), k)
Header(x, k) == Push(OfBlock("headHeader", x), Fast(x, k))
Heads(x, k) == {Push(OfBlock("headBlock", x), Header(x, k)), Push(OfBlock("headBlock", x), k)}

(* The total difficulty of a block to be written, and the fork choice.     *)
TdOf(b) == tds[parent[b]] + difficulty[b]
Beats(b, o) == TdOf(b) > tds[o] \/ (TdOf(b) = tds[o] /\ number[b] < number[o])
Holds(b, o) == TdOf(b) > tds[o] \/ (TdOf(b) = tds[o] /\ number[b] <= number[o])

(* The tables describe the chain of x.                                     *)
Described(x) == Listed(canon, Anc[x]) /\ (NoReplay => Indexed(lookup, Anc[x]))

(* The state of the critical section at each of its operations.            *)
AtTd(b, o) ==
  /\ currentBlock = o /\ Described(o)
  /\ \E k \in {Siding(b, o), Batching(b, o), Reorging(b, b, o)} :
       /\ todo = Push(Op("td", b, b, TdOf(b), 0), k)
       /\ \/ k = Siding(b, o) /\ ~Beats(b, o)
          \/ k = Batching(b, o) /\ parent[b] = o /\ Holds(b, o)
          \/ k = Reorging(b, b, o) /\ Holds(b, o)
AtSide(b, o) ==
  /\ currentBlock = o /\ Described(o)
  /\ todo = Siding(b, o) /\ ~Beats(b, o)
AtReorg(b, o) ==
  \E x \in Anc[b] :
    /\ NoReplay => Reindexed(lookup, Anc[b] \ Anc[x], Anc[o])
    /\ \/ todo = Reorging(x, b, o) /\ Listed(canon, Adopting(x, b, o))
       \/ /\ x \notin Anc[o]
          /\ todo = Push(OfBlock("insert", x), Indexing(x, b, o))
          /\ Listed(canon, Adopting(x, b, o))
       \/ /\ x \notin Anc[o]
          /\ \/ todo \in Heads(x, Indexing(x, b, o)) \/ todo = Header(x, Indexing(x, b, o))
             \/ todo = Fast(x, Indexing(x, b, o)) \/ todo = Indexing(x, b, o)
          /\ Listed(canon, Adopting(parent[x], b, o))
AtForget(b, o) ==
  /\ todo = Forgetting(b, o) /\ Listed(canon, Anc[b])
  /\ NoReplay => Leftover(lookup, Anc[b], Anc[o])
AtBatch(b, o) ==
  /\ todo = Batching(b, o) /\ Listed(canon, Anc[parent[b]])
  /\ NoReplay => Indexed(lookup, Anc[b]) \/ Indexed(lookup, Anc[parent[b]])
AtInsert(b, o) ==
  /\ b \in headers /\ todo = Inserting(b, o)
  /\ Listed(canon, Anc[parent[b]]) /\ (NoReplay => Indexed(lookup, Anc[b]))
AtHeads(b, o) ==
  /\ b \in headers /\ Described(b)
  /\ \/ todo \in Heads(b, Ending(b, o))
     \/ currentBlock = b /\ (todo = Header(b, Ending(b, o)) \/ todo = Fast(b, Ending(b, o)))
AtEnd(b, o) ==
  /\ b \in headers /\ todo = Ending(b, o) /\ Described(currentBlock)
  /\ \/ currentBlock = b /\ Holds(b, o)
     \/ currentBlock = o /\ ~Beats(b, o)
Adopted(b, o) ==
  /\ Holds(b, o)
  /\ AtReorg(b, o) \/ AtForget(b, o) \/ AtBatch(b, o) \/ AtInsert(b, o) \/ AtHeads(b, o)
Locked(b, o) ==
  /\ o \in headers
  /\ \/ AtTd(b, o)
     \/ tds[b] = TdOf(b) /\ (AtSide(b, o) \/ Adopted(b, o) \/ AtEnd(b, o))
Unlocked == todo = <<>> /\ currentBlock \in headers /\ Described(currentBlock)

(* The inductive invariant of import and mining.                           *)
ImportInv ==
  /\ TypeOK /\ StoreInv
  /\ holder = "none" => Unlocked
  /\ holder \in Writer => \E b, o \in Block : blk[holder] = b /\ Locked(b, o)
-----------------------------------------------------------------------------
(* A step of the critical section while b is at work and o is the head     *)
(* that it found.  Only b may be new, and nothing stored changes.          *)
Grows(b) == headers' \ {b} = headers \ {b} /\ \A h \in headers : tds'[h] = tds[h]
Onward(b, o) == StoreInv' /\ Locked(b, o)' /\ holder' = holder /\ blk' = blk /\ Grows(b)

(* The block is written and mu released.                                   *)
Finished ==
  /\ Written /\ StoreInv' /\ Unlocked' /\ holder' = "none"
  /\ UNCHANGED <<headers, tds, currentBlock>>

(* Every step of the critical section is one or the other.                 *)
Progress ==
  /\ holder \in Writer
  /\ \E b, o \in Block :
       /\ blk[holder] = b /\ Locked(b, o)
       /\ Onward(b, o) \/ (AtEnd(b, o) /\ tds[b] = TdOf(b) /\ Finished)
=============================================================================
