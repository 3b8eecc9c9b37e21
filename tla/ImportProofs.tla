---------------------------- MODULE ImportProofs ----------------------------
(***************************************************************************)
(* ImportInv is an invariant of import and mining, given that the critical *)
(* section makes Progress (SectionProofs): taking mu, and what goroutines  *)
(* do outside of it, keep it.  And the chain manager refines the fork      *)
(* choice: only the release of mu after a write is visible to it.          *)
(***************************************************************************)
EXTENDS ImportInvariant, ChainRefinement, TLAPS

(* The critical section keeps the invariant.                               *)
LEMMA SectionImport ==
  ASSUME ImportInv, TypeOK', Progress
  PROVE  ImportInv'
<1>1. holder \in Writer
  BY Zenon DEF Progress
<1>2. PICK b \in Block, o \in Block : blk[holder] = b /\ (Onward(b, o) \/ Finished)
  BY Zenon DEF Progress
<1>3. CASE Onward(b, o)
  <2>1. StoreInv' /\ holder' \in Writer /\ blk'[holder'] = b /\ Locked(b, o)' /\ holder' # "none"
    BY <1>1, <1>2, <1>3, Zenon DEF Onward, Writer
  <2> QED BY <2>1, Zenon DEF ImportInv
<1>4. CASE Finished
  BY <1>4, Zenon DEF Finished, ImportInv, Writer
<1> QED BY <1>2, <1>3, <1>4, Zenon

-----------------------------------------------------------------------------
(* WriteBlockAndState takes mu.                                            *)

(* What WriteBlockAndState may have pending is of the type of operations.  *)
LEMMA Pendable ==
  ASSUME NEW b \in Block, NEW o \in Block, NEW n \in Int
  PROVE  /\ OfBlock("insert", b) \in Ops /\ OfBlock("lookup", b) \in Ops
         /\ OfBlock("headBlock", b) \in Ops /\ OfBlock("headHeader", b) \in Ops
         /\ OfBlock("headFast", b) \in Ops /\ Op("td", b, b, n, 0) \in Ops
         /\ Op("batch", b, b, 0, 0) \in Ops /\ Op("batch", b, b, 0, 1) \in Ops
         /\ Op("reorg", b, o, 0, 0) \in Ops /\ Op("unlookup", b, o, 0, 0) \in Ops
         /\ Op("written", b, o, 0, 0) \in Ops
<1>1. ASSUME NEW name \in OpName, NEW m \in Int, NEW x \in Block, NEW k \in Int
      PROVE  Op(name, b, x, k, m) \in Ops
  BY Zenon DEF Op, Ops
<1> QED BY <1>1 DEF OpName, OfBlock

(* A writer that holds mu will give it back: the bottom of its stack names *)
(* the block and the head it met.                                          *)
LEMMA Busy ==
  ASSUME TypeOK, NEW b \in Block, NEW o \in Block, Locked(b, o)
  PROVE  Based(Ops, todo, Op("written", b, o, 0, 0))
<1> DEFINE z == Op("written", b, o, 0, 0)
<1>1. z \in Ops /\ Op("batch", b, b, 0, 0) \in Ops /\ Op("batch", b, b, 0, 1) \in Ops
      /\ Op("unlookup", b, o, 0, 0) \in Ops
  BY Pendable
<1>2. ASSUME NEW x \in Block
      PROVE  /\ OfBlock("insert", x) \in Ops /\ OfBlock("lookup", x) \in Ops
             /\ OfBlock("headBlock", x) \in Ops /\ OfBlock("headHeader", x) \in Ops
             /\ OfBlock("headFast", x) \in Ops /\ Op("reorg", x, o, 0, 0) \in Ops
  BY Pendable
<1> HIDE DEF z
<1>3. Based(Ops, Ending(b, o), z)
  BY <1>1, BasedFirst, Zenon DEF Ending, z
<1>4. Based(Ops, Inserting(b, o), z) /\ Based(Ops, Siding(b, o), z)
  BY <1>1, <1>2, <1>3, BasedPush, Zenon DEF Inserting, Siding
<1>5. Based(Ops, Batching(b, o), z)
  BY <1>1, <1>4, BasedPush, Zenon DEF Batching
<1>6. Based(Ops, Forgetting(b, o), z)
  BY <1>1, <1>5, BasedPush, Zenon DEF Forgetting
<1>7. ASSUME NEW x \in Block
      PROVE  Based(Ops, Reorging(x, b, o), z)
  BY <1>2, <1>6, BasedPush, Zenon DEF Reorging
<1>8. ASSUME NEW x \in Block, NEW k, Based(Ops, k, z),
             todo \in Heads(x, k) \/ todo = Header(x, k) \/ todo = Fast(x, k) \/ todo = k
      PROVE  Based(Ops, todo, z)
  <2>1. Based(Ops, Fast(x, k), z)
    BY <1>2, <1>8, BasedPush, Zenon DEF Fast
  <2>2. Based(Ops, Header(x, k), z)
    BY <1>2, <2>1, BasedPush, Zenon DEF Header
  <2> QED BY <1>2, <1>8, <2>1, <2>2, BasedPush, Zenon DEF Heads
<1>9. ASSUME AtReorg(b, o) PROVE Based(Ops, todo, z)
  <2>1. PICK x \in Anc[b] :
          \/ todo = Reorging(x, b, o) \/ todo = Indexing(x, b, o)
          \/ todo = Push(OfBlock("insert", x), Indexing(x, b, o))
          \/ todo \in Heads(x, Indexing(x, b, o)) \/ todo = Header(x, Indexing(x, b, o))
          \/ todo = Fast(x, Indexing(x, b, o))
    BY <1>9, Zenon DEF AtReorg
  <2>2. x \in Block /\ parent[x] \in Block
    BY AncTrans, Zenon
  <2>3. Based(Ops, Indexing(x, b, o), z)
    BY <1>2, <1>7, <2>2, BasedPush, Zenon DEF Indexing
  <2> QED BY <1>2, <1>7, <1>8, <2>1, <2>2, <2>3, BasedPush, Zenon
<1>10. ASSUME AtTd(b, o) PROVE Based(Ops, todo, z)
  <2>1. PICK k \in {Siding(b, o), Batching(b, o), Reorging(b, b, o)} :
          todo = Push(Op("td", b, b, TdOf(b), 0), k)
    BY <1>10, Zenon DEF AtTd
  <2>2. TdOf(b) \in Int
    <3>1. tds \in [Block -> Int]
      BY Zenon DEF TypeOK
    <3>2. parent[b] \in Block /\ difficulty[b] \in Int
      BY TreeAssumption
    <3> QED BY <3>1, <3>2 DEF TdOf
  <2>3. Op("td", b, b, TdOf(b), 0) \in Ops
    BY <2>2, Pendable, Zenon
  <2> QED BY <1>4, <1>5, <1>7, <2>1, <2>3, BasedPush, Zenon
<1>11. AtHeads(b, o) => Based(Ops, todo, z)
  BY <1>3, <1>8, Zenon DEF AtHeads
<1> QED BY <1>3, <1>4, <1>5, <1>6, <1>9, <1>10, <1>11, Zenon
        DEF Locked, Adopted, AtSide, AtForget, AtBatch, AtInsert, AtEnd, z

(* mu is free exactly when nothing is left to do.                          *)
LEMMA FreeUnlocked ==
  ASSUME ImportInv, todo = <<>>
  PROVE  holder = "none" /\ Unlocked
<1>1. holder \notin Writer
  <2>1. ASSUME holder \in Writer
        PROVE  \E b, o \in Block : Locked(b, o)
    BY <2>1, Zenon DEF ImportInv
  <2> QED BY <2>1, Busy, Zenon DEF Based, ImportInv
<1> QED BY <1>1, Zenon DEF ImportInv, StoreInv

(* No block is missing on the way of reorg.                                *)
LEMMA ChainsStored ==
  ASSUME TypeOK, Stored, NEW o \in headers, NEW b \in Block, parent[b] \in headers
  PROVE  Reorgable(o, b)
<1>1. /\ o \in Block /\ headers \in SUBSET Block /\ Closed(headers) /\ headers = bodies
      /\ Genesis \in headers /\ parent[Genesis] = Genesis
  BY TreeAssumption, Zenon DEF TypeOK, Stored
<1>2. parent[b] \in Block /\ Anc[b] = {b} \cup Anc[parent[b]]
  BY AncStep, Zenon
<1>3. Anc[o] \subseteq headers /\ Anc[parent[b]] \subseteq headers
  BY <1>1, <1>2, AncLeast, Zenon
<1>4. ASSUME NEW x \in Anc[o] \cup Anc[b] PROVE parent[x] \in headers
  BY <1>1, <1>2, <1>3, Zenon DEF Closed
<1> QED BY <1>1, <1>4, Zenon DEF Reorgable, OldChain, NewChain, Full

(* What WriteBlockAndState leaves to do.                                   *)
LEMMA Queued ==
  ASSUME NEW b \in Block, currentBlock \in Block, Reorgable(currentBlock, b)
  PROVE  /\ WriteSide(b) = Siding(b, currentBlock)
         /\ parent[b] = currentBlock => WriteCanon(b) = Batching(b, currentBlock)
         /\ parent[b] # currentBlock => WriteCanon(b) = Reorging(b, b, currentBlock)
<1> DEFINE o == currentBlock
           r == Op("reorg", b, o, 0, 0)
           u == Op("unlookup", b, o, 0, 0)
           x == Op("batch", b, b, 0, 1)
           s == Op("batch", b, b, 0, 0)
           y == OfBlock("insert", b)
           z == Op("written", b, o, 0, 0)
<1>1. /\ r \in Ops /\ u \in Ops /\ x \in Ops /\ s \in Ops /\ y \in Ops /\ z \in Ops
  BY Pendable
<1>2. WriteCanon(b) = Plan(r, u, x, y, z, parent[b], o)
  BY Zenon DEF WriteCanon, Plan
<1>3. WriteSide(b) = <<s, z>>
  BY Zenon DEF WriteSide
<1> HIDE DEF r, u, x, s, y, z
<1>4. <<s, z>> = Push(s, <<z>>)
  BY <1>1, Stack2, Zenon
<1>5. /\ parent[b] = o => WriteCanon(b) = Push(x, Push(y, <<z>>))
      /\ parent[b] # o => WriteCanon(b) = Push(r, Push(u, Push(x, Push(y, <<z>>))))
  BY <1>1, <1>2, Planned
<1> QED BY <1>3, <1>4, <1>5, Zenon
        DEF Siding, Batching, Reorging, Forgetting, Inserting, Ending, r, u, x, s, y, z

LEMMA EnterStep ==
  ASSUME ImportInv, NEW w \in Writer, WriteBlockAndState(w)
  PROVE  /\ holder = "none" /\ pc[w] = "write" /\ StoreInv'
         /\ holder' = w /\ UNCHANGED <<headers, tds, currentBlock, blk>>
         /\ \E b, o \in Block : b = blk[w] /\ o = currentBlock /\ Locked(b, o)'
<1>1. TypeOK /\ StoreInv /\ holder = "none" /\ Unlocked /\ pc[w] = "write"
  BY FreeUnlocked, Zenon DEF WriteBlockAndState, Free, ImportInv
<1>0. PICK b \in Block, o \in Block : b = blk[w] /\ o = currentBlock
  BY <1>1, Zenon DEF TypeOK
<1>2. b # Genesis /\ parent[b] \in headers /\ ptd[w] + difficulty[b] = TdOf(b)
  BY <1>0, <1>1, Zenon DEF TypeOK, StoreInv, Caller, TdOf
<1>3. o \in headers /\ tds[o] \in Nat /\ tds[o] # NoTd
  BY <1>0, <1>1 DEF Unlocked, StoreInv, Stored, NoTd
<1>4. Reorgable(o, b)
  BY <1>1, <1>2, <1>3, ChainsStored, Zenon DEF StoreInv
<1>5. /\ WriteSide(b) = Siding(b, o)
      /\ parent[b] = o => WriteCanon(b) = Batching(b, o)
      /\ parent[b] # o => WriteCanon(b) = Reorging(b, b, o)
  BY <1>0, <1>4, Queued, Zenon
<1>6. /\ Wins(b, TdOf(b)) <=> Beats(b, o)
      /\ Wins(b, TdOf(b)) \/ Ties(b, TdOf(b)) <=> Holds(b, o)
  <2>1. number[b] \in Nat /\ number[o] \in Nat
    BY Numbered, Zenon
  <2> QED BY <1>0, <2>1 DEF Wins, Ties, Beats, Holds
<1>7. /\ \/ Holds(b, o) /\ Enter(w, TdFirst(b, TdOf(b), WriteCanon(b)))
         \/ ~Beats(b, o) /\ Enter(w, TdFirst(b, TdOf(b), WriteSide(b)))
      /\ pc' = [pc EXCEPT ![w] = "locked"]
      /\ UNCHANGED <<tds, mem, node, blk, ptd, headers, bodies, states, index>>
  BY <1>0, <1>2, <1>3, <1>6, Zenon DEF WriteBlockAndState
<1>8. PICK k \in {Siding(b, o), Batching(b, o), Reorging(b, b, o)} :
        /\ holder' = w /\ todo' = Push(Op("td", b, b, TdOf(b), 0), k)
        /\ \/ k = Siding(b, o) /\ ~Beats(b, o)
           \/ k = Batching(b, o) /\ parent[b] = o /\ Holds(b, o)
           \/ k = Reorging(b, b, o) /\ Holds(b, o)
  BY <1>5, <1>7, Zenon DEF Enter, TdFirst, Push
<1>10. /\ tds' = tds /\ headers' = headers /\ bodies' = bodies /\ states' = states
       /\ currentBlock' = o /\ canon' = canon /\ lookup' = lookup
       /\ up' = up /\ panicked' = panicked /\ blk' = blk /\ ptd' = ptd
  BY <1>0, <1>7, Zenon DEF mem, index, node
<1>11. Described(o)' /\ (Beats(b, o)' <=> Beats(b, o)) /\ (Holds(b, o)' <=> Holds(b, o))
       /\ TdOf(b)' = TdOf(b)
  BY <1>0, <1>1, <1>10, Zenon DEF Unlocked, Described, Beats, Holds, TdOf
<1>12. Stored' /\ up' = "up" /\ ~panicked'
  BY <1>1, <1>10, Zenon DEF StoreInv, Stored, Closed, TdSound
<1>13. ASSUME NEW v \in Writer PROVE Caller(v)'
  <2>1. Caller(v) /\ pc \in [Writer -> PcName] /\ v # "none" /\ Caller(w)
    BY <1>1, Zenon DEF StoreInv, TypeOK, Writer
  <2>2. CASE v = w
    BY <1>1, <1>7, <1>8, <1>10, <2>1, <2>2, Zenon DEF Caller
  <2>3. CASE v # w
    BY <1>1, <1>7, <1>8, <1>10, <2>1, <2>3, Zenon DEF Caller
  <2> QED BY <2>2, <2>3, Zenon
<1>14. StoreInv'
  BY <1>8, <1>12, <1>13, Zenon DEF StoreInv
<1>15. AtTd(b, o)'
  BY <1>8, <1>10, <1>11, Zenon DEF AtTd
<1>16. Locked(b, o)'
  BY <1>3, <1>10, <1>15, Zenon DEF Locked
<1> QED BY <1>0, <1>1, <1>8, <1>10, <1>14, <1>16, Zenon

LEMMA WriteImport ==
  ASSUME ImportInv, TypeOK', NEW w \in Writer, WriteBlockAndState(w)
  PROVE  ImportInv'
<1>1. /\ StoreInv' /\ holder' = w /\ blk' = blk /\ w # "none"
      /\ \E b, o \in Block : b = blk[w] /\ Locked(b, o)'
  BY EnterStep, Zenon DEF Writer
<1> QED BY <1>1, Zenon DEF ImportInv

-----------------------------------------------------------------------------
(* Steps outside the critical section: one writer moves.                   *)

(* The critical section does not notice.                                   *)
LEMMA Untouched ==
  ASSUME NEW b, NEW o, UNCHANGED <<blocks, index, currentBlock, todo>>
  PROVE  (Locked(b, o) => Locked(b, o)') /\ (Unlocked => Unlocked')
<1>1. /\ headers' = headers /\ tds' = tds /\ canon' = canon /\ lookup' = lookup
      /\ currentBlock' = currentBlock /\ todo' = todo
  BY Zenon DEF blocks, index
<1>2. /\ Beats(b, o)' <=> Beats(b, o)
      /\ Holds(b, o)' <=> Holds(b, o)
      /\ TdOf(b)' = TdOf(b)
  BY <1>1, Zenon DEF Beats, Holds, TdOf
<1>3. AtTd(b, o) => AtTd(b, o)'
  BY <1>1, <1>2, Zenon DEF AtTd, Described
<1>4. (AtSide(b, o) => AtSide(b, o)') /\ (AtEnd(b, o) => AtEnd(b, o)')
  BY <1>1, <1>2, Zenon DEF AtSide, AtEnd, Described
<1>5. AtReorg(b, o) => AtReorg(b, o)'
  BY <1>1, Zenon DEF AtReorg
<1>6. /\ AtForget(b, o) => AtForget(b, o)'
      /\ AtBatch(b, o) => AtBatch(b, o)'
      /\ AtInsert(b, o) => AtInsert(b, o)'
  BY <1>1, Zenon DEF AtForget, AtBatch, AtInsert
<1>7. (AtHeads(b, o) => AtHeads(b, o)') /\ (Unlocked => Unlocked')
  BY <1>1, Zenon DEF AtHeads, Unlocked, Described
<1> QED BY <1>1, <1>2, <1>3, <1>4, <1>5, <1>6, <1>7, Zenon DEF Locked, Adopted

LEMMA Aside ==
  ASSUME ImportInv, TypeOK', UNCHANGED <<blocks, index, currentBlock, todo, holder, node>>,
         \A w \in Writer : Caller(w)' /\ (pc[w] = "locked" => blk'[w] = blk[w])
  PROVE  ImportInv'
<1>1. StoreInv'
  <2>1. Stored'
    BY Zenon DEF ImportInv, StoreInv, Stored, Closed, TdSound, blocks
  <2>2. up' = "up" /\ ~panicked' /\ holder' \in Writer \cup {"none"}
    BY Zenon DEF ImportInv, StoreInv, node
  <2> QED BY <2>1, <2>2, Zenon DEF StoreInv
<1>2. holder = "none" => Unlocked'
  BY Untouched, Zenon DEF ImportInv
<1>3. ASSUME holder \in Writer
      PROVE  \E b, o \in Block : blk'[holder] = b /\ Locked(b, o)'
  <2>1. PICK b \in Block, o \in Block : blk[holder] = b /\ Locked(b, o)
    BY <1>3, Zenon DEF ImportInv
  <2>2. pc[holder] = "locked"
    BY <1>3, Zenon DEF ImportInv, StoreInv, Caller
  <2> QED BY <1>3, <2>1, <2>2, Untouched, Zenon
<1> QED BY <1>1, <1>2, <1>3, Zenon DEF ImportInv

LEMMA Moves ==
  ASSUME ImportInv, TypeOK', UNCHANGED <<blocks, index, currentBlock, todo, holder, node>>,
         NEW w \in Writer, pc[w] # "locked", NEW v, pc' = [pc EXCEPT ![w] = v],
         \A u \in Writer \ {w} : blk'[u] = blk[u] /\ ptd'[u] = ptd[u],
         \/ v \in {"idle", "next"}
         \/ /\ v \in {"process", "ptd"} /\ blk'[w] # Genesis /\ parent[blk'[w]] \in headers
         \/ /\ v = "write" /\ blk'[w] # Genesis /\ parent[blk'[w]] \in headers
            /\ ptd'[w] = tds[parent[blk'[w]]]
  PROVE  ImportInv'
<1>0. /\ pc \in [Writer -> PcName] /\ headers' = headers /\ tds' = tds
      /\ \A u \in Writer : Caller(u)
  BY Zenon DEF ImportInv, TypeOK, StoreInv, blocks
<1>1. Caller(w)'
  <2>1. pc'[w] = v /\ holder' # w
    BY <1>0, Zenon DEF Caller
  <2>2. v # "headers" /\ v # "locked"
    BY Zenon
  <2> QED BY <1>0, <2>1, <2>2, Zenon DEF Caller
<1>2. ASSUME NEW u \in Writer \ {w} PROVE Caller(u)'
  <2>1. pc'[u] = pc[u] /\ blk'[u] = blk[u] /\ ptd'[u] = ptd[u] /\ Caller(u)
    BY <1>0, Zenon
  <2> QED BY <1>0, <2>1, Zenon DEF Caller
<1>3. \A u \in Writer : pc[u] = "locked" => blk'[u] = blk[u]
  BY Zenon
<1> QED BY <1>1, <1>2, <1>3, Aside, Zenon

(* insertChain starts, moves on or returns.                                *)
LEMMA TurnImport ==
  ASSUME ImportInv, TypeOK', NEW v \in {"idle", "next"}, pc["import"] # "locked",
         pc' = [pc EXCEPT !["import"] = v],
         UNCHANGED <<blocks, index, currentBlock, todo, holder, node, blk, ptd>>
  PROVE  ImportInv'
<1>1. "import" \in Writer
  BY Zenon DEF Writer
<1> QED BY <1>1, Moves, Zenon

LEMMA ChainImport ==
  ASSUME ImportInv, TypeOK',
         \/ \E c \in Chains : InsertChain(c)
         \/ \E b \in Block : InsertFuture(b)
         \/ SkipKnown \/ QueueFuture \/ RejectBlock
  PROVE  ImportInv'
<1>1. /\ pc["import"] \in {"idle", "next"}
      /\ pc' = [pc EXCEPT !["import"] = "idle"] \/ pc' = [pc EXCEPT !["import"] = "next"]
  BY Zenon DEF InsertChain, InsertFuture, SkipKnown, QueueFuture, RejectBlock, Turn, Advance, Abort
<1>2. UNCHANGED <<blocks, index, currentBlock, todo, holder, node, blk, ptd>>
  BY Zenon DEF InsertChain, InsertFuture, SkipKnown, QueueFuture, RejectBlock, mem
<1> QED BY <1>1, <1>2, TurnImport, Zenon

LEMMA AcceptImport ==
  ASSUME ImportInv, TypeOK', AcceptBlock
  PROVE  ImportInv'
<1> DEFINE b == rest[1]
<1>1. /\ pc["import"] = "next" /\ pc' = [pc EXCEPT !["import"] = "process"]
      /\ blk' = [blk EXCEPT !["import"] = b] /\ Verdict(b) = "ok"
      /\ UNCHANGED <<blocks, index, currentBlock, todo, holder, node, ptd>>
  BY Zenon DEF AcceptBlock, Turn, mem
<1>2. ~HasBlockAndState(b) /\ HasBlockAndState(parent[b])
  BY <1>1, Zenon DEF Verdict
<1>3. b # Genesis /\ parent[b] \in headers
  BY <1>2, Zenon DEF HasBlockAndState, Full, ImportInv, StoreInv, Stored
<1>4. blk \in [Writer -> Block] /\ "import" \in Writer
  BY Zenon DEF ImportInv, TypeOK, Writer
<1> HIDE DEF b
<1>5. blk'["import"] = b /\ \A u \in Writer \ {"import"} : blk'[u] = blk[u] /\ ptd'[u] = ptd[u]
  BY <1>1, <1>4, Zenon
<1> QED BY <1>1, <1>3, <1>4, <1>5, Moves, Zenon

(* The parent of an accepted block is still there: no nil is dereferenced. *)
LEMMA ProcessImport ==
  ASSUME ImportInv, TypeOK', ProcessBlock
  PROVE  ImportInv'
<1>1. "import" \in Writer /\ pc["import"] = "process"
  BY Zenon DEF ProcessBlock, Writer
<1>2. blk["import"] # Genesis /\ parent[blk["import"]] \in headers
  BY <1>1, Zenon DEF ImportInv, StoreInv, Caller
<1>3. parent[blk["import"]] \in Full
  BY <1>2, Zenon DEF Full, ImportInv, StoreInv, Stored
<1>4. /\ pc' = [pc EXCEPT !["import"] = "idle"] \/ pc' = [pc EXCEPT !["import"] = "ptd"]
      /\ UNCHANGED <<blocks, index, currentBlock, todo, holder, node, blk, ptd>>
  BY <1>3, Zenon DEF ProcessBlock, Abort, mem
<1>5. CASE pc' = [pc EXCEPT !["import"] = "idle"]
  BY <1>1, <1>4, <1>5, TurnImport, Zenon
<1>6. CASE pc' = [pc EXCEPT !["import"] = "ptd"]
  BY <1>1, <1>2, <1>4, <1>6, Moves, Zenon
<1> QED BY <1>4, <1>5, <1>6, Zenon

(* What ReadPtd reads before it takes mu will still be true inside.        *)
LEMMA PtdImport ==
  ASSUME ImportInv, TypeOK', NEW w \in Writer, ReadPtd(w)
  PROVE  ImportInv'
<1> DEFINE td == tds[parent[blk[w]]]
<1>1. pc[w] = "ptd" /\ blk[w] # Genesis /\ parent[blk[w]] \in headers
  BY Zenon DEF ReadPtd, ImportInv, StoreInv, Caller
<1>2. td # NoTd
  BY <1>1 DEF ImportInv, StoreInv, Stored, NoTd
<1>3. /\ pc' = [pc EXCEPT ![w] = "write"] /\ ptd' = [ptd EXCEPT ![w] = td]
      /\ UNCHANGED <<blocks, index, currentBlock, todo, holder, node, blk>>
  BY <1>2, Zenon DEF ReadPtd, mem
<1>4. ptd \in [Writer -> Int]
  BY Zenon DEF ImportInv, TypeOK
<1> HIDE DEF td
<1>5. ptd'[w] = td /\ blk' = blk /\ \A u \in Writer \ {w} : ptd'[u] = ptd[u]
  BY <1>3, <1>4, Zenon
<1>6. ptd'[w] = tds[parent[blk'[w]]]
  BY <1>5, Zenon DEF td
<1> QED BY <1>1, <1>3, <1>5, <1>6, Moves, Zenon

(* The miner works on the head, or gives up.                               *)
LEMMA MineImport ==
  ASSUME ImportInv, TypeOK', (\E b \in Mined : CommitNewWork(b)) \/ AbandonWork
  PROVE  ImportInv'
<1>0. "mine" \in Writer /\ blk \in [Writer -> Block]
  BY Zenon DEF Writer, ImportInv, TypeOK
<1>1. ASSUME NEW b \in Mined, CommitNewWork(b)
      PROVE  ImportInv'
  <2>1. /\ pc["mine"] = "idle" /\ pc' = [pc EXCEPT !["mine"] = "ptd"]
        /\ blk' = [blk EXCEPT !["mine"] = b] /\ todo = <<>>
        /\ b \notin headers /\ parent[b] = currentBlock
        /\ UNCHANGED <<blocks, index, currentBlock, todo, holder, node, ptd>>
    BY <1>1, Zenon DEF CommitNewWork, Free, mem
  <2>2. parent[b] \in headers /\ b # Genesis
    BY <2>1, FreeUnlocked, Zenon DEF Unlocked, ImportInv, StoreInv, Stored
  <2>3. blk'["mine"] = b /\ \A u \in Writer \ {"mine"} : blk'[u] = blk[u] /\ ptd'[u] = ptd[u]
    BY <1>0, <2>1, Zenon
  <2> QED BY <1>0, <2>1, <2>2, <2>3, Moves, Zenon
<1>2. ASSUME AbandonWork
      PROVE  ImportInv'
  <2>1. /\ pc["mine"] = "ptd" /\ pc' = [pc EXCEPT !["mine"] = "idle"]
        /\ UNCHANGED <<blocks, index, currentBlock, todo, holder, node, blk, ptd>>
    BY <1>2, Zenon DEF AbandonWork, mem
  <2> QED BY <1>0, <2>1, Moves, Zenon
<1> QED BY <1>1, <1>2, Zenon

LEMMA StillImport ==
  ASSUME ImportInv, TypeOK',
         UNCHANGED <<blocks, index, currentBlock, todo, holder, node, writers>>
  PROVE  ImportInv'
<1>1. \A w \in Writer : Caller(w)'
  BY Zenon DEF ImportInv, StoreInv, Caller, writers, blocks
<1> QED BY <1>1, Aside, Zenon DEF writers

(* Every step keeps the invariant.                                         *)
LEMMA NextImport ==
  ASSUME Undisturbed, ImportInv, TypeOK', [Next]_vars, Section => Progress
  PROVE  ImportInv'
<1>1. TypeOK'
  BY Zenon
<1>2. CASE Section
  BY <1>1, <1>2, SectionImport, Zenon
<1>3. CASE ImportStep
  <2>1. "import" \in Writer
    BY Zenon DEF Writer
  <2> QED BY <1>1, <1>3, <2>1, ChainImport, AcceptImport, ProcessImport, PtdImport, WriteImport, Zenon
          DEF ImportStep
<1>4. CASE Sweep
  <2>1. ASSUME ProcFutureBlocks PROVE ImportInv'
    BY <1>1, <2>1, StillImport, Zenon DEF ProcFutureBlocks, mem
  <2> QED BY <1>1, <1>4, <2>1, ChainImport, Zenon DEF Sweep
<1>5. CASE ReadPtd("mine") \/ WriteBlockAndState("mine")
  <2>1. "mine" \in Writer
    BY Zenon DEF Writer
  <2> QED BY <1>1, <1>5, <2>1, PtdImport, WriteImport, Zenon
<1>6. CASE \E c \in Chains : InsertChain(c)
  BY <1>1, <1>6, ChainImport, Zenon
<1>7. CASE (\E b \in Mined : CommitNewWork(b)) \/ AbandonWork
  BY <1>1, <1>7, MineImport, Zenon
<1>8. CASE \E b \in Ahead : TimePasses(b)
  BY <1>1, <1>8, StillImport, Zenon DEF TimePasses, mem
<1>9. CASE UNCHANGED vars
  BY <1>1, <1>9, StillImport, Zenon DEF vars, blocks, index, node, writers
<1>10. ~(\E n \in SetHeads : SetHead(n)) /\ ~Crash /\ ~NewBlockChain
  BY Zenon DEF Undisturbed, Crash, NewBlockChain
<1> QED BY <1>2, <1>3, <1>4, <1>5, <1>6, <1>7, <1>8, <1>9, <1>10, Zenon DEF Next, Step

(* The state of a fresh database.                                          *)
LEMMA InitImport == Init /\ TypeOK => ImportInv
<1> SUFFICES ASSUME Init, TypeOK PROVE ImportInv
  BY Zenon
<1>1. TypeOK
  BY Zenon
<1>2. Genesis \in Block /\ number[Genesis] = 0 /\ difficulty[Genesis] \in Nat /\ 0 \in Numbers
  BY TreeAssumption, Zenon DEF Numbers
<1>3. Anc[Genesis] = {Genesis}
  BY AncGenesis, Zenon
<1>4. Stored
  BY <1>2, <1>3, Zenon DEF Init, Stored, Closed, TdSound
<1>5. \A w \in Writer : Caller(w)
  BY Zenon DEF Init, Idle, Caller, Writer
<1>6. StoreInv
  BY <1>4, <1>5, Zenon DEF Init, StoreInv
<1>7. Listed(canon, Anc[Genesis]) /\ (NoReplay => Indexed(lookup, Anc[Genesis]))
  BY <1>2, <1>3, Zenon DEF Init, Listed, Indexed, NoReplay
<1>8. Unlocked /\ holder = "none"
  BY <1>4, <1>7, Zenon DEF Init, Unlocked, Described, Stored
<1> QED BY <1>1, <1>6, <1>8, Zenon DEF ImportInv, Writer

-----------------------------------------------------------------------------
(* Refinement of the fork choice.                                          *)

(* Peers do not offer the blocks that the local miner seals: nobody else   *)
(* has them before WriteBlockAndState returned and they were announced.    *)
(* (A block that is written twice, by two goroutines that both found it    *)
(* missing, would be put to the fork choice twice.)                        *)
Fresh == \A c \in Chains : c \in Seq(Block \ Mined)

(* What insertChain works on comes from peers.                             *)
Offered ==
  /\ rest \in Seq(Block \ Mined)
  /\ futureBlocks \cap Mined = {} /\ sweep \cap Mined = {}
  /\ pc["import"] # "idle" => rest # <<>>
(* The two writers never work on the same block.                           *)
Apart ==
  /\ pc["import"] \in {"process", "ptd", "write", "locked"} => blk["import"] \notin Mined
  /\ pc["mine"] # "idle" => blk["mine"] \in Mined
(* A block that waits for mu is not stored yet.                            *)
Missing == \A w \in Writer : pc[w] \in {"process", "ptd", "write"} => blk[w] \notin headers
(* The block that is written is not the head it was compared with.         *)
Challenged == holder \in Writer => Pending.o # Pending.b
FreshInv == Offered /\ Apart /\ Missing /\ Challenged

(* The bottom of the stack names the block at work and the head it met.    *)
Ends == \A b, o \in Block : Locked(b, o) => Pending.b = b /\ Pending.o = o
-----------------------------------------------------------------------------
LEMMA EndsHolds == TypeOK => Ends
<1> SUFFICES ASSUME TypeOK, NEW b \in Block, NEW o \in Block, Locked(b, o)
             PROVE  Pending.b = b /\ Pending.o = o
  BY Zenon DEF Ends
<1>1. Pending = Op("written", b, o, 0, 0)
  BY Busy, Zenon DEF Based, Pending
<1> QED BY <1>1, Zenon DEF Op

-----------------------------------------------------------------------------
(* What the steps of the critical section leave alone.                     *)

(* Until mu is given back, nothing of insertChain and of the miner moves,  *)
(* and futureBlocks only loses blocks.                                     *)
LEMMA SectionAside ==
  ASSUME Section, holder \in Writer, holder' = holder
  PROVE  /\ UNCHANGED <<pc, blk, ptd, rest, sweep>> /\ futureBlocks' \subseteq futureBlocks
<1>1. holder # "none"
  BY Zenon DEF Writer
<1>2. CASE WriteTd \/ WriteBatch \/ Insert \/ Reorg \/ WriteTxLookupEntries \/ DeleteTxLookupEntries
  BY <1>2, Zenon DEF WriteTd, WriteBatch, Insert, Reorg, WriteTxLookupEntries,
     DeleteTxLookupEntries, writers, import, future
<1>3. CASE WriteHeadBlockHash \/ SetCurrentHeader \/ WriteHeadFastBlockHash \/ WriteGenesis \/ ResetFastHead
  BY <1>3, Zenon DEF WriteHeadBlockHash, SetCurrentHeader, WriteHeadFastBlockHash,
     WriteGenesis, ResetFastHead, writers, import, future
<1>4. CASE BeginSetHead \/ Rewind \/ DeleteBody \/ DeleteHeader \/ DeleteTd \/ DeleteCanonicalHash
           \/ StoreHeader
  BY <1>4, Zenon DEF BeginSetHead, Rewind, DeleteBody, DeleteHeader, DeleteTd,
     DeleteCanonicalHash, StoreHeader, writers, import, future
<1>5. CASE LoadLastState
  BY <1>5, Zenon DEF LoadLastState, writers, import, future
<1>6. CASE RewindBlocks
  <2>1. futureBlocks' = {} /\ UNCHANGED <<writers, import, sweep>>
    BY <1>6, Zenon DEF RewindBlocks
  <2> QED BY <2>1, Zenon DEF writers, import
<1>7. ~(Written \/ Failed \/ Unlock)
  BY <1>1, Zenon DEF Written, Failed, Unlock, Enter
<1> QED BY <1>2, <1>3, <1>4, <1>5, <1>6, <1>7, Zenon DEF Section

(* The block at work is not the other writer's.                            *)
LEMMA OthersMissing ==
  ASSUME ImportInv, FreshInv, holder \in Writer, NEW w \in Writer,
         pc[w] \in {"process", "ptd", "write"}
  PROVE  w # holder /\ blk[w] # blk[holder]
<1>1. pc[holder] = "locked" /\ w # holder
  BY Zenon DEF ImportInv, StoreInv, Caller
<1>2. CASE w = "import" /\ holder = "mine"
  BY <1>1, <1>2, Zenon DEF FreshInv, Apart
<1>3. CASE w = "mine" /\ holder = "import"
  BY <1>1, <1>3, Zenon DEF FreshInv, Apart
<1> QED BY <1>1, <1>2, <1>3, Zenon DEF Writer

LEMMA OnwardFresh ==
  ASSUME ImportInv, FreshInv, Ends, Ends', Section, holder \in Writer,
         NEW b \in Block, NEW o \in Block, blk[holder] = b, Locked(b, o), Onward(b, o)
  PROVE  FreshInv'
<1>1. /\ UNCHANGED <<pc, blk, ptd, rest, sweep>> /\ futureBlocks' \subseteq futureBlocks
      /\ holder' = holder /\ Locked(b, o)' /\ headers' \ {b} = headers \ {b}
  BY SectionAside, Zenon DEF Onward, Grows
<1>2. Offered' /\ Apart'
  BY <1>1, Zenon DEF FreshInv, Offered, Apart
<1>3. Missing'
  <2> SUFFICES ASSUME NEW w \in Writer, pc[w] \in {"process", "ptd", "write"}
               PROVE  blk[w] \notin headers'
    BY <1>1, Zenon DEF Missing
  <2>1. blk[w] # b /\ blk[w] \notin headers
    BY OthersMissing, Zenon DEF FreshInv, Missing
  <2> QED BY <1>1, <2>1, Zenon
<1>4. Challenged'
  BY <1>1, Zenon DEF FreshInv, Challenged, Ends
<1> QED BY <1>2, <1>3, <1>4, Zenon DEF FreshInv

(* WriteBlockAndState returns: insertChain takes its next block.           *)
LEMMA FinishedFresh ==
  ASSUME ImportInv, FreshInv, Section, holder \in Writer,
         NEW b \in Block, NEW o \in Block, AtEnd(b, o), Finished
  PROVE  FreshInv'
<1>1. Written
  BY Zenon DEF Finished
<1>2. /\ blk' = blk /\ sweep' = sweep /\ futureBlocks' \subseteq futureBlocks
      /\ headers' = headers /\ holder' \notin Writer
  BY <1>1, Zenon DEF Written, blocks, Finished, Writer
<1>3. pc \in [Writer -> PcName] /\ "import" \in Writer /\ "mine" \in Writer
      /\ rest \in Seq(Block \ Mined)
  BY Zenon DEF ImportInv, TypeOK, Writer, FreshInv, Offered
<1>4. CASE holder = "import"
  <2>1. /\ pc["import"] = "locked" /\ rest # <<>>
    BY <1>3, <1>4, Zenon DEF ImportInv, StoreInv, Caller, FreshInv, Offered
  <2>2. /\ rest' = Tail(rest)
        /\ pc' = [pc EXCEPT !["import"] = IF Tail(rest) = <<>> THEN "idle" ELSE "next"]
    BY <1>1, <1>4, Zenon DEF Written, Advance
  <2>3. rest' \in Seq(Block \ Mined)
    BY <1>3, <2>1, <2>2
  <2>4. /\ pc'["mine"] = pc["mine"] /\ pc'["import"] \in {"idle", "next"}
        /\ pc'["import"] = "next" => rest' # <<>>
    BY <1>3, <2>2, Zenon
  <2>5. Offered'
    BY <1>2, <2>3, <2>4, Zenon DEF FreshInv, Offered
  <2>6. Apart' /\ Missing'
    BY <1>2, <2>4, Zenon DEF FreshInv, Apart, Missing, Writer
  <2> QED BY <1>2, <2>5, <2>6, Zenon DEF FreshInv, Challenged
<1>5. CASE holder = "mine"
  <2>1. /\ rest' = rest /\ pc' = [pc EXCEPT !["mine"] = "idle"]
    BY <1>1, <1>5, Zenon DEF Written, import
  <2>2. pc'["import"] = pc["import"] /\ pc'["mine"] = "idle"
    BY <1>3, <2>1, Zenon
  <2>3. Offered'
    BY <1>2, <2>1, <2>2, Zenon DEF FreshInv, Offered
  <2>4. Apart' /\ Missing'
    BY <1>2, <2>2, Zenon DEF FreshInv, Apart, Missing, Writer
  <2> QED BY <1>2, <2>3, <2>4, Zenon DEF FreshInv, Challenged
<1> QED BY <1>4, <1>5, Zenon DEF Writer

LEMMA SectionFresh ==
  ASSUME ImportInv, FreshInv, Ends, Ends', Section, Progress
  PROVE  FreshInv'
<1>1. holder \in Writer
  BY Zenon DEF Progress
<1>2. PICK b \in Block, o \in Block :
        /\ blk[holder] = b /\ Locked(b, o)
        /\ Onward(b, o) \/ (AtEnd(b, o) /\ tds[b] = TdOf(b) /\ Finished)
  BY Zenon DEF Progress
<1> QED BY <1>1, <1>2, OnwardFresh, FinishedFresh, Zenon
-----------------------------------------------------------------------------
(* The steps outside the critical section.                                 *)

LEMMA EnterFresh ==
  ASSUME ImportInv, FreshInv, Ends', NEW w \in Writer, WriteBlockAndState(w)
  PROVE  FreshInv'
<1>1. /\ pc[w] = "write" /\ holder' = w /\ UNCHANGED <<headers, currentBlock, blk>>
      /\ holder = "none"
  BY EnterStep, Zenon
<1>2. PICK b \in Block, o \in Block : b = blk[w] /\ o = currentBlock /\ Locked(b, o)'
  BY EnterStep, Zenon
<1>3. Unlocked /\ tds[currentBlock] # NoTd
  BY <1>1 DEF ImportInv, Unlocked, StoreInv, Stored, NoTd
<1>4. pc' = [pc EXCEPT ![w] = "locked"] /\ UNCHANGED <<future, import>>
  BY <1>3, Zenon DEF WriteBlockAndState
<1>5. /\ pc'[w] = "locked" /\ \A u \in Writer \ {w} : pc'[u] = pc[u]
  BY <1>4, Zenon DEF ImportInv, TypeOK
<1>6. Offered'
  BY <1>1, <1>4, <1>5, Zenon DEF FreshInv, Offered, future, import, Writer
<1>7. Apart' /\ Missing'
  BY <1>1, <1>5, Zenon DEF FreshInv, Apart, Missing, Writer
<1>8. b # o
  BY <1>1, <1>2, <1>3, Zenon DEF FreshInv, Missing, Unlocked
<1>9. Challenged'
  BY <1>2, <1>8, Zenon DEF Challenged, Ends
<1> QED BY <1>6, <1>7, <1>9, Zenon DEF FreshInv

(* insertChain moves.                                                      *)
LEMMA ImportMoves ==
  ASSUME ImportInv, FreshInv, UNCHANGED <<headers, todo, holder>>,
         NEW v, pc' = [pc EXCEPT !["import"] = v], blk'["mine"] = blk["mine"],
         rest' \in Seq(Block \ Mined), futureBlocks' \cap Mined = {}, sweep' \cap Mined = {},
         v # "idle" => rest' # <<>>,
         v \in {"process", "ptd", "write", "locked"} =>
           blk'["import"] \notin Mined /\ blk'["import"] \notin headers
  PROVE  FreshInv'
<1>1. pc'["import"] = v /\ pc'["mine"] = pc["mine"]
  BY Zenon DEF ImportInv, TypeOK, Writer
<1>2. Offered'
  BY <1>1, Zenon DEF Offered
<1>3. Apart' /\ Missing'
  BY <1>1, Zenon DEF FreshInv, Apart, Missing, Writer
<1>4. Challenged'
  BY Zenon DEF FreshInv, Challenged, Pending
<1> QED BY <1>2, <1>3, <1>4, Zenon DEF FreshInv

LEMMA StartFresh ==
  ASSUME Fresh, ImportInv, FreshInv,
         (\E c \in Chains : InsertChain(c)) \/ (\E b \in Block : InsertFuture(b))
  PROVE  FreshInv'
<1>1. ASSUME NEW c \in Chains, InsertChain(c)
      PROVE  FreshInv'
  <2>1. /\ c # <<>> /\ pc' = [pc EXCEPT !["import"] = "next"] /\ rest' = c
        /\ UNCHANGED <<headers, todo, holder, blk, futureBlocks, sweep>>
    BY <1>1, Zenon DEF InsertChain, blocks, future
  <2> QED BY <2>1, ImportMoves, Zenon DEF Fresh, FreshInv, Offered
<1>2. ASSUME NEW b \in Block, InsertFuture(b)
      PROVE  FreshInv'
  <2>1. /\ b \in sweep /\ pc' = [pc EXCEPT !["import"] = "next"] /\ rest' = <<b>>
        /\ sweep' \subseteq sweep /\ UNCHANGED <<headers, todo, holder, blk, futureBlocks>>
    BY <1>2, Zenon DEF InsertFuture, blocks
  <2>2. rest' \in Seq(Block \ Mined) /\ rest' # <<>>
    BY <2>1 DEF FreshInv, Offered
  <2>3. sweep' \cap Mined = {} /\ futureBlocks' \cap Mined = {}
    BY <2>1, Zenon DEF FreshInv, Offered
  <2> QED BY <2>1, <2>2, <2>3, ImportMoves, Zenon
<1> QED BY <1>1, <1>2, Zenon

(* A block is skipped or parked, or the import ends.                       *)
LEMMA SkipFresh ==
  ASSUME ImportInv, FreshInv, SkipKnown \/ QueueFuture \/ RejectBlock
  PROVE  FreshInv'
<1>1. pc["import"] = "next" /\ UNCHANGED <<headers, todo, holder, blk, sweep>>
  BY Zenon DEF SkipKnown, QueueFuture, RejectBlock, Turn, blocks, future
<1>2. rest \in Seq(Block \ Mined) /\ rest # <<>> /\ rest[1] \in Block \ Mined
      /\ futureBlocks \cap Mined = {} /\ sweep \cap Mined = {}
  <2>1. rest \in Seq(Block \ Mined) /\ rest # <<>>
    BY <1>1, Zenon DEF FreshInv, Offered
  <2> QED BY <2>1 DEF FreshInv, Offered
<1>3. futureBlocks' \subseteq futureBlocks \cup {rest[1]}
  <2>1. CASE SkipKnown \/ RejectBlock
    BY <2>1, Zenon DEF SkipKnown, RejectBlock, future
  <2>2. CASE QueueFuture
    <3>1. Park(rest[1])
      BY <2>2, Zenon DEF QueueFuture
    <3> QED BY <3>1, Zenon DEF Park
  <2> QED BY <2>1, <2>2, Zenon
<1>4. \/ \E b : Advance(b)
      \/ Abort("import")
  BY Zenon DEF SkipKnown, QueueFuture, RejectBlock
<1>5. PICK v : /\ pc' = [pc EXCEPT !["import"] = v] /\ v \in {"idle", "next"}
               /\ v # "idle" => rest' # <<>>
               /\ rest' = Tail(rest) \/ rest' = <<>>
  BY <1>4, Zenon DEF Advance, Abort
<1>6. rest' \in Seq(Block \ Mined)
  <2>1. Tail(rest) \in Seq(Block \ Mined) /\ <<>> \in Seq(Block \ Mined)
    BY <1>2
  <2> QED BY <1>5, <2>1, Zenon
<1>7. futureBlocks' \cap Mined = {} /\ sweep' \cap Mined = {}
  BY <1>1, <1>2, <1>3, Zenon
<1> QED BY <1>1, <1>5, <1>6, <1>7, ImportMoves, Zenon

(* A block passes its verdict only if it is not stored.                    *)
LEMMA AcceptFresh ==
  ASSUME ImportInv, FreshInv, AcceptBlock
  PROVE  FreshInv'
<1> DEFINE b == rest[1]
<1>1. /\ pc["import"] = "next" /\ pc' = [pc EXCEPT !["import"] = "process"]
      /\ blk' = [blk EXCEPT !["import"] = b] /\ Verdict(b) = "ok"
      /\ UNCHANGED <<headers, todo, holder, rest, futureBlocks, sweep>>
  BY Zenon DEF AcceptBlock, Turn, blocks, future, import
<1>2. rest \in Seq(Block \ Mined) /\ rest # <<>>
      /\ futureBlocks \cap Mined = {} /\ sweep \cap Mined = {}
  BY <1>1, Zenon DEF FreshInv, Offered
<1>3. b \in Block \ Mined
  BY <1>2
<1>4. b \notin headers
  <2>1. ~HasBlockAndState(b)
    BY <1>1, Zenon DEF Verdict
  <2> QED BY <2>1, Zenon DEF HasBlockAndState, Full, ImportInv, StoreInv, Stored
<1> HIDE DEF b
<1>5. blk'["import"] = b /\ blk'["mine"] = blk["mine"]
  BY <1>1, Zenon DEF ImportInv, TypeOK, Writer
<1> QED BY <1>1, <1>2, <1>3, <1>4, <1>5, ImportMoves, Zenon

LEMMA ProcessFresh ==
  ASSUME ImportInv, FreshInv, ProcessBlock
  PROVE  FreshInv'
<1>0. pc["import"] = "process" /\ "import" \in Writer
  BY Zenon DEF ProcessBlock, Writer
<1>1. parent[blk["import"]] \in Full
  BY <1>0, Zenon DEF Full, ImportInv, StoreInv, Stored, Caller
<1>2. PICK v \in {"idle", "ptd"} :
        /\ pc' = [pc EXCEPT !["import"] = v]
        /\ v = "idle" => rest' = <<>>
        /\ v = "ptd" => rest' = rest
        /\ UNCHANGED <<headers, todo, holder, blk, futureBlocks, sweep>>
  BY <1>1, Zenon DEF ProcessBlock, Abort, blocks, future, import
<1>3. /\ rest' \in Seq(Block \ Mined) /\ (v # "idle" => rest' # <<>>)
      /\ futureBlocks' \cap Mined = {} /\ sweep' \cap Mined = {}
  <2>1. <<>> \in Seq(Block \ Mined)
    OBVIOUS
  <2>2. /\ rest \in Seq(Block \ Mined) /\ rest # <<>>
        /\ futureBlocks \cap Mined = {} /\ sweep \cap Mined = {}
    BY <1>0, Zenon DEF FreshInv, Offered
  <2> QED BY <1>2, <2>1, <2>2, Zenon
<1>4. blk'["import"] \notin Mined /\ blk'["import"] \notin headers
  BY <1>0, <1>2, Zenon DEF FreshInv, Apart, Missing
<1> QED BY <1>2, <1>3, <1>4, ImportMoves, Zenon

LEMMA PtdFresh ==
  ASSUME ImportInv, FreshInv, NEW w \in Writer, ReadPtd(w)
  PROVE  FreshInv'
<1>1. pc[w] = "ptd" /\ tds[parent[blk[w]]] # NoTd
  BY DEF ReadPtd, ImportInv, StoreInv, Stored, Caller, NoTd
<1>2. /\ pc' = [pc EXCEPT ![w] = "write"]
      /\ UNCHANGED <<headers, todo, holder, blk, rest, futureBlocks, sweep>>
  BY <1>1, Zenon DEF ReadPtd, blocks, future, import
<1>3. pc'[w] = "write" /\ \A u \in Writer \ {w} : pc'[u] = pc[u]
  BY <1>2, Zenon DEF ImportInv, TypeOK
<1>4. Offered'
  BY <1>1, <1>2, <1>3, Zenon DEF FreshInv, Offered, Writer
<1>5. Apart' /\ Missing'
  BY <1>1, <1>2, <1>3, Zenon DEF FreshInv, Apart, Missing, Writer
<1>6. Challenged'
  BY <1>2, Zenon DEF FreshInv, Challenged, Pending
<1> QED BY <1>4, <1>5, <1>6, Zenon DEF FreshInv

LEMMA MineFresh ==
  ASSUME ImportInv, FreshInv, (\E b \in Mined : CommitNewWork(b)) \/ AbandonWork
  PROVE  FreshInv'
<1>1. PICK v \in {"ptd", "idle"} :
        /\ pc' = [pc EXCEPT !["mine"] = v]
        /\ v = "ptd" => \E b \in Mined : b \notin headers /\ blk' = [blk EXCEPT !["mine"] = b]
        /\ v = "idle" => blk' = blk
        /\ UNCHANGED <<headers, todo, holder, rest, futureBlocks, sweep>>
  BY Zenon DEF CommitNewWork, AbandonWork, blocks, future, import
<1>2. /\ pc'["mine"] = v /\ pc'["import"] = pc["import"] /\ blk'["import"] = blk["import"]
      /\ v = "ptd" => blk'["mine"] \in Mined /\ blk'["mine"] \notin headers
  BY <1>1, Zenon DEF ImportInv, TypeOK, Writer
<1>3. Offered'
  BY <1>1, <1>2, Zenon DEF FreshInv, Offered
<1>4. Apart' /\ Missing'
  BY <1>1, <1>2, Zenon DEF FreshInv, Apart, Missing, Writer
<1>5. Challenged'
  BY <1>1, Zenon DEF FreshInv, Challenged, Pending
<1> QED BY <1>3, <1>4, <1>5, Zenon DEF FreshInv

LEMMA StillFresh ==
  ASSUME FreshInv, UNCHANGED <<headers, todo, holder, pc, blk, rest, futureBlocks>>,
         sweep' = sweep \/ sweep' = futureBlocks
  PROVE  FreshInv'
<1>1. Offered' /\ Apart' /\ Missing'
  BY Zenon DEF FreshInv, Offered, Apart, Missing
<1>2. Challenged'
  BY Zenon DEF FreshInv, Challenged, Pending
<1> QED BY <1>1, <1>2, Zenon DEF FreshInv

(* Every step keeps peers' blocks apart from the miner's.                  *)
LEMMA NextFresh ==
  ASSUME Undisturbed, Fresh, ImportInv, FreshInv, Ends, Ends', [Next]_vars,
         Section => Progress
  PROVE  FreshInv'
<1>1. CASE Section
  BY <1>1, SectionFresh, Zenon
<1>2. CASE ImportStep
  <2>1. "import" \in Writer
    BY Zenon DEF Writer
  <2> QED BY <1>2, <2>1, SkipFresh, AcceptFresh, ProcessFresh, PtdFresh, EnterFresh, Zenon DEF ImportStep
<1>3. CASE Sweep
  <2>1. ASSUME ProcFutureBlocks PROVE FreshInv'
    BY <2>1, StillFresh, Zenon DEF ProcFutureBlocks, blocks, writers, import
  <2> QED BY <1>3, <2>1, StartFresh, Zenon DEF Sweep
<1>4. CASE ReadPtd("mine") \/ WriteBlockAndState("mine")
  <2>1. "mine" \in Writer
    BY Zenon DEF Writer
  <2> QED BY <1>4, <2>1, PtdFresh, EnterFresh, Zenon
<1>5. CASE \E c \in Chains : InsertChain(c)
  BY <1>5, StartFresh, Zenon
<1>6. CASE (\E b \in Mined : CommitNewWork(b)) \/ AbandonWork
  BY <1>6, MineFresh, Zenon
<1>7. CASE \E b \in Ahead : TimePasses(b)
  BY <1>7, StillFresh, Zenon DEF TimePasses, blocks, writers, import
<1>8. CASE UNCHANGED vars
  BY <1>8, StillFresh, Zenon DEF vars
<1>9. ~(\E n \in SetHeads : SetHead(n)) /\ ~Crash /\ ~NewBlockChain
  BY Zenon DEF Undisturbed, Crash, NewBlockChain
<1> QED BY <1>1, <1>2, <1>3, <1>4, <1>5, <1>6, <1>7, <1>8, <1>9, Zenon DEF Next, Step

LEMMA InitFresh == Init => FreshInv
<1> SUFFICES ASSUME Init PROVE FreshInv
  BY Zenon
<1>1. Offered
  BY DEF Init, Offered, Idle, Writer
<1>2. Apart /\ Missing /\ Challenged
  BY Zenon DEF Init, Apart, Missing, Challenged, Idle, Writer
<1> QED BY <1>1, <1>2, Zenon DEF FreshInv
-----------------------------------------------------------------------------
(* The refinement mapping, step by step.                                   *)

(* What readers see when nothing is written.                               *)
LEMMA Unseen ==
  ASSUME UNCHANGED <<blocks, currentBlock, todo, holder>>
  PROVE  UNCHANGED FC!fcvars
<1>1. KnownBlocks' = KnownBlocks /\ tds' = tds /\ Pending' = Pending /\ (Writing' <=> Writing)
      /\ currentBlock' = currentBlock
  BY Zenon DEF blocks, KnownBlocks, Full, Pending, Writing
<1> QED BY <1>1, Zenon DEF FC!fcvars

(* The abstract state: the block at work is not known yet, and the head it *)
(* was compared with is still the best.                                    *)
Mapped ==
  /\ holder \notin Writer => KnownBlocks = headers
  /\ \A b, o \in Block : holder \in Writer /\ Locked(b, o) =>
       KnownBlocks = headers \ {b} /\ Pending.o = o

LEMMA MappedHolds == ImportInv /\ Ends => Mapped
<1> SUFFICES ASSUME ImportInv, Ends PROVE Mapped
  BY Zenon
<1>1. Full = headers
  BY Zenon DEF ImportInv, StoreInv, Stored, Full
<1> QED BY <1>1, Zenon DEF Mapped, KnownBlocks, Writing, Ends

LEMMA SameState ==
  ASSUME KnownBlocks' = KnownBlocks, \A h \in KnownBlocks : tds'[h] = tds[h],
         (IF Writing THEN Pending.o ELSE currentBlock)' = IF Writing THEN Pending.o ELSE currentBlock
  PROVE  UNCHANGED FC!fcvars
BY Zenon DEF FC!fcvars

(* Taking mu is invisible.                                                 *)
LEMMA EnterRefines ==
  ASSUME ImportInv, FreshInv, Mapped, Mapped', NEW w \in Writer, WriteBlockAndState(w)
  PROVE  UNCHANGED FC!fcvars
<1>1. /\ holder = "none" /\ pc[w] = "write" /\ holder' = w
      /\ UNCHANGED <<headers, tds, currentBlock, blk>>
  BY EnterStep, Zenon
<1>2. PICK b \in Block, o \in Block : b = blk[w] /\ o = currentBlock /\ Locked(b, o)'
  BY EnterStep, Zenon
<1>3. b \notin headers /\ "none" \notin Writer
  BY <1>1, <1>2, Zenon DEF FreshInv, Missing, Writer
<1>4. KnownBlocks = headers /\ KnownBlocks' = headers \ {b} /\ Pending'.o = o
  BY <1>1, <1>2, <1>3, Zenon DEF Mapped
<1>5. ~Writing /\ Writing'
  BY <1>1, <1>3, Zenon DEF Writing
<1>6. KnownBlocks' = KnownBlocks
  BY <1>3, <1>4, Zenon
<1> QED BY <1>1, <1>2, <1>4, <1>5, <1>6, SameState, Zenon

(* So is every step of the critical section but the last.                  *)
LEMMA OnwardRefines ==
  ASSUME ImportInv, Mapped, Mapped', holder \in Writer, NEW b \in Block, NEW o \in Block,
         Locked(b, o), Onward(b, o)
  PROVE  UNCHANGED FC!fcvars
<1>1. /\ holder' = holder /\ Locked(b, o)' /\ headers' \ {b} = headers \ {b}
      /\ \A h \in headers : tds'[h] = tds[h]
  BY Zenon DEF Onward, Grows
<1>2. /\ KnownBlocks = headers \ {b} /\ Pending.o = o
      /\ KnownBlocks' = headers' \ {b} /\ Pending'.o = o
  BY <1>1, Zenon DEF Mapped
<1>3. Writing /\ Writing'
  BY <1>1, Zenon DEF Writing
<1> QED BY <1>1, <1>2, <1>3, SameState, Zenon

(* The last one adds the block, by the rule of the fork choice.            *)
LEMMA FinishedRefines ==
  ASSUME ImportInv, FreshInv, Ends, Mapped, Mapped', holder \in Writer,
         NEW b \in Block, NEW o \in Block, blk[holder] = b, Locked(b, o),
         AtEnd(b, o), tds[b] = TdOf(b), Finished
  PROVE  FC!Add(b)
<1> DEFINE wt == [x \in Block |-> IF x \in KnownBlocks THEN tds[x] ELSE 0]
           top == IF Writing THEN Pending.o ELSE currentBlock
<1>1. /\ b \in headers /\ o \in headers /\ o # b /\ parent[b] \in headers /\ parent[b] # b
      /\ headers \subseteq Block
  <2>1. Pending.b = b /\ Pending.o = o
    BY Zenon DEF Ends
  <2>2. o # b
    BY <2>1, Zenon DEF FreshInv, Challenged
  <2>3. b \in headers /\ o \in headers
    BY Zenon DEF AtEnd, Locked
  <2>4. TypeOK /\ StoreInv
    BY Zenon DEF ImportInv
  <2>5. parent[b] \in headers /\ parent[b] # b
    <3>1. Caller(holder)
      BY <2>4, Zenon DEF StoreInv
    <3>2. b # Genesis /\ parent[b] \in headers
      BY <3>1, Zenon DEF Caller
    <3> QED BY <3>2, AncProper, Zenon
  <2> QED BY <2>2, <2>3, <2>4, <2>5, Zenon DEF TypeOK
<1>2. /\ holder' = "none" /\ "none" \notin Writer /\ headers' = headers /\ tds' = tds
      /\ currentBlock' = currentBlock
  BY Zenon DEF Finished, Writer
<1>3. KnownBlocks = headers \ {b} /\ KnownBlocks' = headers /\ top = o /\ top' = currentBlock
  BY <1>2, Zenon DEF Mapped, Writing
<1>4. /\ wt[o] = tds[o] /\ wt[parent[b]] = tds[parent[b]]
  BY <1>1, <1>3, Zenon
<1>5. wt' = [wt EXCEPT ![b] = TdOf(b)]
  BY <1>1, <1>2, <1>3, Zenon
<1>6. /\ b \in Block \ KnownBlocks /\ parent[b] \in KnownBlocks
      /\ KnownBlocks' = KnownBlocks \cup {b}
  BY <1>1, <1>3, Zenon
<1>7. FC!Weight(b) = TdOf(b)
  BY <1>4, Zenon DEF FC!Weight, TdOf
<1>8. number[b] \in Nat /\ number[o] \in Nat
  BY Numbered, Zenon
<1>9. /\ Beats(b, o) <=> FC!Better(b, TdOf(b))
      /\ Holds(b, o) <=> FC!Better(b, TdOf(b)) \/ FC!Even(b, TdOf(b))
  BY <1>3, <1>4, <1>8 DEF FC!Better, FC!Even, Beats, Holds
<1>10. \/ (FC!Better(b, TdOf(b)) \/ FC!Even(b, TdOf(b))) /\ top' = b
       \/ ~FC!Better(b, TdOf(b)) /\ top' = top
  BY <1>3, <1>9, Zenon DEF AtEnd
<1> QED BY <1>5, <1>6, <1>7, <1>10, Zenon DEF FC!Add

(* Which steps touch what the fork choice sees.                            *)
LEMMA Visible ==
  ASSUME Undisturbed, ImportInv, [Next]_vars
  PROVE  \/ Section
         \/ \E w \in Writer : WriteBlockAndState(w)
         \/ UNCHANGED <<blocks, currentBlock, todo, holder>>
<1>0. "import" \in Writer /\ "mine" \in Writer
  BY Zenon DEF Writer
<1>1. CASE SkipKnown \/ QueueFuture \/ RejectBlock \/ AcceptBlock
  BY <1>1, Zenon DEF SkipKnown, QueueFuture, RejectBlock, AcceptBlock, mem
<1>2. CASE ProcessBlock
  <2>1. parent[blk["import"]] \in Full
    BY <1>0, <1>2, Zenon DEF ProcessBlock, Full, ImportInv, StoreInv, Stored, Caller
  <2> QED BY <1>2, <2>1, Zenon DEF ProcessBlock, mem
<1>3. CASE ReadPtd("import") \/ ReadPtd("mine")
  BY <1>3, Zenon DEF ReadPtd, mem
<1>4. CASE Sweep
  BY <1>4, Zenon DEF Sweep, ProcFutureBlocks, InsertFuture, mem
<1>5. CASE \E c \in Chains : InsertChain(c)
  BY <1>5, Zenon DEF InsertChain, mem
<1>6. CASE (\E b \in Mined : CommitNewWork(b)) \/ AbandonWork
  BY <1>6, Zenon DEF CommitNewWork, AbandonWork, mem
<1>7. CASE \E b \in Ahead : TimePasses(b)
  BY <1>7, Zenon DEF TimePasses, mem
<1>8. CASE UNCHANGED vars
  BY <1>8, Zenon DEF vars, blocks
<1>9. ~(\E n \in SetHeads : SetHead(n)) /\ ~Crash /\ ~NewBlockChain
  BY Zenon DEF Undisturbed, Crash, NewBlockChain
<1> QED BY <1>0, <1>1, <1>2, <1>3, <1>4, <1>5, <1>6, <1>7, <1>8, <1>9, Zenon DEF Next, Step, ImportStep

LEMMA NextRefines ==
  ASSUME Undisturbed, ImportInv, FreshInv, Ends, Mapped, Mapped', [Next]_vars,
         Section => Progress
  PROVE  [FC!ChoiceNext]_(FC!fcvars)
<1>1. CASE Section
  <2>1. holder \in Writer
    BY <1>1, Zenon DEF Progress
  <2>2. PICK b \in Block, o \in Block :
          /\ blk[holder] = b /\ Locked(b, o)
          /\ Onward(b, o) \/ (AtEnd(b, o) /\ tds[b] = TdOf(b) /\ Finished)
    BY <1>1, Zenon DEF Progress
  <2>3. UNCHANGED FC!fcvars \/ FC!Add(b)
    BY <2>1, <2>2, OnwardRefines, FinishedRefines, Zenon
  <2> QED BY <2>3, Zenon DEF FC!ChoiceNext
<1>2. CASE \E w \in Writer : WriteBlockAndState(w)
  BY <1>2, EnterRefines, Zenon
<1>3. CASE UNCHANGED <<blocks, currentBlock, todo, holder>>
  BY <1>3, Unseen, Zenon
<1> QED BY <1>1, <1>2, <1>3, Visible, Zenon

LEMMA InitRefines == Init => FC!ChoiceInit
<1> SUFFICES ASSUME Init PROVE FC!ChoiceInit
  BY Zenon
<1>1. KnownBlocks = {Genesis} /\ ~Writing /\ currentBlock = Genesis
  BY Zenon DEF Init, KnownBlocks, Writing, Full, Writer
<1>2. tds = [b \in Block |-> IF b = Genesis THEN difficulty[Genesis] ELSE NoTd]
  BY Zenon DEF Init
<1> QED BY <1>1, <1>2, Zenon DEF FC!ChoiceInit
=============================================================================
