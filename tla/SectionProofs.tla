---------------------------- MODULE SectionProofs ---------------------------
(***************************************************************************)
(* WriteBlockAndState, operation by operation, on every tree of blocks,    *)
(* while nobody calls SetHead and the process does not crash: every step   *)
(* of the goroutine that holds mu leads from one place of ImportInv to     *)
(* another, through a side block, an extension or a reorganisation.        *)
(***************************************************************************)
EXTENDS ImportInvariant, TLAPS

(* The stack of pending operations.                                        *)

LEMMA OpKind ==
  ASSUME NEW name \in OpName, NEW b \in Block, NEW o \in Block, NEW n \in Int, NEW m \in Int
  PROVE  Op(name, b, o, n, m) \in Ops
BY Zenon DEF Op, Ops

(* What WriteBlockAndState may have pending.                               *)
LEMMA BlockOps ==
  ASSUME NEW b \in Block
  PROVE  /\ OfBlock("insert", b) \in Ops /\ OfBlock("lookup", b) \in Ops
         /\ OfBlock("headBlock", b) \in Ops /\ OfBlock("headHeader", b) \in Ops
         /\ OfBlock("headFast", b) \in Ops
         /\ Op("batch", b, b, 0, 0) \in Ops /\ Op("batch", b, b, 0, 1) \in Ops
BY OpKind DEF OpName, OfBlock

LEMMA HeadOps ==
  ASSUME NEW b \in Block, NEW o \in Block
  PROVE  /\ Op("reorg", b, o, 0, 0) \in Ops /\ Op("unlookup", b, o, 0, 0) \in Ops
         /\ Op("written", b, o, 0, 0) \in Ops
BY OpKind DEF OpName

LEMMA StackTypes ==
  ASSUME NEW b \in Block, NEW o \in Block, NEW x \in Block
  PROVE  /\ Ending(b, o) \in Seq(Ops) /\ Inserting(b, o) \in Seq(Ops)
         /\ Batching(b, o) \in Seq(Ops) /\ Forgetting(b, o) \in Seq(Ops)
         /\ Siding(b, o) \in Seq(Ops) /\ Reorging(x, b, o) \in Seq(Ops)
         /\ Indexing(x, b, o) \in Seq(Ops)
<1>0. parent[x] \in Block
  BY TreeAssumption, Zenon
<1>1. Op("written", b, o, 0, 0) \in Ops
  BY HeadOps, Zenon
<1>2. Ending(b, o) \in Seq(Ops)
  BY <1>1 DEF Ending
<1>3. Op("batch", b, b, 0, 0) \in Ops /\ Op("batch", b, b, 0, 1) \in Ops
  BY BlockOps, Zenon
<1>4. OfBlock("insert", b) \in Ops /\ OfBlock("lookup", x) \in Ops
  BY BlockOps, Zenon
<1>5. Op("unlookup", b, o, 0, 0) \in Ops
  BY HeadOps, Zenon
<1>6. Op("reorg", x, o, 0, 0) \in Ops /\ Op("reorg", parent[x], o, 0, 0) \in Ops
  BY <1>0, HeadOps, Zenon
<1>7. Inserting(b, o) \in Seq(Ops) /\ Siding(b, o) \in Seq(Ops)
  BY <1>2, <1>3, <1>4, PushPop, Zenon DEF Inserting, Siding
<1>8. Batching(b, o) \in Seq(Ops)
  BY <1>3, <1>7, PushPop, Zenon DEF Batching
<1>9. Forgetting(b, o) \in Seq(Ops)
  BY <1>5, <1>8, PushPop, Zenon DEF Forgetting
<1>10. Reorging(x, b, o) \in Seq(Ops) /\ Reorging(parent[x], b, o) \in Seq(Ops)
  BY <1>6, <1>9, PushPop, Zenon DEF Reorging
<1>11. Indexing(x, b, o) \in Seq(Ops)
  BY <1>4, <1>10, PushPop, Zenon DEF Indexing
<1> QED BY <1>2, <1>7, <1>8, <1>9, <1>10, <1>11, Zenon

(* The operation on top is replaced by others, or done.                    *)
LEMMA ThenReplace ==
  ASSUME NEW ops, Then(ops)
  PROVE  todo' = Replace(ops, todo) /\ holder' = holder
BY Zenon DEF Then, Replace

LEMMA Top ==
  ASSUME NEW e \in Ops, NEW k \in Seq(Ops), todo = Push(e, k)
  PROVE  todo # <<>> /\ todo[1] = e
BY PushPop, Zenon

LEMMA Done ==
  ASSUME NEW e \in Ops, NEW k \in Seq(Ops), todo = Push(e, k), Then(<<>>)
  PROVE  todo' = k /\ holder' = holder
BY ThenReplace, Replace0, Zenon

(* The operation on top says which step of the critical section is next.   *)
LEMMA Named ==
  /\ WriteTd => At("td")
  /\ WriteBatch => At("batch")
  /\ Insert => At("insert")
  /\ WriteHeadBlockHash => At("headBlock")
  /\ SetCurrentHeader => At("headHeader")
  /\ WriteHeadFastBlockHash => At("headFast")
  /\ Reorg => At("reorg")
  /\ WriteTxLookupEntries => At("lookup")
  /\ DeleteTxLookupEntries => At("unlookup")
  /\ Written => At("written")
  /\ Failed => At("failed")
  /\ BeginSetHead => At("setHead")
  /\ Rewind => At("rewind")
  /\ DeleteBody => At("delBody")
  /\ DeleteHeader => At("delHeader")
  /\ DeleteTd => At("delTd")
  /\ DeleteCanonicalHash => At("delCanon")
  /\ StoreHeader => At("setHeader")
  /\ RewindBlocks => At("rewindBlocks")
  /\ LoadLastState => At("load")
  /\ WriteGenesis => At("putBlock")
  /\ ResetFastHead => At("fastMem")
  /\ Unlock => At("unlock")
BY Zenon DEF WriteTd, WriteBatch, Insert, WriteHeadBlockHash, SetCurrentHeader,
   WriteHeadFastBlockHash, Reorg, WriteTxLookupEntries, DeleteTxLookupEntries, Written, Failed,
   BeginSetHead, Rewind, DeleteBody, DeleteHeader, DeleteTd, DeleteCanonicalHash, StoreHeader,
   RewindBlocks, LoadLastState, WriteGenesis, ResetFastHead, Unlock

LEMMA Dispatch ==
  ASSUME Section
  PROVE  /\ todo[1].op = "td" => WriteTd
         /\ todo[1].op = "batch" => WriteBatch
         /\ todo[1].op = "insert" => Insert
         /\ todo[1].op = "headBlock" => WriteHeadBlockHash
         /\ todo[1].op = "headHeader" => SetCurrentHeader
         /\ todo[1].op = "headFast" => WriteHeadFastBlockHash
         /\ todo[1].op = "reorg" => Reorg
         /\ todo[1].op = "lookup" => WriteTxLookupEntries
         /\ todo[1].op = "unlookup" => DeleteTxLookupEntries
         /\ todo[1].op = "written" => Written
BY Named, Zenon DEF Section, At

-----------------------------------------------------------------------------
(* What the writes of the critical section do to the store.                *)

(* The block at work has a stored parent, of the total difficulty that its *)
(* caller read.                                                            *)
LEMMA AtWork ==
  ASSUME TypeOK, StoreInv, holder \in Writer, NEW b, blk[holder] = b
  PROVE  /\ b \in Block /\ b # Genesis /\ parent[b] \in headers /\ parent[b] \in Block
         /\ parent[b] # b /\ TdOf(b) \in Nat /\ difficulty[b] \in Nat
<1>1. b \in Block /\ difficulty[b] \in Nat /\ parent[b] \in Block
  BY TreeAssumption, Zenon DEF TypeOK
<1>2. Caller(holder) /\ Stored
  BY Zenon DEF StoreInv
<1>3. b # Genesis /\ parent[b] \in headers
  BY <1>2, Zenon DEF Caller
<1>4. tds[parent[b]] \in Nat
  BY <1>2, <1>3, Zenon DEF Stored
<1> QED BY <1>1, <1>3, <1>4, AncProper DEF TdOf

(* Nothing of it changes.                                                  *)
LEMMA KeepStore ==
  ASSUME StoreInv, UNCHANGED <<blocks, node, writers, holder>>
  PROVE  StoreInv'
BY Zenon DEF StoreInv, Stored, Caller, TdSound, blocks, node, writers

(* The total difficulty of a block may be written twice: it is the same.   *)
LEMMA StoreTd ==
  ASSUME TypeOK, StoreInv, holder \in Writer, NEW b, blk[holder] = b,
         tds' = [tds EXCEPT ![b] = TdOf(b)],
         UNCHANGED <<headers, bodies, states, node, writers, holder>>
  PROVE  /\ StoreInv' /\ tds'[b] = TdOf(b) /\ TdOf(b)' = TdOf(b)
         /\ \A h \in headers : tds'[h] = tds[h]
<1>1. /\ b \in Block /\ b # Genesis /\ parent[b] \in headers /\ parent[b] \in Block
      /\ parent[b] # b
  BY AtWork, Zenon
<1>2. tds \in [Block -> Int] /\ headers \subseteq Block
  BY Zenon DEF TypeOK
<1>3. tds'[b] = TdOf(b) /\ \A h \in Block : h # b => tds'[h] = tds[h]
  BY <1>1, <1>2, Zenon
<1>4. b \in headers => tds[b] = TdOf(b)
  BY <1>1, Zenon DEF StoreInv, Stored, TdSound, TdOf
<1>5. \A h \in headers : tds'[h] = tds[h]
  BY <1>2, <1>3, <1>4, Zenon
<1>6. TdOf(b)' = TdOf(b)
  BY <1>1, <1>3, Zenon DEF TdOf
<1>7. Stored'
  <2>1. /\ bodies' = headers' /\ headers' \subseteq states' /\ Genesis \in headers'
        /\ Closed(headers)' /\ \A h \in headers' : tds'[h] \in Nat /\ Genesis \in Anc[h]
    BY <1>5, Zenon DEF StoreInv, Stored, Closed
  <2>2. TdSound'
    BY <1>5, Zenon DEF StoreInv, Stored, TdSound
  <2> QED BY <2>1, <2>2, Zenon DEF Stored
<1>8. \A w \in Writer : Caller(w)'
  BY <1>5, Zenon DEF StoreInv, Caller, writers
<1> QED BY <1>3, <1>5, <1>6, <1>7, <1>8, Zenon DEF StoreInv, node

(* The block joins its parent.                                             *)
LEMMA StoreBlock ==
  ASSUME TypeOK, StoreInv, holder \in Writer, NEW b, blk[holder] = b, tds[b] = TdOf(b),
         headers' = headers \cup {b}, bodies' = bodies \cup {b}, states' = states \cup {b},
         UNCHANGED <<tds, node, writers, holder>>
  PROVE  StoreInv'
<1>1. /\ b \in Block /\ b # Genesis /\ parent[b] \in headers /\ parent[b] \in Block
      /\ TdOf(b) \in Nat
  BY AtWork, Zenon
<1>2. Genesis \in Anc[b]
  BY <1>1, AncStep, Zenon DEF StoreInv, Stored
<1>3. /\ bodies' = headers' /\ headers' \subseteq states' /\ Genesis \in headers'
      /\ \A h \in headers' : tds'[h] \in Nat /\ Genesis \in Anc[h]
  BY <1>1, <1>2, Zenon DEF StoreInv, Stored
<1>4. Closed(headers)'
  BY <1>1, Zenon DEF StoreInv, Stored, Closed
<1>5. TdSound'
  BY <1>1, Zenon DEF StoreInv, Stored, TdSound, TdOf, Closed
<1>6. \A w \in Writer : Caller(w)'
  BY Zenon DEF StoreInv, Caller, writers
<1> QED BY <1>3, <1>4, <1>5, <1>6, Zenon DEF StoreInv, Stored, node

(* A table that lists a set lists its subsets.                             *)
LEMMA ListsLess ==
  ASSUME NEW c, NEW S, NEW T, T \subseteq S, Listed(c, S)
  PROVE  Listed(c, T)
BY Zenon DEF Listed

(* A step that leaves the blocks alone leaves the fork choice alone.       *)
LEMMA SameBlocks ==
  ASSUME StoreInv, UNCHANGED <<blocks, node, writers, holder>>, NEW b, NEW o
  PROVE  /\ StoreInv' /\ headers' = headers /\ blk' = blk
         /\ tds[b] = TdOf(b) => tds'[b] = TdOf(b)'
         /\ Holds(b, o) => Holds(b, o)'
         /\ ~Beats(b, o) => ~Beats(b, o)'
<1>1. StoreInv'
  BY KeepStore, Zenon
<1> QED BY <1>1, Zenon DEF blocks, writers, TdOf, Holds, Beats

-----------------------------------------------------------------------------
(* The operation on top of the stack, and what it does.                    *)

LEMMA DoBatch ==
  ASSUME Section, NEW b \in Block, NEW m \in {0, 1}, NEW k \in Seq(Ops),
         todo = Push(Op("batch", b, b, 0, m), k)
  PROVE  /\ headers' = headers \cup {b} /\ bodies' = bodies \cup {b} /\ states' = states \cup {b}
         /\ lookup' = IF m = 1 THEN Entries(lookup, b) ELSE lookup
         /\ todo' = k /\ UNCHANGED <<tds, canon, currentBlock, node, writers, holder>>
<1>1. Op("batch", b, b, 0, m) \in Ops
  BY OpKind DEF OpName
<1>2. todo[1] = Op("batch", b, b, 0, m)
  BY <1>1, Top, Zenon
<1>3. todo[1].op = "batch" /\ todo[1].b = b /\ todo[1].m = m
  BY <1>2 DEF Op
<1>4. WriteBatch
  BY <1>3, Dispatch, Zenon
<1>5. Then(<<>>)
  BY <1>4, Zenon DEF WriteBatch
<1>6. todo' = k /\ holder' = holder
  BY <1>1, <1>5, Done, Zenon
<1>7. lookup' = IF m = 1 THEN Entries(lookup, b) ELSE lookup
  BY <1>3, <1>4, Zenon DEF WriteBatch, Entries
<1> QED BY <1>3, <1>4, <1>6, <1>7, Zenon DEF WriteBatch, mem

LEMMA DoInsert ==
  ASSUME Section, NEW x \in Block, NEW k \in Seq(Ops), todo = Push(OfBlock("insert", x), k)
  PROVE  /\ canon' = [canon EXCEPT ![number[x]] = x]
         /\ todo' \in Heads(x, k)
         /\ UNCHANGED <<blocks, lookup, currentBlock, node, writers, holder>>
<1> DEFINE u == OfBlock("headBlock", x)
           v == OfBlock("headHeader", x)
           y == OfBlock("headFast", x)
           c == canon[number[x]]
<1>1. /\ OfBlock("insert", x) \in Ops /\ u \in Ops /\ v \in Ops /\ y \in Ops
  BY BlockOps, Zenon
<1>2. todo[1] = OfBlock("insert", x)
  BY <1>1, Top, Zenon
<1>3. todo[1].op = "insert" /\ todo[1].b = x
  BY <1>2 DEF Op, OfBlock
<1>4. Insert
  BY <1>3, Dispatch, Zenon
<1>5. Then(Follow(u, v, y, c, x))
  BY <1>3, <1>4, Zenon DEF Insert, Follow
<1> HIDE DEF u, v, y, c
<1>8. todo' = Replace(Follow(u, v, y, c, x), todo) /\ holder' = holder
  BY <1>5, ThenReplace, Zenon
<1>10. todo' = Push(u, Push(v, Push(y, k))) \/ todo' = Push(u, k)
  BY <1>1, <1>8, Choice
<1>11. todo' \in Heads(x, k)
  BY <1>10, Zenon DEF Heads, Header, Fast, u, v, y
<1> QED BY <1>3, <1>4, <1>8, <1>11, Zenon DEF Insert, mem

LEMMA DoHeadBlock ==
  ASSUME Section, NEW x \in Block, NEW k \in Seq(Ops), todo = Push(OfBlock("headBlock", x), k)
  PROVE  currentBlock' = x /\ todo' = k /\ UNCHANGED <<blocks, index, node, writers, holder>>
<1>1. OfBlock("headBlock", x) \in Ops
  BY BlockOps, Zenon
<1>2. todo[1] = OfBlock("headBlock", x)
  BY <1>1, Top, Zenon
<1>3. todo[1].op = "headBlock" /\ todo[1].b = x
  BY <1>2 DEF Op, OfBlock
<1>4. WriteHeadBlockHash
  BY <1>3, Dispatch, Zenon
<1>5. Then(<<>>)
  BY <1>4, Zenon DEF WriteHeadBlockHash
<1>6. todo' = k /\ holder' = holder
  BY <1>1, <1>5, Done, Zenon
<1> QED BY <1>3, <1>4, <1>6, Zenon DEF WriteHeadBlockHash

LEMMA DoHeadHeader ==
  ASSUME Section, NEW x \in Block, NEW k \in Seq(Ops), todo = Push(OfBlock("headHeader", x), k)
  PROVE  todo' = k /\ UNCHANGED <<blocks, index, currentBlock, node, writers, holder>>
<1>1. OfBlock("headHeader", x) \in Ops
  BY BlockOps, Zenon
<1>2. todo[1] = OfBlock("headHeader", x)
  BY <1>1, Top, Zenon
<1>3. todo[1].op = "headHeader"
  BY <1>2 DEF Op, OfBlock
<1>4. SetCurrentHeader
  BY <1>3, Dispatch, Zenon
<1>5. Then(<<>>)
  BY <1>4, Zenon DEF SetCurrentHeader
<1>6. todo' = k /\ holder' = holder
  BY <1>1, <1>5, Done, Zenon
<1> QED BY <1>4, <1>6, Zenon DEF SetCurrentHeader

LEMMA DoHeadFast ==
  ASSUME Section, NEW x \in Block, NEW k \in Seq(Ops), todo = Push(OfBlock("headFast", x), k)
  PROVE  todo' = k /\ UNCHANGED <<blocks, index, currentBlock, node, writers, holder>>
<1>1. OfBlock("headFast", x) \in Ops
  BY BlockOps, Zenon
<1>2. todo[1] = OfBlock("headFast", x)
  BY <1>1, Top, Zenon
<1>3. todo[1].op = "headFast"
  BY <1>2 DEF Op, OfBlock
<1>4. WriteHeadFastBlockHash
  BY <1>3, Dispatch, Zenon
<1>5. Then(<<>>)
  BY <1>4, Zenon DEF WriteHeadFastBlockHash
<1>6. todo' = k /\ holder' = holder
  BY <1>1, <1>5, Done, Zenon
<1> QED BY <1>4, <1>6, Zenon DEF WriteHeadFastBlockHash

LEMMA DoReorg ==
  ASSUME Section, NEW x \in Block, NEW o \in Block, NEW k \in Seq(Ops),
         todo = Push(Op("reorg", x, o, 0, 0), k)
  PROVE  /\ x \in Anc[o] => todo' = k
         /\ x \notin Anc[o] =>
              todo' = Push(OfBlock("insert", x),
                        Push(OfBlock("lookup", x), Push(Op("reorg", parent[x], o, 0, 0), k)))
         /\ UNCHANGED <<blocks, index, currentBlock, node, writers, holder>>
<1> DEFINE u == OfBlock("insert", x)
           v == OfBlock("lookup", x)
           y == Op("reorg", parent[x], o, 0, 0)
           e == Op("reorg", x, o, 0, 0)
           ops == IF x \in Anc[o] THEN <<>> ELSE <<u, v, y>>
<1>0. parent[x] \in Block
  BY TreeAssumption, Zenon
<1>1. /\ e \in Ops /\ u \in Ops /\ v \in Ops /\ y \in Ops
  BY <1>0, BlockOps, HeadOps, Zenon
<1>2. todo[1] = e
  BY <1>1, Top, Zenon
<1>3. todo[1].op = "reorg" /\ todo[1].b = x /\ todo[1].o = o
  BY <1>2 DEF Op
<1>4. Reorg
  BY <1>3, Dispatch, Zenon
<1>5. Then(ops)
  BY <1>3, <1>4, Zenon DEF Reorg
<1> HIDE DEF u, v, y, e, ops
<1>6. todo' = Replace(ops, todo) /\ holder' = holder
  BY <1>5, ThenReplace, Zenon
<1>7. todo = Push(e, k)
  BY Zenon DEF e
<1>8. /\ Replace(<<u, v, y>>, Push(e, k)) = Push(u, Push(v, Push(y, k)))
      /\ Replace(<<>>, Push(e, k)) = k
  BY <1>1, Replace0, Replace3
<1>9. (x \in Anc[o] => ops = <<>>) /\ (x \notin Anc[o] => ops = <<u, v, y>>)
  BY Zenon DEF ops
<1>10. /\ x \in Anc[o] => todo' = k
       /\ x \notin Anc[o] => todo' = Push(u, Push(v, Push(y, k)))
  BY <1>6, <1>7, <1>8, <1>9, Zenon
<1> QED BY <1>4, <1>6, <1>10, Zenon DEF Reorg, mem, u, v, y

LEMMA DoLookup ==
  ASSUME Section, NEW x \in Block, NEW k \in Seq(Ops), todo = Push(OfBlock("lookup", x), k)
  PROVE  /\ lookup' = Entries(lookup, x) /\ todo' = k
         /\ UNCHANGED <<blocks, canon, currentBlock, node, writers, holder>>
<1>1. OfBlock("lookup", x) \in Ops
  BY BlockOps, Zenon
<1>2. todo[1] = OfBlock("lookup", x)
  BY <1>1, Top, Zenon
<1>3. todo[1].op = "lookup" /\ todo[1].b = x
  BY <1>2 DEF Op, OfBlock
<1>4. WriteTxLookupEntries
  BY <1>3, Dispatch, Zenon
<1>5. Then(<<>>)
  BY <1>4, Zenon DEF WriteTxLookupEntries
<1>6. todo' = k /\ holder' = holder
  BY <1>1, <1>5, Done, Zenon
<1> QED BY <1>3, <1>4, <1>6, Zenon DEF WriteTxLookupEntries, mem, Entries

LEMMA DoUnlookup ==
  ASSUME Section, NEW b \in Block, NEW o \in Block, NEW k \in Seq(Ops),
         todo = Push(Op("unlookup", b, o, 0, 0), k)
  PROVE  /\ lookup' = Without(lookup, b, o) /\ todo' = k
         /\ UNCHANGED <<blocks, canon, currentBlock, node, writers, holder>>
<1>1. Op("unlookup", b, o, 0, 0) \in Ops
  BY HeadOps, Zenon
<1>2. todo[1] = Op("unlookup", b, o, 0, 0)
  BY <1>1, Top, Zenon
<1>3. todo[1].op = "unlookup" /\ todo[1].b = b /\ todo[1].o = o
  BY <1>2 DEF Op
<1>4. DeleteTxLookupEntries
  BY <1>3, Dispatch, Zenon
<1>5. Then(<<>>)
  BY <1>4, Zenon DEF DeleteTxLookupEntries
<1>6. todo' = k /\ holder' = holder
  BY <1>1, <1>5, Done, Zenon
<1> QED BY <1>3, <1>4, <1>6, Zenon DEF DeleteTxLookupEntries, mem, Without

LEMMA TdStep ==
  ASSUME TypeOK, StoreInv, holder \in Writer, NEW b \in Block, blk[holder] = b,
         NEW o \in headers, AtTd(b, o), Section
  PROVE  Onward(b, o)
<1>0. o \in Block /\ TdOf(b) \in Nat
  BY AtWork, Zenon DEF TypeOK
<1>1. PICK k \in {Siding(b, o), Batching(b, o), Reorging(b, b, o)} :
        /\ todo = Push(Op("td", b, b, TdOf(b), 0), k)
        /\ \/ k = Siding(b, o) /\ ~Beats(b, o)
           \/ k = Batching(b, o) /\ parent[b] = o /\ Holds(b, o)
           \/ k = Reorging(b, b, o) /\ Holds(b, o)
  BY Zenon DEF AtTd
<1>a. k \in Seq(Ops)
  BY <1>0, StackTypes, Zenon
<1>2. Op("td", b, b, TdOf(b), 0) \in Ops
  BY <1>0, OpKind DEF OpName
<1>3. todo[1] = Op("td", b, b, TdOf(b), 0)
  BY <1>1, <1>a, <1>2, Top, Zenon
<1>4. todo[1].op = "td" /\ todo[1].b = b /\ todo[1].n = TdOf(b)
  BY <1>3 DEF Op
<1>5. WriteTd
  BY <1>4, Dispatch, Zenon
<1>6. /\ tds' = [tds EXCEPT ![b] = TdOf(b)] /\ todo' = k /\ UNCHANGED <<index, currentBlock>>
      /\ UNCHANGED <<headers, bodies, states, node, writers, holder>>
  <2>1. Then(<<>>)
    BY <1>5, Zenon DEF WriteTd
  <2>2. todo' = k /\ holder' = holder
    BY <1>1, <1>a, <1>2, <2>1, Done, Zenon
  <2> QED BY <1>4, <1>5, <2>2, Zenon DEF WriteTd, mem
<1>7. /\ StoreInv' /\ tds'[b] = TdOf(b) /\ TdOf(b)' = TdOf(b) /\ tds'[o] = tds[o]
      /\ canon' = canon /\ lookup' = lookup /\ currentBlock' = o /\ blk' = blk
  BY <1>6, StoreTd, Zenon DEF index, writers, AtTd
<1>8. (Beats(b, o)' <=> Beats(b, o)) /\ (Holds(b, o)' <=> Holds(b, o))
  BY <1>7, Zenon DEF Beats, Holds
<1>9. Listed(canon, Anc[o]) /\ (NoReplay => Indexed(lookup, Anc[o]))
  BY Zenon DEF AtTd, Described
<1>10. todo' = k /\ headers' = headers /\ holder' = holder
  BY <1>6, Zenon
<1>11. ASSUME k = Siding(b, o), ~Beats(b, o)
       PROVE  Locked(b, o)'
  BY <1>7, <1>8, <1>9, <1>10, <1>11, Zenon DEF Locked, AtSide, Described
<1>12. ASSUME k = Batching(b, o), parent[b] = o, Holds(b, o)
       PROVE  Locked(b, o)'
  BY <1>7, <1>8, <1>9, <1>10, <1>12, Zenon DEF Locked, Adopted, AtBatch
<1>13. ASSUME k = Reorging(b, b, o), Holds(b, o)
       PROVE  Locked(b, o)'
  <2>1. b \in Anc[b] /\ Anc[b] \ Anc[b] = {}
    BY AncClosed, Zenon
  <2>2. NoReplay => Reindexed(lookup, Anc[b] \ Anc[b], Anc[o])
    BY <1>9, <2>1, IndexFirst, Zenon
  <2>3. Listed(canon, Adopting(b, b, o))
    BY <1>9, AdoptFirst, ListsLess, Zenon
  <2>4. AtReorg(b, o)'
    BY <1>7, <1>10, <1>13, <2>1, <2>2, <2>3, Zenon DEF AtReorg
  <2> QED BY <1>7, <1>8, <1>10, <1>13, <2>4, Zenon DEF Locked, Adopted
<1>14. Locked(b, o)'
  BY <1>1, <1>11, <1>12, <1>13, Zenon
<1>15. Grows(b)
  BY <1>6, StoreTd, Zenon DEF Grows
<1> QED BY <1>7, <1>10, <1>14, <1>15, Zenon DEF Onward

(* Most operations of an adoption leave the blocks alone.                  *)
LEMMA GoOn ==
  ASSUME StoreInv, NEW b, NEW o \in headers, tds[b] = TdOf(b), Holds(b, o),
         UNCHANGED <<blocks, node, writers, holder>>,
         AtReorg(b, o)' \/ AtForget(b, o)' \/ AtBatch(b, o)' \/ AtHeads(b, o)' \/ AtEnd(b, o)'
  PROVE  Onward(b, o)
<1>1. /\ StoreInv' /\ headers' = headers /\ blk' = blk /\ tds'[b] = TdOf(b)' /\ Holds(b, o)'
  BY SameBlocks, Zenon
<1>2. Locked(b, o)'
  BY <1>1, Zenon DEF Locked, Adopted
<1>3. Grows(b)
  BY Zenon DEF Grows, blocks
<1> QED BY <1>1, <1>2, <1>3, Zenon DEF Onward

LEMMA SideStep ==
  ASSUME TypeOK, StoreInv, holder \in Writer, NEW b \in Block, blk[holder] = b,
         NEW o \in headers, tds[b] = TdOf(b), AtSide(b, o), Section
  PROVE  Onward(b, o)
<1>0. o \in Block /\ Ending(b, o) \in Seq(Ops)
  BY StackTypes, Zenon DEF TypeOK
<1>1. /\ headers' = headers \cup {b} /\ bodies' = bodies \cup {b} /\ states' = states \cup {b}
      /\ lookup' = lookup /\ todo' = Ending(b, o)
      /\ UNCHANGED <<tds, canon, currentBlock, node, writers, holder>>
  <2>1. todo = Push(Op("batch", b, b, 0, 0), Ending(b, o))
    BY Zenon DEF AtSide, Siding
  <2>2. 0 \in {0, 1} /\ 0 # 1
    OBVIOUS
  <2>3. lookup' = IF 0 = 1 THEN Entries(lookup, b) ELSE lookup
    BY <1>0, <2>1, <2>2, DoBatch, Zenon
  <2>4. /\ headers' = headers \cup {b} /\ bodies' = bodies \cup {b} /\ states' = states \cup {b}
        /\ todo' = Ending(b, o) /\ UNCHANGED <<tds, canon, currentBlock, node, writers, holder>>
    BY <1>0, <2>1, <2>2, DoBatch, Zenon
  <2> QED BY <2>2, <2>3, <2>4, Zenon
<1>2. StoreInv' /\ blk' = blk
  BY <1>1, StoreBlock, Zenon DEF writers
<1>3. currentBlock' = o /\ Described(o)' /\ ~Beats(b, o)'
  BY <1>1, Zenon DEF AtSide, Described, Beats, TdOf
<1>4. AtEnd(b, o)'
  BY <1>1, <1>3, Zenon DEF AtEnd
<1>5. Locked(b, o)'
  BY <1>1, <1>4, Zenon DEF Locked, TdOf
<1>6. Grows(b)
  BY <1>1, Zenon DEF Grows
<1> QED BY <1>1, <1>2, <1>5, <1>6, Zenon DEF Onward

LEMMA ForgetStep ==
  ASSUME TypeOK, StoreInv, holder \in Writer, NEW b \in Block, blk[holder] = b,
         NEW o \in headers, tds[b] = TdOf(b), Holds(b, o), AtForget(b, o), Section
  PROVE  Onward(b, o)
<1>0. o \in Block /\ Batching(b, o) \in Seq(Ops)
  BY StackTypes, Zenon DEF TypeOK
<1>1. /\ lookup' = Without(lookup, b, o) /\ todo' = Batching(b, o)
      /\ UNCHANGED <<blocks, canon, currentBlock, node, writers, holder>>
  BY <1>0, DoUnlookup, Zenon DEF AtForget, Forgetting
<1>2. NoReplay => Indexed(lookup', Anc[b])
  BY <1>0, <1>1, IndexForget, Zenon DEF AtForget
<1>3. Anc[parent[b]] \subseteq Anc[b]
  BY AncStep, Zenon
<1>4. Listed(canon', Anc[parent[b]])
  BY <1>1, <1>3, ListsLess, Zenon DEF AtForget
<1>5. AtBatch(b, o)'
  BY <1>1, <1>2, <1>4, Zenon DEF AtBatch
<1> QED BY <1>1, <1>5, GoOn, Zenon

LEMMA BatchStep ==
  ASSUME TypeOK, StoreInv, holder \in Writer, NEW b \in Block, blk[holder] = b,
         NEW o \in headers, tds[b] = TdOf(b), Holds(b, o), AtBatch(b, o), Section
  PROVE  Onward(b, o)
<1>0. o \in Block /\ Inserting(b, o) \in Seq(Ops)
  BY StackTypes, Zenon DEF TypeOK
<1>1. /\ headers' = headers \cup {b} /\ bodies' = bodies \cup {b} /\ states' = states \cup {b}
      /\ lookup' = Entries(lookup, b) /\ todo' = Inserting(b, o)
      /\ UNCHANGED <<tds, canon, currentBlock, node, writers, holder>>
  BY <1>0, DoBatch, Zenon DEF AtBatch, Batching
<1>2. StoreInv' /\ blk' = blk
  BY <1>1, StoreBlock, Zenon DEF writers
<1>3. Holds(b, o)'
  BY <1>1, Zenon DEF Holds, TdOf
<1>4. NoReplay => Indexed(lookup', Anc[b])
  BY <1>1, IndexHead, Zenon DEF AtBatch
<1>5. AtInsert(b, o)'
  BY <1>1, <1>4, Zenon DEF AtInsert, AtBatch
<1>6. Locked(b, o)'
  BY <1>1, <1>3, <1>5, Zenon DEF Locked, Adopted, TdOf
<1>7. Grows(b)
  BY <1>1, Zenon DEF Grows
<1> QED BY <1>1, <1>2, <1>6, <1>7, Zenon DEF Onward

LEMMA InsertStep ==
  ASSUME TypeOK, StoreInv, holder \in Writer, NEW b \in Block, blk[holder] = b,
         NEW o \in headers, tds[b] = TdOf(b), Holds(b, o), AtInsert(b, o), Section
  PROVE  Onward(b, o)
<1>0. o \in Block /\ Ending(b, o) \in Seq(Ops)
  BY StackTypes, Zenon DEF TypeOK
<1>1. /\ canon' = [canon EXCEPT ![number[b]] = b] /\ todo' \in Heads(b, Ending(b, o))
      /\ UNCHANGED <<blocks, lookup, currentBlock, node, writers, holder>>
  BY <1>0, DoInsert, Zenon DEF AtInsert, Inserting
<1>2. /\ b \in Anc[b] /\ Anc[b] \subseteq Anc[b] /\ Anc[b] \ {b} \subseteq Anc[parent[b]]
  BY AncStep, AncClosed, Zenon
<1>3. canon \in [Numbers -> Block \cup {None}] /\ Listed(canon, Anc[parent[b]])
  BY Zenon DEF TypeOK, AtInsert
<1>4. Listed([canon EXCEPT ![number[b]] = b], Anc[b])
  BY <1>2, <1>3, InsertLists, Zenon
<1>5. b \in headers' /\ Described(b)'
  BY <1>1, <1>4, Zenon DEF AtInsert, Described, blocks
<1>6. AtHeads(b, o)'
  BY <1>1, <1>5, Zenon DEF AtHeads
<1> QED BY <1>1, <1>6, GoOn, Zenon

LEMMA HeadsStep ==
  ASSUME TypeOK, StoreInv, holder \in Writer, NEW b \in Block, blk[holder] = b,
         NEW o \in headers, tds[b] = TdOf(b), Holds(b, o), AtHeads(b, o), Section
  PROVE  Onward(b, o)
<1> DEFINE k == Ending(b, o)
<1>0. o \in Block /\ k \in Seq(Ops)
  BY StackTypes, Zenon DEF TypeOK
<1>1. /\ OfBlock("headHeader", b) \in Ops /\ OfBlock("headFast", b) \in Ops
  BY BlockOps, Zenon
<1>2. Fast(b, k) \in Seq(Ops)
  BY <1>0, <1>1, PushPop, Zenon DEF Fast
<1>3. Header(b, k) \in Seq(Ops)
  BY <1>1, <1>2, PushPop, Zenon DEF Header
<1> HIDE DEF k
<1>4. \/ todo = Push(OfBlock("headBlock", b), Header(b, k))
      \/ todo = Push(OfBlock("headBlock", b), k)
      \/ currentBlock = b /\ todo = Push(OfBlock("headHeader", b), Fast(b, k))
      \/ currentBlock = b /\ todo = Push(OfBlock("headFast", b), k)
  BY Zenon DEF AtHeads, Heads, Header, Fast, k
<1>5. /\ currentBlock' = b /\ (todo' = Header(b, k) \/ todo' = Fast(b, k) \/ todo' = k)
      /\ UNCHANGED <<blocks, index, node, writers, holder>>
  BY <1>0, <1>2, <1>3, <1>4, DoHeadBlock, DoHeadHeader, DoHeadFast, Zenon
<1>6. b \in headers' /\ Described(b)' /\ canon' = canon /\ lookup' = lookup
  BY <1>5, Zenon DEF AtHeads, Described, blocks, index
<1>7. Holds(b, o)'
  BY <1>5, SameBlocks, Zenon
<1>8. AtHeads(b, o)' \/ AtEnd(b, o)'
  BY <1>5, <1>6, <1>7, Zenon DEF AtHeads, AtEnd, Described, k
<1> QED BY <1>5, <1>8, GoOn, Zenon

-----------------------------------------------------------------------------
(* The reorganisation, and the end of the critical section.                *)

(* reorg, at the block x of the new chain.                                 *)
LEMMA WalkStep ==
  ASSUME NEW b \in Block, NEW o \in Block, NEW x \in Anc[b], Section,
         NoReplay => Reindexed(lookup, Anc[b] \ Anc[x], Anc[o]),
         todo = Reorging(x, b, o), Listed(canon, Adopting(x, b, o))
  PROVE  /\ AtReorg(b, o)' \/ AtForget(b, o)'
         /\ UNCHANGED <<blocks, node, writers, holder>>
<1> DEFINE k == Forgetting(b, o)
<1>0. x \in Block /\ k \in Seq(Ops)
  BY AncTrans, StackTypes, Zenon
<1> HIDE DEF k
<1>1. todo = Push(Op("reorg", x, o, 0, 0), k)
  BY Zenon DEF Reorging, k
<1>2. /\ x \in Anc[o] => todo' = k
      /\ x \notin Anc[o] =>
           todo' = Push(OfBlock("insert", x),
                     Push(OfBlock("lookup", x), Push(Op("reorg", parent[x], o, 0, 0), k)))
      /\ UNCHANGED <<blocks, index, currentBlock, node, writers, holder>>
  BY <1>0, <1>1, DoReorg, Zenon
<1>3. canon' = canon /\ lookup' = lookup
  BY <1>2, Zenon DEF index
<1>4. CASE x \in Anc[o]
  <2>1. NoReplay => Leftover(lookup, Anc[b], Anc[o])
    BY <1>4, IndexLast, Zenon
  <2>2. Listed(canon, Anc[b])
    BY <1>4, AdoptLast, ListsLess, Zenon
  <2>3. AtForget(b, o)'
    BY <1>2, <1>3, <1>4, <2>1, <2>2, Zenon DEF AtForget, k
  <2> QED BY <1>2, <2>3, Zenon
<1>5. CASE x \notin Anc[o]
  <2>1. todo' = Push(OfBlock("insert", x), Indexing(x, b, o))
    BY <1>2, <1>5, Zenon DEF Indexing, Reorging, k
  <2>2. AtReorg(b, o)'
    BY <1>3, <1>5, <2>1, Zenon DEF AtReorg
  <2> QED BY <1>2, <2>2, Zenon
<1> QED BY <1>4, <1>5, Zenon

LEMMA AdoptStep ==
  ASSUME TypeOK, NEW b \in Block, NEW o \in Block, NEW x \in Anc[b], Section, x \notin Anc[o],
         NoReplay => Reindexed(lookup, Anc[b] \ Anc[x], Anc[o]),
         todo = Push(OfBlock("insert", x), Indexing(x, b, o)), Listed(canon, Adopting(x, b, o))
  PROVE  AtReorg(b, o)' /\ UNCHANGED <<blocks, node, writers, holder>>
<1>0. x \in Block /\ Indexing(x, b, o) \in Seq(Ops)
  BY AncTrans, StackTypes, Zenon
<1>1. /\ canon' = [canon EXCEPT ![number[x]] = x] /\ todo' \in Heads(x, Indexing(x, b, o))
      /\ UNCHANGED <<blocks, lookup, currentBlock, node, writers, holder>>
  BY <1>0, DoInsert, Zenon
<1>2. canon \in [Numbers -> Block \cup {None}]
  BY Zenon DEF TypeOK
<1>4. Listed([canon EXCEPT ![number[x]] = x], Adopting(parent[x], b, o))
  BY <1>2, AdoptInsert, Zenon
<1>5. AtReorg(b, o)'
  <2>1. Listed(canon', Adopting(parent[x], b, o)) /\ lookup' = lookup
    BY <1>1, <1>4, Zenon
  <2> QED BY <1>1, <2>1, Zenon DEF AtReorg
<1> QED BY <1>1, <1>5, Zenon

LEMMA AdoptHeadsStep ==
  ASSUME NEW b \in Block, NEW o \in Block, NEW x \in Anc[b], Section, x \notin Anc[o],
         NoReplay => Reindexed(lookup, Anc[b] \ Anc[x], Anc[o]),
         \/ todo \in Heads(x, Indexing(x, b, o)) \/ todo = Header(x, Indexing(x, b, o))
         \/ todo = Fast(x, Indexing(x, b, o)),
         Listed(canon, Adopting(parent[x], b, o))
  PROVE  AtReorg(b, o)' /\ UNCHANGED <<blocks, node, writers, holder>>
<1> DEFINE k == Indexing(x, b, o)
<1>0. x \in Block /\ k \in Seq(Ops)
  BY AncTrans, StackTypes, Zenon
<1>1. /\ OfBlock("headHeader", x) \in Ops /\ OfBlock("headFast", x) \in Ops
  BY <1>0, BlockOps, Zenon
<1> HIDE DEF k
<1>2. Fast(x, k) \in Seq(Ops)
  BY <1>0, <1>1, PushPop, Zenon DEF Fast
<1>3. Header(x, k) \in Seq(Ops)
  BY <1>1, <1>2, PushPop, Zenon DEF Header
<1>4. \/ todo = Push(OfBlock("headBlock", x), Header(x, k))
      \/ todo = Push(OfBlock("headBlock", x), k)
      \/ todo = Push(OfBlock("headHeader", x), Fast(x, k))
      \/ todo = Push(OfBlock("headFast", x), k)
  BY Zenon DEF Heads, Header, Fast, k
<1>5. /\ todo' = Header(x, k) \/ todo' = Fast(x, k) \/ todo' = k
      /\ UNCHANGED <<blocks, index, node, writers, holder>>
  BY <1>0, <1>2, <1>3, <1>4, DoHeadBlock, DoHeadHeader, DoHeadFast, Zenon
<1>6. canon' = canon /\ lookup' = lookup
  BY <1>5, Zenon DEF index
<1>7. AtReorg(b, o)'
  BY <1>5, <1>6, Zenon DEF AtReorg, k
<1> QED BY <1>5, <1>7, Zenon

LEMMA AdoptIndexStep ==
  ASSUME NEW b \in Block, NEW o \in Block, NEW x \in Anc[b], Section, x # Genesis,
         NoReplay => Reindexed(lookup, Anc[b] \ Anc[x], Anc[o]),
         todo = Indexing(x, b, o), Listed(canon, Adopting(parent[x], b, o))
  PROVE  AtReorg(b, o)' /\ UNCHANGED <<blocks, node, writers, holder>>
<1>0. x \in Block /\ parent[x] \in Block /\ parent[x] \in Anc[b] /\ Anc[x] \subseteq Anc[b]
  BY AncTrans, Zenon
<1>1. Reorging(parent[x], b, o) \in Seq(Ops)
  BY <1>0, StackTypes, Zenon
<1>2. /\ lookup' = Entries(lookup, x) /\ todo' = Reorging(parent[x], b, o)
      /\ UNCHANGED <<blocks, canon, currentBlock, node, writers, holder>>
  BY <1>0, <1>1, DoLookup, Zenon DEF Indexing
<1>3. Anc[b] \ Anc[parent[x]] = (Anc[b] \ Anc[x]) \cup {x}
  <2>1. Anc[x] = {x} \cup Anc[parent[x]] /\ x \notin Anc[parent[x]]
    BY <1>0, AncStep, AncProper, Zenon
  <2> QED BY <2>1, Zenon
<1>4. NoReplay => Reindexed(lookup', Anc[b] \ Anc[parent[x]], Anc[o])
  BY <1>2, <1>3, IndexNext, Zenon
<1>5. AtReorg(b, o)'
  BY <1>0, <1>2, <1>4, Zenon DEF AtReorg
<1> QED BY <1>2, <1>5, Zenon

LEMMA ReorgStep ==
  ASSUME TypeOK, StoreInv, holder \in Writer, NEW b \in Block, blk[holder] = b,
         NEW o \in headers, tds[b] = TdOf(b), Holds(b, o), AtReorg(b, o), Section
  PROVE  Onward(b, o)
<1>0. o \in Block /\ Genesis \in Anc[o]
  BY Zenon DEF TypeOK, StoreInv, Stored
<1>1. PICK x \in Anc[b] :
        /\ NoReplay => Reindexed(lookup, Anc[b] \ Anc[x], Anc[o])
        /\ \/ todo = Reorging(x, b, o) /\ Listed(canon, Adopting(x, b, o))
           \/ /\ x \notin Anc[o]
              /\ todo = Push(OfBlock("insert", x), Indexing(x, b, o))
              /\ Listed(canon, Adopting(x, b, o))
           \/ /\ x \notin Anc[o]
              /\ \/ todo \in Heads(x, Indexing(x, b, o)) \/ todo = Header(x, Indexing(x, b, o))
                 \/ todo = Fast(x, Indexing(x, b, o)) \/ todo = Indexing(x, b, o)
              /\ Listed(canon, Adopting(parent[x], b, o))
  BY Zenon DEF AtReorg
<1>2. x \notin Anc[o] => x # Genesis
  BY <1>0, Zenon
<1>3. /\ AtReorg(b, o)' \/ AtForget(b, o)'
      /\ UNCHANGED <<blocks, node, writers, holder>>
  BY <1>0, <1>1, <1>2, WalkStep, AdoptStep, AdoptHeadsStep, AdoptIndexStep, Zenon
<1> QED BY <1>3, GoOn, Zenon


LEMMA EndStep ==
  ASSUME TypeOK, StoreInv, holder \in Writer, NEW b \in Block, blk[holder] = b,
         NEW o \in headers, AtEnd(b, o), Section
  PROVE  Finished
<1>1. todo[1] = Op("written", b, o, 0, 0)
  BY Zenon DEF AtEnd, Ending
<1>2. todo[1].op = "written"
  BY <1>1 DEF Op
<1>3. Written
  BY <1>2, Dispatch, Zenon
<1>4. /\ todo' = <<>> /\ holder' = "none"
      /\ UNCHANGED <<headers, bodies, states, tds, canon, lookup, currentBlock, up, panicked>>
      /\ UNCHANGED <<blk, ptd>>
  BY <1>3, Zenon DEF Written, Enter, blocks, index, mem, node
<1>5. PICK v \in {"idle", "next"} : pc' = [pc EXCEPT ![holder] = v]
  BY <1>3, Zenon DEF Written, Advance, Writer
<1>6. Unlocked'
  BY <1>4, Zenon DEF AtEnd, Unlocked, Described
<1>7. Stored'
  BY <1>4, Zenon DEF StoreInv, Stored, Closed, TdSound
<1>8. ASSUME NEW w \in Writer
      PROVE  Caller(w)'
  <2>1. Caller(w) /\ pc \in [Writer -> PcName]
    BY Zenon DEF StoreInv, TypeOK
  <2>2. CASE w = holder
    BY <1>4, <1>5, <2>1, <2>2, Zenon DEF Caller, Writer
  <2>3. CASE w # holder
    <3>1. pc'[w] = pc[w] /\ pc[w] # "locked" /\ holder' # w
      BY <1>4, <1>5, <2>1, <2>3, Zenon DEF Caller, Writer
    <3> QED BY <1>4, <2>1, <3>1, Zenon DEF Caller
  <2> QED BY <2>2, <2>3, Zenon
<1> QED BY <1>3, <1>4, <1>6, <1>7, <1>8, Zenon DEF Finished, StoreInv

(* Every step of the critical section.                                     *)
LEMMA SectionStep ==
  ASSUME ImportInv, Section
  PROVE  Progress
<1>1. todo # <<>>
  BY Named, Zenon DEF Section, At
<1>2. holder \in Writer /\ TypeOK /\ StoreInv
  BY <1>1, Zenon DEF ImportInv, StoreInv, Unlocked
<1>3. PICK b \in Block, o \in Block : blk[holder] = b /\ Locked(b, o)
  BY <1>2, Zenon DEF ImportInv
<1>4. o \in headers
  BY <1>3, Zenon DEF Locked
<1>5. AtTd(b, o) => Onward(b, o)
  BY <1>2, <1>3, <1>4, TdStep, Zenon
<1>6. tds[b] = TdOf(b) /\ AtSide(b, o) => Onward(b, o)
  BY <1>2, <1>3, <1>4, SideStep, Zenon
<1>7. tds[b] = TdOf(b) /\ Adopted(b, o) => Onward(b, o)
  BY <1>2, <1>3, <1>4, ReorgStep, ForgetStep, BatchStep, InsertStep, HeadsStep, Zenon DEF Adopted
<1>8. AtEnd(b, o) => Finished
  BY <1>2, <1>3, <1>4, EndStep, Zenon
<1>9. Onward(b, o) \/ (AtEnd(b, o) /\ tds[b] = TdOf(b) /\ Finished)
  BY <1>3, <1>5, <1>6, <1>7, <1>8, Zenon DEF Locked
<1> QED BY <1>2, <1>3, <1>9, Zenon DEF Progress
=============================================================================
