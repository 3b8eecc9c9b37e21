------------------------------ MODULE TdProofs ------------------------------
(***************************************************************************)
(* No order of database writes leaves a stored header without its total    *)
(* difficulty.  HeadersHaveTd is not inductive: it depends on what the     *)
(* owner of mu is still going to write.  TdInv says which pending writes   *)
(* may follow which.                                                       *)
(***************************************************************************)
EXTENDS BlockChainProofs

USE DEF blocks, index, hashes, mem, future, node, writers, import

(* What a pending operation may be: a total difficulty that is one, a      *)
(* rewind to a height, a deletion above the genesis block, the genesis     *)
(* block itself; blocks are written by the callers of WriteBlockAndState,  *)
(* and deleted by SetHead and Reset only.                                  *)
OpOK(e, h) ==
  /\ e.op \in {"td", "setHead", "rewind"} => e.n \in Nat
  /\ e.op \in {"delHeader", "delTd"} => e.b # Genesis
  /\ e.op = "putBlock" => e.b = Genesis
  /\ e.op = "batch" => h \in Writer
  /\ e.op \in {"setHead", "rewind", "delHeader", "delTd", "load"} => h \notin Writer

(* A block waits to be written only behind its total difficulty, and a     *)
(* total difficulty to be deleted only behind its header.                  *)
Ordered ==
  \A i \in 1..Len(todo) :
    /\ OpOK(todo[i], holder)
    /\ todo[i].op = "batch" =>
         tds[todo[i].b] # NoTd \/ (todo[1].op = "td" /\ todo[1].b = todo[i].b)
    /\ todo[i].op = "delTd" =>
         \/ todo[i].b \notin headers
         \/ i > 1 /\ todo[i-1].op = "delHeader" /\ todo[i-1].b = todo[i].b

TdInv ==
  /\ TypeInv
  /\ HeadersHaveTd
  /\ tds \in [Block -> Nat \cup {NoTd}] /\ tds[Genesis] # NoTd
  /\ ptd \in [Writer -> Nat]
  /\ Ordered

(* The pending operations, one by one, when the first is replaced.         *)
LEMMA ThenIndex ==
  ASSUME TypeInv, NEW name, At(name), NEW ops \in Seq(Ops), Then(ops)
  PROVE  /\ Len(todo) \in Nat \ {0} /\ Len(ops) \in Nat
         /\ Len(todo') = Len(ops) + Len(todo) - 1
         /\ \A i \in 1..Len(todo') :
              todo'[i] = IF i <= Len(ops) THEN ops[i] ELSE todo[i - Len(ops) + 1]
         /\ holder' = holder
         /\ todo[1].op = name
<1>1. todo \in Seq(Ops) /\ todo # <<>> /\ todo[1].op = name
  BY Zenon DEF TypeInv, Typed, At
<1>2. todo' = ops \o Tail(todo) /\ holder' = holder
  BY Zenon DEF Then
<1> QED BY <1>1, <1>2

(* The operation at work, name, is done: the others are as they were, each *)
(* one place further up.                                                   *)
Shifted(name) ==
  /\ Len(todo) \in Nat \ {0} /\ Len(todo') = Len(todo) - 1
  /\ 1 \in 1..Len(todo) /\ todo[1].op = name /\ todo[1].b \in Block
  /\ holder' = holder
  /\ \A i \in 1..Len(todo') :
       /\ i \in Nat /\ i + 1 \in 1..Len(todo) /\ i + 1 > 1 /\ (i + 1) - 1 = i
       /\ todo'[i] = todo[i+1]

(* An operation that leaves nothing behind shifts the pending ones.        *)
LEMMA ThenShift ==
  ASSUME TypeInv, NEW name, At(name), Then(<<>>)
  PROVE  Shifted(name)
<1>1. todo \in Seq(Ops) /\ todo # <<>> /\ todo[1].op = name
  BY Zenon DEF TypeInv, Typed, At
<1>2. todo' = <<>> \o Tail(todo) /\ holder' = holder
  BY Zenon DEF Then
<1>3. <<>> \o Tail(todo) = Tail(todo)
  BY <1>1
<1>4. Len(todo) \in Nat \ {0} /\ Len(todo') = Len(todo) - 1 /\ 1 \in 1..Len(todo)
  BY <1>1, <1>2, <1>3
<1>5. ASSUME NEW i \in 1..Len(todo') PROVE i \in Nat /\ i + 1 \in 1..Len(todo)
                                           /\ i + 1 > 1 /\ (i + 1) - 1 = i
  BY <1>4
<1>6. ASSUME NEW i \in 1..Len(todo') PROVE todo'[i] = todo[i+1]
  BY <1>1, <1>2, <1>3
<1>7. todo[1].b \in Block
  BY FirstOp, Zenon DEF TypeInv
<1> QED BY <1>1, <1>2, <1>4, <1>5, <1>6, <1>7, Zenon DEF Shifted

(* An empty list of pending operations is in order.                        *)
LEMMA EmptyOrdered ==
  ASSUME todo' = <<>>
  PROVE  Ordered'
BY DEF Ordered

(* Where headers and total difficulties stay, only the order is at stake.  *)
LEMMA KeepTd ==
  ASSUME TdInv, TypeInv', Ordered', UNCHANGED <<headers, tds, ptd>>
  PROVE  TdInv'
BY Zenon DEF TdInv, HeadersHaveTd

(* Operations, left behind by h, that are in order among themselves.       *)
InOrder(ops, h) ==
  \A k \in 1..Len(ops) :
    /\ OpOK(ops[k], h) /\ ops[k].op # "batch"
    /\ ops[k].op = "delTd" => k > 1 /\ ops[k-1].op = "delHeader" /\ ops[k-1].b = ops[k].b

(* An operation that neither stores nor deletes, and leaves behind         *)
(* operations that are in order among themselves, keeps the order.         *)
LEMMA HarmlessOrdered ==
  ASSUME TdInv, NEW name, name # "td", name # "delHeader", At(name),
         NEW ops \in Seq(Ops), Then(ops), UNCHANGED <<headers, tds>>, InOrder(ops, holder)
  PROVE  Ordered'
<1>1. /\ Len(todo) \in Nat \ {0} /\ Len(ops) \in Nat
      /\ Len(todo') = Len(ops) + Len(todo) - 1
      /\ \A i \in 1..Len(todo') :
           todo'[i] = IF i <= Len(ops) THEN ops[i] ELSE todo[i - Len(ops) + 1]
      /\ holder' = holder
      /\ todo[1].op = name
  BY ThenIndex, Zenon DEF TdInv
<1> SUFFICES ASSUME NEW i \in 1..Len(todo')
             PROVE  /\ OpOK(todo'[i], holder')
                    /\ todo'[i].op = "batch" =>
                         \/ tds'[todo'[i].b] # NoTd
                         \/ todo'[1].op = "td" /\ todo'[1].b = todo'[i].b
                    /\ todo'[i].op = "delTd" =>
                         \/ todo'[i].b \notin headers'
                         \/ i > 1 /\ todo'[i-1].op = "delHeader" /\ todo'[i-1].b = todo'[i].b
  BY Zenon DEF Ordered
<1>2. CASE i <= Len(ops)
  <2>1. i \in 1..Len(ops) /\ todo'[i] = ops[i]
    BY <1>1, <1>2
  <2>2. i > 1 => i - 1 \in 1..Len(todo') /\ i - 1 <= Len(ops) /\ todo'[i-1] = ops[i-1]
    BY <1>1, <1>2
  <2> QED BY <1>1, <2>1, <2>2, Zenon DEF OpOK, InOrder
<1>3. CASE i > Len(ops)
  <2>1. PICK k \in 2..Len(todo) : k = i - Len(ops) + 1 /\ todo'[i] = todo[k]
    <3>1. /\ Len(todo) \in Nat /\ Len(ops) \in Nat /\ i \in Nat
          /\ i <= Len(ops) + Len(todo) - 1
      BY <1>1
    <3>2. i - Len(ops) + 1 \in 2..Len(todo) /\ ~(i <= Len(ops))
      BY <1>3, <3>1, SMTT(30)
    <3>3. todo'[i] = todo[i - Len(ops) + 1]
      BY <1>1, <3>2, Zenon
    <3> QED BY <3>2, <3>3, Zenon
  <2>2. /\ OpOK(todo[k], holder)
        /\ todo[k].op = "batch" =>
             tds[todo[k].b] # NoTd \/ (todo[1].op = "td" /\ todo[1].b = todo[k].b)
        /\ todo[k].op = "delTd" =>
             \/ todo[k].b \notin headers
             \/ k > 1 /\ todo[k-1].op = "delHeader" /\ todo[k-1].b = todo[k].b
    BY <1>1, <2>1 DEF TdInv, Ordered
  <2>3. OpOK(todo'[i], holder')
    BY <1>1, <2>1, <2>2, Zenon DEF OpOK
  <2>4. todo'[i].op = "batch" => tds'[todo'[i].b] # NoTd
    BY <1>1, <2>1, <2>2, Zenon
  <2>5. ASSUME todo'[i].op = "delTd", todo'[i].b \in headers'
        PROVE  i > 1 /\ todo'[i-1].op = "delHeader" /\ todo'[i-1].b = todo'[i].b
    <3>1. todo[k-1].op = "delHeader" /\ todo[k-1].b = todo[k].b
      BY <2>1, <2>2, <2>5, Zenon
    <3>2. k - 1 # 1
      BY <1>1, <3>1, Zenon
    <3>3. i - 1 \in 1..Len(todo') /\ i - 1 > Len(ops) /\ (i - 1) - Len(ops) + 1 = k - 1
      <4>1. /\ Len(todo) \in Nat /\ Len(ops) \in Nat /\ Len(todo') = Len(ops) + Len(todo) - 1
        BY <1>1, Zenon
      <4> QED BY <2>1, <3>2, <4>1, SMTT(30)
    <3>4. i > 1 /\ ~(i - 1 <= Len(ops))
      BY <1>1, <3>3
    <3>5. todo'[i-1] = todo[k-1]
      BY <1>1, <3>3, <3>4, Zenon
    <3> QED BY <2>1, <3>1, <3>4, <3>5, Zenon
  <2> QED BY <2>3, <2>4, <2>5, Zenon
<1> QED BY <1>1, <1>2, <1>3

(* A total difficulty waits to be deleted behind its header still, unless  *)
(* that header is gone.                                                    *)
LEMMA ShiftDeletion ==
  ASSUME TdInv, NEW name, Shifted(name), headers' \subseteq headers \cup {Genesis},
         name = "delHeader" => todo[1].b \notin headers',
         NEW i \in 1..Len(todo'), todo'[i].op = "delTd", todo'[i].b \in headers'
  PROVE  i > 1 /\ todo'[i-1].op = "delHeader" /\ todo'[i-1].b = todo'[i].b
<1>1. i + 1 \in 1..Len(todo) /\ i + 1 > 1 /\ (i + 1) - 1 = i /\ todo'[i] = todo[i+1]
  BY Zenon DEF Shifted
<1>2. /\ todo[i+1].b # Genesis
      /\ todo[i+1].b \notin headers \/ (todo[i].op = "delHeader" /\ todo[i].b = todo[i+1].b)
  BY <1>1, Zenon DEF TdInv, Ordered, OpOK
<1>3. i # 1 /\ todo[i].op = "delHeader" /\ todo[i].b = todo[i+1].b
  BY <1>1, <1>2, Zenon DEF Shifted
<1>4. i - 1 \in 1..Len(todo') /\ (i - 1) + 1 = i /\ i > 1
  BY <1>3 DEF Shifted
<1>5. todo'[i-1] = todo[(i-1) + 1]
  BY <1>4, Zenon DEF Shifted
<1> QED BY <1>1, <1>3, <1>4, <1>5, Zenon

(* A block waits to be written behind its total difficulty still, unless   *)
(* that is there.                                                          *)
LEMMA ShiftBatch ==
  ASSUME TdInv, NEW name, Shifted(name), \A x \in Block : tds[x] # NoTd => tds'[x] # NoTd,
         name = "td" => tds'[todo[1].b] # NoTd,
         NEW i \in 1..Len(todo'), todo'[i].op = "batch"
  PROVE  tds'[todo'[i].b] # NoTd
<1>1. i + 1 \in 1..Len(todo) /\ todo'[i] = todo[i+1]
  BY Zenon DEF Shifted
<1>2. todo[i+1] \in Ops
  BY <1>1 DEF TdInv, TypeInv, Typed
<1>3. todo[i+1].b \in Block
  BY <1>2, Zenon DEF Ops
<1>4. tds[todo[i+1].b] # NoTd \/ (todo[1].op = "td" /\ todo[1].b = todo[i+1].b)
  BY <1>1, Zenon DEF TdInv, Ordered
<1> QED BY <1>1, <1>3, <1>4, Zenon DEF Shifted

(* So the pending operations stay in order when one of them is done.       *)
LEMMA ShiftOrdered ==
  ASSUME TdInv, NEW name, Shifted(name),
         holder \notin Writer => headers' \subseteq headers \cup {Genesis},
         name = "delHeader" => todo[1].b \notin headers',
         holder \in Writer => \A x \in Block : tds[x] # NoTd => tds'[x] # NoTd,
         name = "td" => tds'[todo[1].b] # NoTd
  PROVE  Ordered'
<1> SUFFICES ASSUME NEW i \in 1..Len(todo')
             PROVE  /\ OpOK(todo'[i], holder')
                    /\ todo'[i].op = "batch" => tds'[todo'[i].b] # NoTd
                    /\ todo'[i].op = "delTd" =>
                         \/ todo'[i].b \notin headers'
                         \/ i > 1 /\ todo'[i-1].op = "delHeader" /\ todo'[i-1].b = todo'[i].b
  BY Zenon DEF Ordered
<1>1. OpOK(todo'[i], holder') /\ holder' = holder
  BY Zenon DEF TdInv, Ordered, Shifted
<1>2. CASE holder \in Writer
  <2>1. todo'[i].op # "delTd"
    BY <1>1, <1>2, Zenon DEF OpOK
  <2> QED BY <1>1, <1>2, <2>1, ShiftBatch, Zenon
<1>3. CASE holder \notin Writer
  <2>1. todo'[i].op # "batch"
    BY <1>1, <1>3, Zenon DEF OpOK
  <2> QED BY <1>1, <1>3, <2>1, ShiftDeletion, Zenon
<1> QED BY <1>2, <1>3, Zenon

(* A step that neither stores nor deletes, and leaves nothing behind.      *)
LEMMA DoneTd ==
  ASSUME TdInv, TypeInv', NEW name, name # "td", name # "delHeader", At(name), Then(<<>>),
         UNCHANGED <<headers, tds, ptd>>
  PROVE  TdInv'
<1>1. Shifted(name)
  BY ThenShift, Zenon DEF TdInv
<1>2. Ordered'
  BY <1>1, ShiftOrdered, Zenon
<1> QED BY <1>2, KeepTd, Zenon

(* The writes of WriteBlockAndState: a total difficulty, then operations   *)
(* on the same block of which none deletes.                                *)
LEMMA WriteOrdered ==
  ASSUME NEW b \in Block, NEW td \in Nat, NEW w \in Writer,
         NEW ops \in Seq({e \in Ops : e.b = b /\ e.op \in {"failed", "reorg", "unlookup",
                                                          "batch", "insert", "written"}}),
         todo' = TdFirst(b, td, ops), holder' = w
  PROVE  Ordered'
<1> DEFINE E == {e \in Ops : e.b = b /\ e.op \in {"failed", "reorg", "unlookup", "batch",
                                                  "insert", "written"}}
           first == Op("td", b, b, td, 0)
<1>1. todo' = <<first>> \o ops
  BY Zenon DEF TdFirst
<1>2. first.op = "td" /\ first.b = b /\ first.n = td
  BY Zenon DEF Op
<1>3. /\ Len(todo') = Len(ops) + 1 /\ Len(ops) \in Nat
      /\ todo'[1] = first
      /\ \A i \in 2..Len(todo') : todo'[i] = ops[i-1] /\ i - 1 \in 1..Len(ops)
  BY <1>1
<1>4. \A k \in 1..Len(ops) : ops[k] \in E
  OBVIOUS
<1> SUFFICES ASSUME NEW i \in 1..Len(todo')
             PROVE  /\ OpOK(todo'[i], holder')
                    /\ todo'[i].op = "batch" => todo'[1].op = "td" /\ todo'[1].b = todo'[i].b
                    /\ todo'[i].op # "delTd"
  BY Zenon DEF Ordered
<1>5. CASE i = 1
  BY <1>2, <1>3, <1>5, Zenon DEF OpOK
<1>6. CASE i # 1
  <2>1. i \in 2..Len(todo')
    BY <1>3, <1>6
  <2>2. todo'[i] \in E
    BY <1>3, <1>4, <2>1, Zenon
  <2> QED BY <1>2, <1>3, <2>2, Zenon DEF OpOK
<1> QED BY <1>5, <1>6, Zenon

(* WriteBlockAndState and the read before it keep the invariant.           *)
LEMMA WriterTd ==
  ASSUME TdInv, NEW w \in Writer, ReadPtd(w) \/ WriteBlockAndState(w)
  PROVE  TdInv'
<1>0. TypeInv' /\ Typed
  BY WriterType, Zenon DEF TdInv, TypeInv
<1>b. blk[w] \in Block /\ parent[blk[w]] \in Block /\ difficulty[blk[w]] \in Nat
  BY <1>0, TreeAssumption, Zenon DEF Typed
<1>1. CASE ReadPtd(w)
  <2>1. ptd' \in [Writer -> Nat]
    <3>1. tds[parent[blk[w]]] \in Nat \cup {NoTd} /\ ptd \in [Writer -> Nat]
      BY <1>b, Zenon DEF TdInv
    <3>2. \/ UNCHANGED ptd
          \/ /\ tds[parent[blk[w]]] # NoTd
             /\ ptd' = [ptd EXCEPT ![w] = tds[parent[blk[w]]]]
      BY <1>1, Zenon DEF ReadPtd
    <3> QED BY <3>1, <3>2, Zenon
  <2>2. UNCHANGED <<headers, tds, todo, holder>>
    BY <1>1, Zenon DEF ReadPtd
  <2> QED BY <1>0, <2>1, <2>2, Zenon DEF TdInv, HeadersHaveTd, Ordered
<1>2. CASE WriteBlockAndState(w)
  <2> DEFINE b == blk[w]
             externTd == ptd[w] + difficulty[b]
             E == {e \in Ops : e.b = b /\ e.op \in {"failed", "reorg", "unlookup", "batch",
                                                    "insert", "written"}}
  <2>1. externTd \in Nat
    <3>1. ptd[w] \in Nat
      BY Zenon DEF TdInv
    <3> QED BY <1>b, <3>1
  <2>2. CASE tds[currentBlock] = NoTd
    <3>1. Die /\ tds' = [tds EXCEPT ![b] = externTd] /\ UNCHANGED headers
      BY <1>2, <2>2, Zenon DEF WriteBlockAndState
    <3>2. tds' \in [Block -> Nat \cup {NoTd}] /\ tds'[Genesis] # NoTd /\ HeadersHaveTd'
      BY <1>b, <2>1, <3>1, TreeAssumption DEF TdInv, HeadersHaveTd, NoTd
    <3>3. ptd' \in [Writer -> Nat] /\ Ordered'
      BY <3>1, EmptyOrdered, Zenon DEF Die
    <3> QED BY <1>0, <3>2, <3>3, Zenon DEF TdInv
  <2>3. CASE tds[currentBlock] # NoTd
    <3>0. currentBlock \in Block
      BY <1>0, Zenon DEF Typed
    <3>1. /\ Op("failed", b, currentBlock, 0, 0) \in E /\ Op("reorg", b, currentBlock, 0, 0) \in E
          /\ Op("unlookup", b, currentBlock, 0, 0) \in E /\ Op("batch", b, b, 0, 1) \in E
          /\ Op("batch", b, b, 0, 0) \in E
          /\ OfBlock("insert", b) \in E /\ Op("written", b, currentBlock, 0, 0) \in E
      BY <1>b, <3>0 DEF OfBlock, Op, Ops, OpName
    <3>2. WriteCanon(b) \in Seq(E) /\ WriteSide(b) \in Seq(E)
      <4> HIDE DEF E
      <4>1. \A u \in E, v \in E, x \in E :
              <<>> \in Seq(E) /\ <<u>> \in Seq(E) /\ <<u, v>> \in Seq(E) /\ <<u, v, x>> \in Seq(E)
        OBVIOUS
      <4> QED BY <3>1, <4>1 DEF WriteCanon, WriteSide
    <3>3. /\ \/ todo' = TdFirst(b, externTd, WriteCanon(b))
             \/ todo' = TdFirst(b, externTd, WriteSide(b))
          /\ holder' = w /\ UNCHANGED <<headers, tds, ptd>>
      BY <1>2, <2>3, Zenon DEF WriteBlockAndState, Enter
    <3>4. Ordered'
      BY <1>b, <2>1, <3>2, <3>3, WriteOrdered, Zenon
    <3> QED BY <1>0, <3>3, <3>4, KeepTd, Zenon
  <2> QED BY <2>2, <2>3, Zenon
<1> QED BY <1>1, <1>2, Zenon

(* The operation at work is one that its owner may do.                     *)
LEMMA FirstOK ==
  ASSUME TdInv, NEW name, At(name)
  PROVE  /\ todo[1].op = name /\ todo[1].b \in Block /\ OpOK(todo[1], holder)
         /\ name = "batch" => tds[todo[1].b] # NoTd
         /\ name = "delTd" => todo[1].b \notin headers
<1>1. todo \in Seq(Ops) /\ todo # <<>> /\ todo[1].op = name /\ Typed
  BY Zenon DEF TdInv, TypeInv, Typed, At
<1>2. 1 \in 1..Len(todo) /\ todo[1].b \in Block
  BY <1>1, FirstOp
<1> QED BY <1>1, <1>2 DEF TdInv, Ordered

(* WriteTd: a total difficulty is stored.                                  *)
LEMMA TdStored ==
  ASSUME TdInv, TypeInv', WriteTd
  PROVE  TdInv'
<1>1. Shifted("td") /\ todo[1].b \in Block /\ todo[1].n \in Nat
  BY ThenShift, FirstOK, Zenon DEF WriteTd, TdInv, OpOK
<1>2. /\ tds' = [tds EXCEPT ![todo[1].b] = todo[1].n] /\ UNCHANGED <<headers, ptd>>
      /\ headers \subseteq Block
  BY Zenon DEF WriteTd, TdInv, TypeInv, Typed
<1>3. /\ \A x \in Block : tds[x] # NoTd => tds'[x] # NoTd
      /\ tds'[todo[1].b] # NoTd /\ tds' \in [Block -> Nat \cup {NoTd}]
  BY <1>1, <1>2 DEF TdInv, NoTd
<1>4. Ordered'
  BY <1>1, <1>2, <1>3, ShiftOrdered, Zenon
<1> QED BY <1>2, <1>3, <1>4, TreeAssumption, Zenon DEF TdInv, HeadersHaveTd

(* batch.Write: a block is stored, and has its total difficulty already.   *)
LEMMA BlockStored ==
  ASSUME TdInv, TypeInv', WriteBatch
  PROVE  TdInv'
<1>1. Shifted("batch") /\ holder \in Writer /\ tds[todo[1].b] # NoTd
  BY ThenShift, FirstOK DEF WriteBatch, TdInv, OpOK
<1>2. headers' = headers \cup {todo[1].b} /\ UNCHANGED <<tds, ptd>>
  BY Zenon DEF WriteBatch
<1>3. Ordered'
  BY <1>1, <1>2, ShiftOrdered, Zenon
<1> QED BY <1>1, <1>2, <1>3, Zenon DEF TdInv, HeadersHaveTd

(* WriteBlock(genesis): the genesis block never lost its total difficulty. *)
LEMMA StoreGenesis ==
  ASSUME TdInv, TypeInv', WriteGenesis
  PROVE  TdInv'
<1>1. Shifted("putBlock") /\ todo[1].b = Genesis
  BY ThenShift, FirstOK DEF WriteGenesis, TdInv, OpOK
<1>2. headers' = headers \cup {Genesis} /\ UNCHANGED <<tds, ptd>>
  BY <1>1, Zenon DEF WriteGenesis
<1>3. Ordered'
  BY <1>1, <1>2, ShiftOrdered, Zenon
<1> QED BY <1>2, <1>3, Zenon DEF TdInv, HeadersHaveTd

(* A header is deleted before its total difficulty.                        *)
LEMMA DropHeader ==
  ASSUME TdInv, TypeInv', DeleteHeader
  PROVE  TdInv'
<1>1. Shifted("delHeader")
  BY ThenShift, Zenon DEF DeleteHeader, TdInv
<1>2. headers' = headers \ {todo[1].b} /\ UNCHANGED <<tds, ptd>>
  BY Zenon DEF DeleteHeader
<1>3. Ordered'
  BY <1>1, <1>2, ShiftOrdered, Zenon
<1> QED BY <1>2, <1>3, Zenon DEF TdInv, HeadersHaveTd

(* ... and its total difficulty only when the header is gone.              *)
LEMMA DropTd ==
  ASSUME TdInv, TypeInv', DeleteTd
  PROVE  TdInv'
<1>1. /\ Shifted("delTd") /\ holder \notin Writer
      /\ todo[1].b \notin headers /\ todo[1].b # Genesis /\ todo[1].b \in Block
  BY ThenShift, FirstOK DEF DeleteTd, TdInv, OpOK
<1>2. /\ tds' = [tds EXCEPT ![todo[1].b] = NoTd] /\ UNCHANGED <<headers, ptd>>
      /\ headers \subseteq Block
  BY Zenon DEF DeleteTd, TdInv, TypeInv, Typed
<1>3. Ordered'
  BY <1>1, <1>2, ShiftOrdered, Zenon
<1>4. HeadersHaveTd' /\ tds' \in [Block -> Nat \cup {NoTd}] /\ tds'[Genesis] # NoTd
  BY <1>1, <1>2, TreeAssumption, Zenon DEF TdInv, HeadersHaveTd
<1> QED BY <1>2, <1>3, <1>4, Zenon DEF TdInv

(* The operations that the owner h of mu may leave pending anywhere.       *)
Fine(h) == {e \in Ops : OpOK(e, h) /\ e.op \notin {"batch", "delTd"}}

(* A step that leaves only such operations behind, and neither stores nor  *)
(* deletes, keeps the invariant.                                           *)
LEMMA FineTd ==
  ASSUME TdInv, TypeInv', NEW name, name # "td", name # "delHeader", At(name),
         NEW ops \in Seq(Fine(holder)), Then(ops), UNCHANGED <<headers, tds, ptd>>
  PROVE  TdInv'
<1>1. \A k \in 1..Len(ops) : ops[k] \in Fine(holder)
  OBVIOUS
<1>2. ops \in Seq(Ops)
  <2>1. Fine(holder) \subseteq Ops
    BY Zenon DEF Fine
  <2> HIDE DEF Fine
  <2> QED BY <2>1
<1>3. InOrder(ops, holder)
  BY <1>1, Zenon DEF Fine, InOrder
<1>4. Ordered'
  BY <1>2, <1>3, HarmlessOrdered, Zenon
<1> QED BY <1>4, KeepTd, Zenon

(* The deletion of one block: body, header, total difficulty, and on.      *)
LEMMA DeletionOrdered ==
  ASSUME NEW h, NEW ops, ops[1] \in Fine(h), ops[2] \in Fine(h), ops[4] \in Fine(h),
         OpOK(ops[3], h), ops[2].op = "delHeader", ops[3].op = "delTd", ops[2].b = ops[3].b,
         Len(ops) = 4
  PROVE  InOrder(ops, h)
<1> SUFFICES ASSUME NEW k \in 1..Len(ops)
             PROVE  /\ OpOK(ops[k], h) /\ ops[k].op # "batch"
                    /\ ops[k].op = "delTd" =>
                         k > 1 /\ ops[k-1].op = "delHeader" /\ ops[k-1].b = ops[k].b
  BY Zenon DEF InOrder
<1>0. k = 1 \/ k = 2 \/ k = 3 \/ k = 4
  OBVIOUS
<1>1. ASSUME NEW j \in {1, 2, 4}
      PROVE  OpOK(ops[j], h) /\ ops[j].op # "batch" /\ ops[j].op # "delTd"
  BY <1>1, Zenon DEF Fine
<1>2. CASE k \in {1, 2, 4}
  BY <1>1, <1>2, Zenon
<1>3. CASE k = 3
  <2>1. k - 1 = 2 /\ k > 1
    BY <1>3
  <2> QED BY <1>3, <2>1, Zenon
<1> QED BY <1>0, <1>2, <1>3, Zenon

(* Operations that anyone may leave pending ...                            *)
LEMMA FineOp ==
  ASSUME NEW h, NEW b \in Block, NEW o \in Block, NEW n \in Int, NEW m \in Int,
         NEW name \in {"headBlock", "headHeader", "headFast", "insert", "lookup", "reorg",
                       "delCanon", "setHeader", "rewindBlocks", "delBody", "stuck", "fastMem"}
  PROVE  Op(name, b, o, n, m) \in Fine(h)
BY Zenon DEF Op, Ops, OpName, OpOK, Fine

(* ... and those that only SetHead and Reset may.                          *)
LEMMA FineRewind ==
  ASSUME NEW h, h \notin Writer, NEW n \in Nat, NEW name \in {"setHead", "rewind", "load"}
  PROVE  OfNumber(name, n) \in Fine(h)
BY TreeAssumption DEF OfNumber, Op, Ops, OpName, OpOK, Fine

(* The heads, the indices and the bodies are none of its business.         *)
LEMMA HeadTd ==
  ASSUME TdInv, TypeInv',
         \/ WriteHeadBlockHash \/ SetCurrentHeader \/ WriteHeadFastBlockHash
         \/ WriteTxLookupEntries \/ DeleteTxLookupEntries \/ DeleteBody \/ ResetFastHead
  PROVE  TdInv'
<1>1. CASE WriteHeadBlockHash
  BY <1>1, DoneTd, Zenon DEF WriteHeadBlockHash
<1>2. CASE SetCurrentHeader
  BY <1>2, DoneTd, Zenon DEF SetCurrentHeader
<1>3. CASE WriteHeadFastBlockHash
  BY <1>3, DoneTd, Zenon DEF WriteHeadFastBlockHash
<1>4. CASE WriteTxLookupEntries
  BY <1>4, DoneTd, Zenon DEF WriteTxLookupEntries
<1>5. CASE DeleteTxLookupEntries
  BY <1>5, DoneTd, Zenon DEF DeleteTxLookupEntries
<1>6. CASE DeleteBody
  BY <1>6, DoneTd, Zenon DEF DeleteBody
<1>7. CASE ResetFastHead
  BY <1>7, DoneTd, Zenon DEF ResetFastHead
<1> QED BY <1>1, <1>2, <1>3, <1>4, <1>5, <1>6, <1>7, Zenon

(* The end of a critical section leaves nothing pending.                   *)
LEMMA EndTd ==
  ASSUME TdInv, TypeInv', Written \/ Failed \/ Unlock
  PROVE  TdInv'
<1>1. todo' = <<>> /\ UNCHANGED <<headers, tds, ptd>>
  BY Zenon DEF Written, Failed, Unlock, Enter
<1> QED BY <1>1, EmptyOrdered, KeepTd, Zenon

(* insert leaves head updates behind.                                      *)
LEMMA InsertTd ==
  ASSUME TdInv, TypeInv', Insert
  PROVE  TdInv'
<1> DEFINE b == todo[1].b
           ops == <<OfBlock("headBlock", b)>> \o
                    IF canon[number[b]] # b
                    THEN <<OfBlock("headHeader", b), OfBlock("headFast", b)>>
                    ELSE <<>>
<1>1. At("insert") /\ Then(ops) /\ UNCHANGED <<headers, tds, ptd>>
  BY Zenon DEF Insert
<1>2. b \in Block
  BY <1>1, FirstOK, Zenon
<1>3. /\ OfBlock("headBlock", b) \in Fine(holder) /\ OfBlock("headHeader", b) \in Fine(holder)
      /\ OfBlock("headFast", b) \in Fine(holder)
  BY <1>2, FineOp DEF OfBlock
<1>4. ops \in Seq(Fine(holder))
  BY <1>3
<1> HIDE DEF ops
<1> QED BY <1>1, <1>4, FineTd, Zenon

(* reorg leaves the insertion of one block behind, and itself.             *)
LEMMA ReorgTd ==
  ASSUME TdInv, TypeInv', Reorg
  PROVE  TdInv'
<1> DEFINE b == todo[1].b
           o == todo[1].o
           ops == IF b \in Anc[o] THEN <<>>
                  ELSE <<OfBlock("insert", b), OfBlock("lookup", b),
                         Op("reorg", parent[b], o, 0, 0)>>
<1>1. At("reorg") /\ Then(ops) /\ UNCHANGED <<headers, tds, ptd>>
  BY Zenon DEF Reorg
<1>2. b \in Block /\ o \in Block /\ parent[b] \in Block
  BY <1>1, FirstOp, TreeAssumption, Zenon DEF TdInv, TypeInv
<1>3. /\ OfBlock("insert", b) \in Fine(holder) /\ OfBlock("lookup", b) \in Fine(holder)
      /\ Op("reorg", parent[b], o, 0, 0) \in Fine(holder)
  BY <1>2, FineOp DEF OfBlock
<1>4. ops \in Seq(Fine(holder))
  BY <1>3
<1> HIDE DEF ops
<1> QED BY <1>1, <1>4, FineTd, Zenon

(* SetHead begins with the headers.                                        *)
LEMMA BeginSetHeadTd ==
  ASSUME TdInv, TypeInv', BeginSetHead
  PROVE  TdInv'
<1> DEFINE n == todo[1].n
           delCanon == Op("delCanon", Genesis, Genesis, number[currentHeader], n)
           ops == <<OfNumber("rewind", n), delCanon, OfNumber("setHeader", 0),
                    OfNumber("rewindBlocks", 0), OfNumber("load", 1)>>
<1>1. At("setHead") /\ Then(ops) /\ UNCHANGED <<headers, tds, ptd>>
  BY Zenon DEF BeginSetHead
<1>2. n \in Nat /\ holder \notin Writer
  BY <1>1, FirstOK DEF OpOK
<1>3. number[currentHeader] \in Nat /\ Genesis \in Block
  BY NumberType, TreeAssumption, Zenon DEF TdInv, TypeInv, Typed
<1>4. OfNumber("rewind", n) \in Fine(holder) /\ OfNumber("load", 1) \in Fine(holder)
  BY <1>2, FineRewind, Zenon
<1>5. /\ OfNumber("setHeader", 0) \in Fine(holder) /\ OfNumber("rewindBlocks", 0) \in Fine(holder)
      /\ delCanon \in Fine(holder)
  BY <1>2, <1>3, FineOp DEF OfNumber
<1> HIDE DEF delCanon
<1>6. ops \in Seq(Fine(holder))
  BY <1>4, <1>5
<1> HIDE DEF ops
<1> QED BY <1>1, <1>6, FineTd, Zenon

(* The rewind leaves the deletion of one block behind, and itself.         *)
LEMMA RewindTd ==
  ASSUME TdInv, TypeInv', Rewind
  PROVE  TdInv'
<1> DEFINE b == currentHeader
           ops == IF number[b] > todo[1].n
                  THEN <<OfBlock("delBody", b), OfBlock("delHeader", b), OfBlock("delTd", b),
                         todo[1]>>
                  ELSE <<>>
<1>1. At("rewind") /\ Then(ops) /\ UNCHANGED <<headers, tds, ptd>>
  BY Zenon DEF Rewind
<1>2. /\ todo[1].n \in Nat /\ holder \notin Writer /\ todo[1] \in Ops /\ todo[1].op = "rewind"
      /\ OpOK(todo[1], holder)
  BY <1>1, FirstOK, FirstOp DEF TdInv, TypeInv, OpOK
<1>3. b \in Block /\ number[b] \in Nat /\ number[Genesis] = 0
  BY NumberType, TreeAssumption, Zenon DEF TdInv, TypeInv, Typed
<1>4. CASE number[b] > todo[1].n
  <2>1. b # Genesis
    BY <1>2, <1>3, <1>4
  <2>2. OfBlock("delBody", b) \in Fine(holder)
    BY <1>3, FineOp DEF OfBlock
  <2>3. /\ OfBlock("delHeader", b) \in Fine(holder)
        /\ OfBlock("delTd", b) \in Ops /\ OpOK(OfBlock("delTd", b), holder)
        /\ OfBlock("delHeader", b).op = "delHeader" /\ OfBlock("delTd", b).op = "delTd"
        /\ OfBlock("delHeader", b).b = OfBlock("delTd", b).b
    BY <1>2, <1>3, <2>1 DEF OfBlock, Op, Ops, OpName, OpOK, Fine
  <2>4. todo[1] \in Fine(holder)
    BY <1>2, Zenon DEF Fine
  <2>5. \A e \in Fine(holder) : e \in Ops
    BY Zenon DEF Fine
  <2>6. /\ Len(ops) = 4 /\ ops[1] = OfBlock("delBody", b) /\ ops[2] = OfBlock("delHeader", b)
        /\ ops[3] = OfBlock("delTd", b) /\ ops[4] = todo[1] /\ ops \in Seq(Ops)
    BY <1>4, <2>2, <2>3, <2>4, <2>5
  <2> HIDE DEF ops
  <2>7. InOrder(ops, holder)
    <3>1. /\ ops[1] \in Fine(holder) /\ ops[2] \in Fine(holder) /\ ops[4] \in Fine(holder)
          /\ OpOK(ops[3], holder) /\ ops[2].op = "delHeader" /\ ops[3].op = "delTd"
          /\ ops[2].b = ops[3].b
      BY <2>2, <2>3, <2>4, <2>6, Zenon
    <3> QED BY <2>6, <3>1, DeletionOrdered, Zenon
  <2>8. Ordered'
    BY <1>1, <2>6, <2>7, HarmlessOrdered, Zenon
  <2> QED BY <1>1, <2>8, KeepTd, Zenon
<1>5. CASE ~(number[b] > todo[1].n)
  BY <1>1, <1>5, DoneTd, Zenon
<1> QED BY <1>4, <1>5, Zenon

(* The canonical numbers above the target go one by one.                   *)
LEMMA DelCanonTd ==
  ASSUME TdInv, TypeInv', DeleteCanonicalHash
  PROVE  TdInv'
<1> DEFINE i == todo[1].n
           n == todo[1].m
           ops == IF i > n THEN <<Op("delCanon", Genesis, Genesis, i - 1, n)>> ELSE <<>>
<1>1. At("delCanon") /\ Then(ops) /\ UNCHANGED <<headers, tds, ptd>>
  BY Zenon DEF DeleteCanonicalHash
<1>2. i \in Int /\ n \in Int /\ Genesis \in Block
  BY <1>1, FirstOp, TreeAssumption, Zenon DEF TdInv, TypeInv
<1>3. Op("delCanon", Genesis, Genesis, i - 1, n) \in Fine(holder)
  BY <1>2, FineOp
<1>4. ops \in Seq(Fine(holder))
  BY <1>3
<1> HIDE DEF ops
<1> QED BY <1>1, <1>4, FineTd, Zenon

(* The heads follow the header.                                            *)
LEMMA FollowTd ==
  ASSUME TdInv, TypeInv', StoreHeader \/ RewindBlocks
  PROVE  TdInv'
<1>0. /\ currentHeader \in Block /\ currentBlock \in Block /\ currentFastBlock \in Block
      /\ Genesis \in Block
  BY TreeAssumption, Zenon DEF TdInv, TypeInv, Typed
<1>1. CASE StoreHeader
  <2> DEFINE ops == <<OfBlock("headHeader", currentHeader)>>
  <2>1. At("setHeader") /\ Then(ops) /\ UNCHANGED <<headers, tds, ptd>>
    BY <1>1, Zenon DEF StoreHeader
  <2>2. OfBlock("headHeader", currentHeader) \in Fine(holder)
    BY <1>0, FineOp DEF OfBlock
  <2>3. ops \in Seq(Fine(holder))
    BY <2>2
  <2> HIDE DEF ops
  <2> QED BY <2>1, <2>3, FineTd, Zenon
<1>2. CASE RewindBlocks
  <2> DEFINE follow(b) == IF number[currentHeader] >= number[b] THEN b
                          ELSE IF currentHeader \in Full THEN currentHeader ELSE Genesis
             head == IF follow(currentBlock) \in states THEN follow(currentBlock) ELSE Genesis
             fast == follow(currentFastBlock)
             ops == <<OfBlock("headBlock", head), OfBlock("headFast", fast)>>
  <2>1. At("rewindBlocks") /\ Then(ops) /\ UNCHANGED <<headers, tds, ptd>>
    BY <1>2, Zenon DEF RewindBlocks
  <2>2. head \in Block /\ fast \in Block
    BY <1>0, Zenon
  <2> HIDE DEF head, fast
  <2>3. OfBlock("headBlock", head) \in Fine(holder) /\ OfBlock("headFast", fast) \in Fine(holder)
    BY <2>2, FineOp DEF OfBlock
  <2>4. ops \in Seq(Fine(holder))
    BY <2>3
  <2> HIDE DEF ops
  <2> QED BY <2>1, <2>4, FineTd, Zenon
<1> QED BY <1>1, <1>2, Zenon

(* loadLastState goes on, or resets the chain, or waits for itself.        *)
LEMMA LoadTd ==
  ASSUME TdInv, TypeInv', LoadLastState
  PROVE  TdInv'
<1> DEFINE found == IF headHeaderHash # None /\ headHeaderHash \in headers
                    THEN headHeaderHash ELSE headBlockHash
           reset == <<OfNumber("setHead", 0), Op("td", Genesis, Genesis, 0, 0),
                      OfBlock("putBlock", Genesis), OfBlock("insert", Genesis),
                      OfBlock("headHeader", Genesis), OfBlock("fastMem", Genesis)>>
<1>1. /\ At("load") /\ UNCHANGED <<headers, tds, ptd>>
      /\ Then(<<OfBlock("headHeader", found)>>) \/ Then(reset) \/ Then(<<OfNumber("stuck", 0)>>)
  BY Zenon DEF LoadLastState
<1>2. holder \notin Writer
  BY <1>1, FirstOK DEF OpOK
<1>3. found \in Block /\ Genesis \in Block
  BY TreeAssumption, Zenon DEF TdInv, TypeInv, Typed
<1> HIDE DEF found
<1>4. /\ OfBlock("headHeader", found) \in Fine(holder) /\ OfNumber("stuck", 0) \in Fine(holder)
      /\ OfBlock("insert", Genesis) \in Fine(holder)
      /\ OfBlock("headHeader", Genesis) \in Fine(holder)
      /\ OfBlock("fastMem", Genesis) \in Fine(holder)
  BY <1>3, FineOp DEF OfBlock, OfNumber
<1>5. OfNumber("setHead", 0) \in Fine(holder)
  BY <1>2, FineRewind, Zenon
<1>6. /\ Op("td", Genesis, Genesis, 0, 0) \in Fine(holder)
      /\ OfBlock("putBlock", Genesis) \in Fine(holder)
  BY <1>3 DEF OfBlock, Op, Ops, OpName, OpOK, Fine
<1>7. /\ <<OfBlock("headHeader", found)>> \in Seq(Fine(holder))
      /\ <<OfNumber("stuck", 0)>> \in Seq(Fine(holder)) /\ reset \in Seq(Fine(holder))
  BY <1>4, <1>5, <1>6
<1> HIDE DEF reset
<1> QED BY <1>1, <1>7, FineTd, Zenon

(* Every step of a critical section keeps the invariant.                   *)
LEMMA SectionTd ==
  ASSUME TdInv, Section
  PROVE  TdInv'
<1>1. TypeInv'
  BY SectionType, Zenon DEF TdInv
<1> QED BY <1>1, TdStored, BlockStored, StoreGenesis, DropHeader, DropTd, HeadTd, EndTd, InsertTd,
           ReorgTd, BeginSetHeadTd, RewindTd, DelCanonTd, FollowTd, LoadTd, Zenon DEF Section

(* A step that leaves the critical section and its data alone.             *)
LEMMA StillTd ==
  ASSUME TdInv, TypeInv', UNCHANGED <<headers, tds, ptd, todo, holder>>
  PROVE  TdInv'
BY Zenon DEF TdInv, HeadersHaveTd, Ordered

(* The death of the process leaves nothing pending.                        *)
LEMMA DeathTd ==
  ASSUME TdInv, TypeInv', Die, UNCHANGED <<headers, tds>>
  PROVE  TdInv'
<1>1. ptd' \in [Writer -> Nat] /\ Ordered'
  BY EmptyOrdered, Zenon DEF Die
<1> QED BY <1>1, Zenon DEF TdInv, HeadersHaveTd

(* The import outside mu.                                                  *)
LEMMA ImportTd ==
  ASSUME TdInv, TypeInv',
         SkipKnown \/ QueueFuture \/ RejectBlock \/ AcceptBlock \/ ProcessBlock
  PROVE  TdInv'
<1>1. CASE SkipKnown \/ QueueFuture \/ RejectBlock \/ AcceptBlock
  BY <1>1, StillTd, Zenon DEF SkipKnown, QueueFuture, RejectBlock, AcceptBlock
<1>2. CASE ProcessBlock
  <2>1. /\ UNCHANGED <<headers, tds>>
        /\ Die \/ UNCHANGED <<ptd, todo, holder>>
    BY <1>2, Zenon DEF ProcessBlock
  <2> QED BY <2>1, DeathTd, StillTd, Zenon
<1> QED BY <1>1, <1>2, Zenon

(* The other goroutines outside mu, and time.                              *)
LEMMA OutsideTd ==
  ASSUME TdInv, TypeInv',
         \/ Sweep \/ AbandonWork \/ \E c \in Chains : InsertChain(c)
         \/ \E b \in Mined : CommitNewWork(b)
         \/ \E b \in Ahead : TimePasses(b)
         \/ UNCHANGED vars
  PROVE  TdInv'
<1>1. UNCHANGED <<headers, tds, ptd, todo, holder>>
  BY Zenon DEF Sweep, ProcFutureBlocks, InsertFuture, AbandonWork, InsertChain, CommitNewWork,
         TimePasses, vars
<1> QED BY <1>1, StillTd, Zenon

(* SetHead takes mu, and the process dies and starts again.                *)
LEMMA EnterTd ==
  ASSUME TdInv, TypeInv',
         \/ \E n \in SetHeads : SetHead(n)
         \/ Crash \/ NewBlockChain
  PROVE  TdInv'
<1>1. ASSUME NEW n \in SetHeads, SetHead(n) PROVE TdInv'
  <2>1. n \in Nat
    BY ChainAssumption DEF Numbers
  <2>2. todo' = <<OfNumber("setHead", n), OfNumber("unlock", 0)>> /\ holder' = "setHead"
        /\ UNCHANGED <<headers, tds, ptd>>
    BY <1>1, Zenon DEF SetHead, Enter
  <2>3. Ordered'
    BY <2>1, <2>2 DEF Ordered, OpOK, OfNumber, Op, Writer
  <2> QED BY <2>2, <2>3, KeepTd, Zenon
<1>2. CASE Crash
  BY <1>2, DeathTd, Zenon DEF Crash
<1>3. CASE NewBlockChain
  <2>1. todo' = <<OfNumber("load", 0), OfNumber("unlock", 0)>> /\ holder' = "boot"
        /\ UNCHANGED <<headers, tds, ptd>>
    BY <1>3, Zenon DEF NewBlockChain, Enter
  <2>2. Ordered'
    BY <2>1 DEF Ordered, OpOK, OfNumber, Op, Writer
  <2> QED BY <2>1, <2>2, KeepTd, Zenon
<1> QED BY <1>1, <1>2, <1>3, Zenon

(* Death, birth and every step in between keep the invariant.              *)
LEMMA NextTd == TdInv /\ [Next]_vars => TdInv'
<1> SUFFICES ASSUME TdInv, [Next]_vars PROVE TdInv'
  BY Zenon
<1>1. TypeInv'
  BY NextType, Zenon DEF TdInv
<1> QED BY <1>1, SectionTd, ImportTd, WriterTd, OutsideTd, EnterTd, Zenon
        DEF Next, Step, ImportStep, Writer

(* After Genesis.Commit nothing is pending and the genesis block has its   *)
(* total difficulty.                                                       *)
LEMMA InitTd == Init => TdInv
<1> SUFFICES ASSUME Init PROVE TdInv
  BY Zenon
<1>1. TypeInv
  BY InitType, Zenon
<1>2. Genesis \in Block /\ difficulty[Genesis] \in Nat /\ difficulty[Genesis] # NoTd
  BY TreeAssumption DEF NoTd
<1>3. HeadersHaveTd /\ tds \in [Block -> Nat \cup {NoTd}] /\ tds[Genesis] # NoTd
  BY <1>2, Zenon DEF Init, HeadersHaveTd
<1>4. ptd \in [Writer -> Nat] /\ Ordered
  BY DEF Init, Ordered
<1> QED BY <1>1, <1>3, <1>4, Zenon DEF TdInv

(* Whatever is imported, mined or rewound, wherever the process crashes    *)
(* and however often it restarts: every header in the database has its     *)
(* total difficulty, which WriteBlockAndState dereferences unchecked.      *)
THEOREM HeadersAlwaysHaveTd == Spec => []HeadersHaveTd
<1>1. TdInv => HeadersHaveTd
  BY Zenon DEF TdInv
<1> QED BY <1>1, InitTd, NextTd, PTL DEF Spec
=============================================================================
