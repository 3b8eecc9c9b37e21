--------------------------- MODULE RecoveryProofs ---------------------------
(***************************************************************************)
(* A node that is killed anywhere comes up again with a complete head.     *)
(* Between two writes of an import the head block hash may name a block    *)
(* that is not stored yet, for reorg moves the heads before the batch is   *)
(* written: loadLastState must find that out, and the reset it starts must *)
(* not wait for its own lock.  RecoveryInv says what the owner of mu is    *)
(* still going to do, for a writer and for a node that starts.             *)
(***************************************************************************)
EXTENDS BlockChain, TLAPS

USE DEF blocks, index, hashes, mem, future, node, writers, import

(* The operator does not rewind.                                           *)
NoRewinds == SetHeads = {}

(* What TypeCorrect and HeadersAlwaysHaveTd establish, and two operations  *)
(* whose operand is fixed: SetHead goes to a height, and Genesis.Commit    *)
(* writes the genesis block.                                               *)
Sound ==
  /\ TypeOK /\ HeadersHaveTd
  /\ \A i \in 1..Len(todo) : /\ todo[i].op = "rewind" => todo[i].n \in Nat
                             /\ todo[i].op = "putBlock" => todo[i].b = Genesis

(* What is stored is stored whole, and so are its ancestors.               *)
Intact ==
  /\ Genesis \in headers /\ Closed(headers)
  /\ bodies = headers /\ headers \subseteq states

(* A caller of WriteBlockAndState with a block in hand found its parent.   *)
Underway == {"process", "ptd", "write", "locked"}
ParentsStored ==
  \A w \in Writer : pc[w] \in Underway => up = "up" /\ parent[blk[w]] \in headers

(* What the writer of block b may have pending: operations on stored       *)
(* blocks and on b, the batch that stores b unless b is stored, and at the *)
(* very end, and only there, the release of mu.                            *)
WriteOps == {"td", "reorg", "unlookup", "batch", "insert", "lookup", "headBlock", "headHeader",
             "headFast", "written"}
WriteOp(e, b, S) == e.op \in WriteOps /\ e.b \in S \cup {b} /\ (e.op = "batch" => e.b = b)
WritePlan(b) ==
  /\ Len(todo) > 0
  /\ \A i \in 1..Len(todo) : /\ WriteOp(todo[i], b, headers)
                             /\ todo[i].op = "written" <=> i = Len(todo)
  /\ b \in headers \/ \E i \in 1..Len(todo) : todo[i].op = "batch"

(* What a starting node may have pending, at place i, with the stored      *)
(* headers S, the current header c and the head block hash h: nothing that *)
(* deletes a block, heads that are stored, and a rewind from the genesis   *)
(* header only.                                                            *)
BootOps == {"load", "headHeader", "setHead", "rewind", "delCanon", "setHeader", "rewindBlocks",
            "headBlock", "headFast", "td", "putBlock", "insert", "fastMem", "unlock"}
BootOp(e, i, S, c, h) ==
  /\ e.op \in BootOps
  /\ e.op \in {"insert", "headBlock"} => e.b \in S
  /\ e.op \in {"setHead", "rewind"} => i = 1 /\ c = Genesis
  /\ e.op = "load" /\ e.n = 0 => i = 1 /\ (h \in S \/ c = Genesis)

(* The second loadLastState, inside SetHead, comes when the head block     *)
(* hash names a stored block, or after an operation that makes it do so.   *)
Repairs == {"rewindBlocks", "headBlock"}
Repaired(s, i, S, h) ==
  s[i].op = "load" /\ s[i].n # 0 => h \in S \/ \E j \in 1..(i - 1) : s[j].op \in Repairs
BootPlan ==
  \A i \in 1..Len(todo) : /\ BootOp(todo[i], i, headers, currentHeader, headBlockHash)
                          /\ Repaired(todo, i, headers, headBlockHash)

HeadKnown == currentBlock \in headers \/ (holder \in Writer /\ currentBlock = blk[holder])
OwnerPlan ==
  /\ holder \in Writer \cup {"none", "boot"}
  /\ holder = "none" => todo = <<>>
  /\ holder \in Writer => up = "up" /\ pc[holder] = "locked" /\ WritePlan(blk[holder])
  /\ holder = "boot" => up = "boot" /\ BootPlan

(* The inductive invariant of a node that may crash but is not rewound.    *)
RecoveryInv == Sound /\ Intact /\ ParentsStored /\ ~panicked /\ HeadKnown /\ OwnerPlan

-----------------------------------------------------------------------------
(* The database.                                                           *)

(* The ancestors of a stored block are stored.                             *)
LEMMA StoredChain ==
  ASSUME Intact, headers \subseteq Block, NEW x \in headers
  PROVE  Anc[x] \subseteq headers /\ parent[x] \in headers
<1>1. parent[x] \in headers
  BY TreeAssumption, Zenon DEF Intact, Closed
<1>2. \A S \in SUBSET Block : x \in S /\ Closed(S) => Anc[x] \subseteq S
  BY Zenon DEF Anc
<1> QED BY <1>1, <1>2, Zenon DEF Intact

(* So are those of a block whose parent is stored, but for the block.      *)
LEMMA NewChainStored ==
  ASSUME Intact, headers \subseteq Block, NEW b \in Block, parent[b] \in headers
  PROVE  \A x \in Anc[b] : parent[x] \in headers
<1>1. Closed(headers \cup {b})
  BY Zenon DEF Intact, Closed
<1>2. \A S \in SUBSET Block : b \in S /\ Closed(S) => Anc[b] \subseteq S
  BY Zenon DEF Anc
<1>3. Anc[b] \subseteq headers \cup {b}
  BY <1>1, <1>2, Zenon
<1> QED BY <1>3, StoredChain, Zenon

(* reorg finds every block it looks for.                                   *)
LEMMA AlwaysReorgable ==
  ASSUME Intact, headers \subseteq Block, NEW o \in headers, NEW b \in Block, parent[b] \in headers
  PROVE  Reorgable(o, b)
<1>1. \A x \in Anc[b] : parent[x] \in headers
  BY NewChainStored, Zenon
<1>2. \A x \in Anc[o] : parent[x] \in headers
  BY StoredChain, Zenon
<1>3. Full = headers
  BY Zenon DEF Full, Intact
<1> QED BY <1>1, <1>2, <1>3, Zenon DEF Reorgable, OldChain, NewChain

(* A block that follows a stored one leaves the database intact.           *)
LEMMA StoreIntact ==
  ASSUME Intact, NEW b, b = Genesis \/ parent[b] \in headers,
         headers' = headers \cup {b}, bodies' = bodies \cup {b}, states' = states \cup {b}
  PROVE  Intact'
BY Zenon DEF Intact, Closed

-----------------------------------------------------------------------------
(* The pending operations.                                                 *)

LEMMA OpMade ==
  ASSUME NEW name \in OpName, NEW b \in Block, NEW o \in Block, NEW n \in Int, NEW m \in Int
  PROVE  Op(name, b, o, n, m) \in Ops
BY Zenon DEF Op, Ops

LEMMA OpsListed ==
  ASSUME NEW u \in Ops, NEW v \in Ops, NEW w \in Ops, NEW x \in Ops, NEW y \in Ops
  PROVE  <<u, v, w>> \in Seq(Ops) /\ <<u, v, w, x, y>> \in Seq(Ops)
OBVIOUS

LEMMA HeightType == \A x \in Block : number[x] \in Nat
<1> SUFFICES ASSUME NEW x \in Block PROVE number[x] \in Nat
  BY Zenon
<1>1. number[x] \in 0..MaxNumber
  BY TreeAssumption, Zenon
<1> QED BY <1>1

LEMMA FirstSound ==
  ASSUME Sound, NEW name, At(name)
  PROVE  /\ name = "rewind" => todo[1].n \in Nat
         /\ name = "putBlock" => todo[1].b = Genesis
<1>1. todo \in Seq(Ops) /\ todo # <<>> /\ todo[1].op = name
  BY Zenon DEF Sound, TypeOK, At
<1>2. 1 \in 1..Len(todo)
  BY <1>1
<1> QED BY <1>1, <1>2, Zenon DEF Sound

(* The operation at work is replaced by ops: those come first, then the    *)
(* ones that waited behind it.                                             *)
Spliced(ops) ==
  /\ Len(ops) \in Nat /\ Len(todo) \in Nat \ {0} /\ Len(todo') = Len(ops) + Len(todo) - 1
  /\ \A k \in 1..Len(ops) : k \in 1..Len(todo') /\ todo'[k] = ops[k]
  /\ \A k \in 2..Len(todo) :
       Len(ops) + k - 1 \in 1..Len(todo') /\ todo'[Len(ops) + k - 1] = todo[k]
  /\ \A i \in 1..Len(todo') : \/ i \in 1..Len(ops)
                              \/ \E k \in 2..Len(todo) : i = Len(ops) + k - 1

LEMMA ThenSpliced ==
  ASSUME TypeOK, NEW name, At(name), NEW ops \in Seq(Ops), Then(ops)
  PROVE  Spliced(ops) /\ holder' = holder /\ todo[1].op = name
<1>1. /\ Len(todo) \in Nat \ {0} /\ Len(ops) \in Nat
      /\ Len(todo') = Len(ops) + Len(todo) - 1
      /\ \A i \in 1..Len(todo') :
           todo'[i] = IF i <= Len(ops) THEN ops[i] ELSE todo[i - Len(ops) + 1]
      /\ holder' = holder
      /\ todo[1].op = name
  <2>1. todo \in Seq(Ops) /\ todo # <<>> /\ todo[1].op = name
    BY Zenon DEF TypeOK, At
  <2>2. todo' = ops \o Tail(todo) /\ holder' = holder
    BY Zenon DEF Then
  <2> QED BY <2>1, <2>2
<1>2. PICK m \in Nat, n \in Nat \ {0} : m = Len(ops) /\ n = Len(todo)
  BY <1>1, Zenon
<1>3. /\ \A k \in 1..m : k \in 1..(m + n - 1) /\ k <= m
      /\ \A k \in 2..n : /\ m + k - 1 \in 1..(m + n - 1) /\ ~(m + k - 1 <= m)
                         /\ (m + k - 1) - m + 1 = k
      /\ \A i \in 1..(m + n - 1) : i \in 1..m \/ (i - m + 1 \in 2..n /\ i = m + (i - m + 1) - 1)
  OBVIOUS
<1>4. ASSUME NEW k \in 1..Len(ops) PROVE k \in 1..Len(todo') /\ todo'[k] = ops[k]
  BY <1>1, <1>2, <1>3, Zenon
<1>5. ASSUME NEW k \in 2..Len(todo)
      PROVE  Len(ops) + k - 1 \in 1..Len(todo') /\ todo'[Len(ops) + k - 1] = todo[k]
  BY <1>1, <1>2, <1>3
<1>6. ASSUME NEW i \in 1..Len(todo')
      PROVE  i \in 1..Len(ops) \/ \E k \in 2..Len(todo) : i = Len(ops) + k - 1
  <2>1. i \in 1..(m + n - 1)
    BY <1>1, <1>2, Zenon
  <2>2. i \in 1..m \/ (i - m + 1 \in 2..n /\ i = m + (i - m + 1) - 1)
    BY <1>3, <2>1, Zenon
  <2> QED BY <1>2, <2>2, Zenon
<1> QED BY <1>1, <1>4, <1>5, <1>6, Zenon DEF Spliced

(* The writer's plan, when the operation at work is replaced by others     *)
(* that do not release mu.                                                 *)
LEMMA WriteOn ==
  ASSUME TypeOK, NEW b, WritePlan(b), NEW name, At(name), name # "written",
         NEW ops \in Seq(Ops), Then(ops), headers \subseteq headers',
         \A k \in 1..Len(ops) : WriteOp(ops[k], b, headers') /\ ops[k].op # "written",
         name = "batch" => b \in headers'
  PROVE  WritePlan(b)' /\ holder' = holder
<1>1. Spliced(ops) /\ holder' = holder /\ todo[1].op = name
  BY ThenSpliced, Zenon
<1>2. PICK m \in Nat, n \in Nat \ {0} : m = Len(ops) /\ n = Len(todo) /\ Len(todo') = m + n - 1
  BY <1>1, Zenon DEF Spliced
<1>3. n > 1
  <2>1. 1 # n
    BY <1>1, <1>2 DEF WritePlan
  <2> QED BY <2>1
<1>4. ASSUME NEW i \in 1..Len(todo')
      PROVE  WriteOp(todo'[i], b, headers') /\ (todo'[i].op = "written" <=> i = Len(todo'))
  <2>1. CASE i \in 1..Len(ops)
    <3>1. todo'[i] = ops[i] /\ i # Len(todo')
      BY <1>1, <1>2, <1>3, <2>1 DEF Spliced
    <3> QED BY <2>1, <3>1, Zenon
  <2>2. ASSUME NEW k \in 2..Len(todo), i = Len(ops) + k - 1
        PROVE  WriteOp(todo'[i], b, headers') /\ (todo'[i].op = "written" <=> i = Len(todo'))
    <3>1. k \in 1..Len(todo) /\ (i = Len(todo') <=> k = Len(todo))
      BY <1>2, <2>2
    <3>2. todo'[i] = todo[k]
      BY <1>1, <2>2, Zenon DEF Spliced
    <3> QED BY <3>1, <3>2, Zenon DEF WritePlan, WriteOp
  <2> QED BY <1>1, <2>1, <2>2, Zenon DEF Spliced
<1>5. b \in headers' \/ \E i \in 1..Len(todo') : todo'[i].op = "batch"
  <2>1. CASE b \in headers'
    BY <2>1, Zenon
  <2>2. CASE b \notin headers'
    <3>1. PICK k \in 1..Len(todo) : todo[k].op = "batch"
      BY <2>2, Zenon DEF WritePlan
    <3>2. k # 1
      BY <1>1, <2>2, <3>1, Zenon
    <3>3. k \in 2..Len(todo)
      BY <1>2, <3>1, <3>2
    <3> QED BY <1>1, <3>1, <3>3, SMTT(30) DEF Spliced
  <2> QED BY <2>1, <2>2, Zenon
<1>6. Len(todo') > 0
  BY <1>2, <1>3
<1> QED BY <1>1, <1>4, <1>5, <1>6, Zenon DEF WritePlan

(* The plan of a starting node, when the operation at work is replaced.    *)
LEMMA BootOn ==
  ASSUME TypeOK, BootPlan, NEW name, At(name), NEW ops \in Seq(Ops), Then(ops),
         headers \subseteq headers', headBlockHash \in headers => headBlockHash' \in headers',
         \A k \in 1..Len(ops) : /\ BootOp(ops[k], k, headers', currentHeader', headBlockHash')
                                /\ Repaired(ops, k, headers', headBlockHash'),
         name \in Repairs => \/ headBlockHash' \in headers'
                             \/ \E k \in 1..Len(ops) : ops[k].op \in Repairs
  PROVE  BootPlan' /\ holder' = holder
<1>1. Spliced(ops) /\ holder' = holder /\ todo[1].op = name
  BY ThenSpliced, Zenon
<1>2. PICK m \in Nat, n \in Nat \ {0} : m = Len(ops) /\ n = Len(todo) /\ Len(todo') = m + n - 1
  BY <1>1, Zenon DEF Spliced
<1>3. ASSUME NEW i \in 1..Len(todo')
      PROVE  /\ BootOp(todo'[i], i, headers', currentHeader', headBlockHash')
             /\ Repaired(todo', i, headers', headBlockHash')
  <2>1. CASE i \in 1..Len(ops)
    <3> USE <2>1
    <3>1. \A j \in 1..(i - 1) : j \in 1..Len(ops)
      BY <1>2
    <3>2. todo'[i] = ops[i] /\ \A j \in 1..(i - 1) : todo'[j] = ops[j]
      BY <1>1, <3>1, Zenon DEF Spliced
    <3> QED BY <3>2, Zenon DEF Repaired
  <2>2. ASSUME NEW k \in 2..Len(todo), i = Len(ops) + k - 1
        PROVE  /\ BootOp(todo'[i], i, headers', currentHeader', headBlockHash')
               /\ Repaired(todo', i, headers', headBlockHash')
    <3>1. /\ k \in 1..Len(todo) /\ k # 1
          /\ \A j \in 1..m : j \in 1..(i - 1)
          /\ \A j \in 2..(k - 1) : m + j - 1 \in 1..(i - 1) /\ j \in 2..Len(todo)
      BY <1>2, <2>2
    <3>2. /\ todo'[i] = todo[k]
          /\ \A j \in 1..m : todo'[j] = ops[j]
          /\ \A j \in 2..(k - 1) : todo'[m + j - 1] = todo[j]
      BY <1>1, <1>2, <2>2, <3>1, Zenon DEF Spliced
    <3>3. /\ BootOp(todo[k], k, headers, currentHeader, headBlockHash)
          /\ Repaired(todo, k, headers, headBlockHash)
      BY <3>1, Zenon DEF BootPlan
    <3>4. BootOp(todo'[i], i, headers', currentHeader', headBlockHash')
      BY <3>1, <3>2, <3>3, Zenon DEF BootOp
    <3>5. ASSUME todo'[i].op = "load", todo'[i].n # 0, headBlockHash' \notin headers'
          PROVE  \E j \in 1..(i - 1) : todo'[j].op \in Repairs
      <4>1. PICK j \in 1..(k - 1) : todo[j].op \in Repairs
        BY <3>2, <3>3, <3>5, Zenon DEF Repaired
      <4>2. CASE j = 1
        BY <1>1, <1>2, <3>1, <3>2, <3>5, <4>1, <4>2, Zenon
      <4>3. CASE j # 1
        <5>1. j \in 2..(k - 1)
          BY <4>1, <4>3
        <5> QED BY <3>1, <3>2, <4>1, <5>1, Zenon
      <4> QED BY <4>2, <4>3, Zenon
    <3> QED BY <3>4, <3>5, Zenon DEF Repaired
  <2> QED BY <1>1, <2>1, <2>2, Zenon DEF Spliced
<1> QED BY <1>1, <1>3, Zenon DEF BootPlan

-----------------------------------------------------------------------------
(* One step of a critical section.                                         *)

(* Operations that a writer may add to its plan, and a starting node to    *)
(* its own, in any place.                                                  *)
Ongoing(b, S) == {e \in Ops : WriteOp(e, b, S) /\ e.op # "written"}
Steady(S) == {e \in Ops : /\ e.op \in BootOps \ {"setHead", "rewind", "load"}
                          /\ e.op \in {"insert", "headBlock"} => e.b \in S}

(* What the owner of mu is at.                                             *)
LEMMA AtPlace ==
  ASSUME RecoveryInv, NEW name, At(name)
  PROVE  /\ todo[1] \in Ops /\ todo[1].op = name
         /\ \/ holder \in Writer /\ WriteOp(todo[1], blk[holder], headers)
               /\ (name = "written" => blk[holder] \in headers)
            \/ /\ holder = "boot"
               /\ BootOp(todo[1], 1, headers, currentHeader, headBlockHash)
               /\ Repaired(todo, 1, headers, headBlockHash)
<1>1. todo \in Seq(Ops) /\ todo # <<>> /\ todo[1].op = name
  BY Zenon DEF RecoveryInv, Sound, TypeOK, At
<1>2. 1 \in 1..Len(todo) /\ todo[1] \in Ops
  BY <1>1
<1>3. CASE holder \in Writer
  <2>1. WritePlan(blk[holder])
    BY <1>3, Zenon DEF RecoveryInv, OwnerPlan
  <2>2. ASSUME name = "written" PROVE blk[holder] \in headers
    <3>1. Len(todo) = 1
      BY <1>1, <1>2, <2>1, <2>2, Zenon DEF WritePlan
    <3>2. \A i \in 1..Len(todo) : i = 1
      BY <3>1
    <3> QED BY <1>1, <2>1, <2>2, <3>2, Zenon DEF WritePlan
  <2> QED BY <1>1, <1>2, <1>3, <2>1, <2>2, Zenon DEF WritePlan
<1>4. CASE holder = "boot"
  BY <1>1, <1>2, <1>4, Zenon DEF RecoveryInv, OwnerPlan, BootPlan
<1> QED BY <1>1, <1>3, <1>4, Zenon DEF RecoveryInv, OwnerPlan

LEMMA WriterGoes ==
  ASSUME RecoveryInv, Sound', holder \in Writer, NEW name, At(name),
         name \notin {"written", "batch"},
         NEW ops \in Seq(Ongoing(blk[holder], headers)), Then(ops),
         UNCHANGED <<headers, bodies, states, up, panicked, pc, blk>>,
         currentBlock' \in headers \cup {blk[holder]}
  PROVE  RecoveryInv'
<1>1. TypeOK /\ WritePlan(blk[holder]) /\ up = "up" /\ pc[holder] = "locked"
  BY Zenon DEF RecoveryInv, Sound, OwnerPlan
<1>2. ops \in Seq(Ops) /\ \A k \in 1..Len(ops) : ops[k] \in Ongoing(blk[holder], headers)
  <2>1. Ongoing(blk[holder], headers) \subseteq Ops
    BY Zenon DEF Ongoing
  <2> QED BY <2>1
<1>3. PICK b : b = blk[holder]
  BY Zenon
<1>4. \A k \in 1..Len(ops) : WriteOp(ops[k], b, headers') /\ ops[k].op # "written"
  BY <1>2, <1>3, Zenon DEF Ongoing
<1>5. WritePlan(b)' /\ holder' = holder
  BY <1>1, <1>2, <1>3, <1>4, WriteOn, Zenon
<1>6. OwnerPlan'
  BY <1>1, <1>3, <1>5, Zenon DEF OwnerPlan, WritePlan, Writer
<1>7. Intact' /\ ParentsStored' /\ ~panicked' /\ HeadKnown'
  BY <1>5, Zenon DEF RecoveryInv, Intact, ParentsStored, HeadKnown
<1> QED BY <1>6, <1>7, Zenon DEF RecoveryInv

LEMMA BootGoes ==
  ASSUME RecoveryInv, Sound', holder = "boot", NEW name, At(name),
         NEW ops \in Seq(Steady(headers)), Then(ops),
         UNCHANGED <<headers, bodies, states, up, panicked, pc, blk>>,
         currentBlock' \in headers, headBlockHash \in headers => headBlockHash' \in headers,
         name \in Repairs => \/ headBlockHash' \in headers
                             \/ \E k \in 1..Len(ops) : ops[k].op \in Repairs
  PROVE  RecoveryInv'
<1>1. TypeOK /\ BootPlan /\ up = "boot"
  BY Zenon DEF RecoveryInv, Sound, OwnerPlan
<1>2. ops \in Seq(Ops) /\ \A k \in 1..Len(ops) : ops[k] \in Steady(headers)
  <2>1. Steady(headers) \subseteq Ops
    BY Zenon DEF Steady
  <2> QED BY <2>1
<1>3. \A k \in 1..Len(ops) : /\ BootOp(ops[k], k, headers', currentHeader', headBlockHash')
                             /\ Repaired(ops, k, headers', headBlockHash')
  BY <1>2, Zenon DEF Steady, BootOp, Repaired
<1>4. BootPlan' /\ holder' = holder
  BY <1>1, <1>2, <1>3, BootOn, Zenon
<1>5. OwnerPlan'
  BY <1>1, <1>4, Zenon DEF OwnerPlan, Writer
<1>6. Intact' /\ ParentsStored' /\ ~panicked' /\ HeadKnown'
  BY Zenon DEF RecoveryInv, Intact, ParentsStored, HeadKnown
<1> QED BY <1>5, <1>6, Zenon DEF RecoveryInv

(* An operation that moves neither the database nor the head block.        *)
LEMMA OpFinished ==
  ASSUME RecoveryInv, Sound', NEW name, At(name), name \notin {"written", "batch"} \cup Repairs,
         Then(<<>>),
         UNCHANGED <<headers, bodies, states, up, panicked, pc, blk, currentBlock, headBlockHash>>
  PROVE  RecoveryInv'
<1>1. \A S : <<>> \in Seq(S)
  OBVIOUS
<1>2. currentBlock \in headers \/ (holder \in Writer /\ currentBlock = blk[holder])
  BY Zenon DEF RecoveryInv, HeadKnown
<1>3. CASE holder \in Writer
  BY <1>1, <1>2, <1>3, WriterGoes, Zenon
<1>4. CASE holder = "boot"
  <2>1. holder \notin Writer
    BY <1>4, Zenon DEF Writer
  <2> QED BY <1>1, <1>2, <1>4, <2>1, BootGoes, Zenon
<1> QED BY <1>3, <1>4, AtPlace, Zenon

(* The operations of a critical section.                                   *)
LEMMA QuietSteps ==
  ASSUME RecoveryInv, Sound',
         \/ WriteTd \/ SetCurrentHeader \/ WriteHeadFastBlockHash \/ WriteTxLookupEntries
         \/ DeleteTxLookupEntries \/ ResetFastHead
  PROVE  RecoveryInv'
<1>1. PICK name \in {"td", "headHeader", "headFast", "lookup", "unlookup", "fastMem"} :
        /\ At(name) /\ Then(<<>>)
        /\ UNCHANGED <<headers, bodies, states, up, panicked, pc, blk, currentBlock, headBlockHash>>
  BY Zenon DEF WriteTd, SetCurrentHeader, WriteHeadFastBlockHash, WriteTxLookupEntries,
     DeleteTxLookupEntries, ResetFastHead
<1>2. name \notin {"written", "batch"} \cup Repairs
  BY <1>1, Zenon DEF Repairs
<1> QED BY <1>1, <1>2, OpFinished, Zenon

(* Nothing that deletes a block, and no failed reorganisation, is pending. *)
LEMMA NeverPending ==
  ASSUME RecoveryInv
  PROVE  ~Failed /\ ~DeleteBody /\ ~DeleteHeader /\ ~DeleteTd
<1>1. ASSUME NEW name \in {"failed", "delBody", "delHeader", "delTd"}, At(name) PROVE FALSE
  BY <1>1, AtPlace, Zenon DEF WriteOp, WriteOps, BootOp, BootOps
<1> QED BY <1>1, Zenon DEF Failed, DeleteBody, DeleteHeader, DeleteTd

(* Head operations on a stored block, or on the block being written.       *)
LEMMA HeadMoves ==
  ASSUME NEW b \in Block, NEW c, NEW S, b \in S \cup {c}
  PROVE  /\ OfBlock("headBlock", b) \in Ongoing(c, S)
         /\ OfBlock("headHeader", b) \in Ongoing(c, S)
         /\ OfBlock("headFast", b) \in Ongoing(c, S)
         /\ OfBlock("insert", b) \in Ongoing(c, S)
         /\ OfBlock("lookup", b) \in Ongoing(c, S)
         /\ OfBlock("headHeader", b) \in Steady(S)
         /\ OfBlock("headFast", b) \in Steady(S)
         /\ b \in S => OfBlock("headBlock", b) \in Steady(S)
         /\ \A o \in Block : Op("reorg", b, o, 0, 0) \in Ongoing(c, S)
<1>1. \A name \in OpName, o \in Block : Op(name, b, o, 0, 0) \in Ops
  BY OpMade
<1>2. \A name, o : Op(name, b, o, 0, 0).op = name /\ Op(name, b, o, 0, 0).b = b
  BY Zenon DEF Op
<1>3. \A name \in WriteOps \ {"batch", "written"}, o \in Block :
        Op(name, b, o, 0, 0) \in Ongoing(c, S)
  BY <1>1, <1>2, Zenon DEF Ongoing, WriteOp, WriteOps, OpName
<1>4. \A name \in {"headHeader", "headFast"} : Op(name, b, b, 0, 0) \in Steady(S)
  BY <1>1, <1>2, Zenon DEF Steady, BootOps, OpName
<1>5. b \in S => Op("headBlock", b, b, 0, 0) \in Steady(S)
  BY <1>1, <1>2, Zenon DEF Steady, BootOps, OpName
<1> QED BY <1>3, <1>4, <1>5, Zenon DEF OfBlock, WriteOps

LEMMA InsertRecovers ==
  ASSUME RecoveryInv, Sound', Insert
  PROVE  RecoveryInv'
<1>1. At("insert") /\ UNCHANGED <<headers, bodies, states, up, panicked, pc, blk, currentBlock,
                                   headBlockHash>>
  BY Zenon DEF Insert
<1>2. PICK b \in Block : b = todo[1].b
  BY <1>1, AtPlace, Zenon DEF Ops
<1>3. \/ Then(<<OfBlock("headBlock", b)>> \o <<OfBlock("headHeader", b), OfBlock("headFast", b)>>)
      \/ Then(<<OfBlock("headBlock", b)>> \o <<>>)
  BY <1>2, Zenon DEF Insert
<1>4. \A S : OfBlock("headBlock", b) \in S /\ OfBlock("headHeader", b) \in S
             /\ OfBlock("headFast", b) \in S
        => /\ <<OfBlock("headBlock", b)>> \o <<OfBlock("headHeader", b), OfBlock("headFast", b)>>
                \in Seq(S)
           /\ <<OfBlock("headBlock", b)>> \o <<>> \in Seq(S)
  OBVIOUS
<1>5. CASE holder \in Writer
  <2>1. b \in headers \cup {blk[holder]}
    BY <1>1, <1>2, <1>5, AtPlace, Zenon DEF WriteOp, Writer
  <2>2. currentBlock \in headers \cup {blk[holder]}
    BY Zenon DEF RecoveryInv, HeadKnown
  <2>3. PICK ops \in Seq(Ongoing(blk[holder], headers)) : Then(ops)
    BY <1>3, <1>4, <2>1, HeadMoves, Zenon
  <2> QED BY <1>1, <1>5, <2>2, <2>3, WriterGoes, Zenon
<1>6. CASE holder = "boot"
  <2>1. holder \notin Writer
    BY <1>6, Zenon DEF Writer
  <2>2. b \in headers
    BY <1>1, <1>2, <2>1, AtPlace, Zenon DEF BootOp
  <2>3. currentBlock \in headers
    BY <2>1, Zenon DEF RecoveryInv, HeadKnown
  <2>4. PICK ops \in Seq(Steady(headers)) : Then(ops)
    <3>1. /\ OfBlock("headBlock", b) \in Steady(headers)
          /\ OfBlock("headHeader", b) \in Steady(headers)
          /\ OfBlock("headFast", b) \in Steady(headers)
      BY <2>2, HeadMoves, Zenon
    <3> QED BY <1>3, <1>4, <3>1, Zenon
  <2> QED BY <1>1, <1>6, <2>3, <2>4, BootGoes DEF Repairs
<1> QED BY <1>1, <1>5, <1>6, AtPlace, Zenon

LEMMA HeadBlockRecovers ==
  ASSUME RecoveryInv, Sound', WriteHeadBlockHash
  PROVE  RecoveryInv'
<1>1. /\ At("headBlock") /\ Then(<<>>) /\ currentBlock' = todo[1].b /\ headBlockHash' = todo[1].b
      /\ UNCHANGED <<headers, bodies, states, up, panicked, pc, blk>>
  BY Zenon DEF WriteHeadBlockHash
<1>2. \A S : <<>> \in Seq(S)
  OBVIOUS
<1>3. CASE holder \in Writer
  <2>1. todo[1].b \in headers \cup {blk[holder]}
    BY <1>1, <1>3, AtPlace, Zenon DEF WriteOp, Writer
  <2> QED BY <1>1, <1>2, <1>3, <2>1, WriterGoes, Zenon
<1>4. CASE holder = "boot"
  <2>1. todo[1].b \in headers
    BY <1>1, <1>4, AtPlace, Zenon DEF BootOp, Writer
  <2> QED BY <1>1, <1>2, <1>4, <2>1, BootGoes, Zenon
<1> QED BY <1>1, <1>3, <1>4, AtPlace, Zenon

(* reorg walks down stored blocks, from the one being written.             *)
LEMMA ReorgRecovers ==
  ASSUME RecoveryInv, Sound', Reorg
  PROVE  RecoveryInv'
<1>1. At("reorg") /\ UNCHANGED <<headers, bodies, states, up, panicked, pc, blk, currentBlock>>
  BY Zenon DEF Reorg
<1>2. PICK b \in Block, o \in Block : b = todo[1].b /\ o = todo[1].o
  BY <1>1, AtPlace, Zenon DEF Ops
<1>3. \/ Then(<<>>)
      \/ Then(<<OfBlock("insert", b), OfBlock("lookup", b), Op("reorg", parent[b], o, 0, 0)>>)
  BY <1>2, Zenon DEF Reorg
<1>4. holder \in Writer /\ b \in headers \cup {blk[holder]}
  BY <1>1, <1>2, AtPlace DEF WriteOp, BootOp, BootOps
<1>5. parent[b] \in headers /\ parent[b] \in Block
  <2>1. parent[blk[holder]] \in headers
    BY <1>4, Zenon DEF RecoveryInv, OwnerPlan, ParentsStored, Underway
  <2>2. headers \subseteq Block
    BY Zenon DEF RecoveryInv, Sound, TypeOK
  <2> QED BY <1>4, <2>1, <2>2, StoredChain, Zenon DEF RecoveryInv
<1>6. currentBlock \in headers \cup {blk[holder]}
  BY Zenon DEF RecoveryInv, HeadKnown
<1>7. \A S : /\ <<>> \in Seq(S)
             /\ \A u, v, w \in S : <<u, v, w>> \in Seq(S)
  OBVIOUS
<1>8. PICK ops \in Seq(Ongoing(blk[holder], headers)) : Then(ops)
  BY <1>3, <1>4, <1>5, <1>7, HeadMoves, Zenon
<1> QED BY <1>1, <1>4, <1>6, <1>8, WriterGoes, Zenon

(* batch.Write stores the block whose parent its caller found.             *)
LEMMA BatchRecovers ==
  ASSUME RecoveryInv, Sound', WriteBatch
  PROVE  RecoveryInv'
<1>1. /\ At("batch") /\ Then(<<>>) /\ UNCHANGED <<up, panicked, pc, blk, currentBlock>>
      /\ headers' = headers \cup {todo[1].b} /\ bodies' = bodies \cup {todo[1].b}
      /\ states' = states \cup {todo[1].b}
  BY Zenon DEF WriteBatch
<1>2. holder \in Writer /\ todo[1].b = blk[holder]
  <2>1. todo[1].op = "batch"
    BY <1>1, Zenon DEF At
  <2>2. ~BootOp(todo[1], 1, headers, currentHeader, headBlockHash)
    BY <2>1, Zenon DEF BootOp, BootOps
  <2> QED BY <1>1, <2>1, <2>2, AtPlace, Zenon DEF WriteOp
<1>3. /\ TypeOK /\ WritePlan(blk[holder]) /\ up = "up" /\ pc[holder] = "locked"
      /\ parent[blk[holder]] \in headers
  BY <1>2, Zenon DEF RecoveryInv, Sound, OwnerPlan, ParentsStored, Underway
<1>4. PICK b : b = blk[holder]
  BY Zenon
<1>5. <<>> \in Seq(Ops) /\ Len(<<>>) = 0 /\ 1..0 = {}
  OBVIOUS
<1>6. WritePlan(b)' /\ holder' = holder
  BY <1>1, <1>2, <1>3, <1>4, <1>5, WriteOn, Zenon
<1>7. OwnerPlan'
  BY <1>1, <1>2, <1>3, <1>4, <1>6, Zenon DEF OwnerPlan, WritePlan, Writer
<1>8. Intact'
  BY <1>1, <1>2, <1>3, StoreIntact, Zenon DEF RecoveryInv
<1>9. ParentsStored' /\ ~panicked' /\ HeadKnown'
  BY <1>1, <1>6, Zenon DEF RecoveryInv, ParentsStored, HeadKnown
<1> QED BY <1>7, <1>8, <1>9, Zenon DEF RecoveryInv

(* The block is stored when mu is released.                                *)
LEMMA WrittenRecovers ==
  ASSUME RecoveryInv, Sound', Written
  PROVE  RecoveryInv'
<1>1. /\ At("written") /\ todo' = <<>> /\ holder' = "none"
      /\ UNCHANGED <<headers, bodies, states, up, panicked, blk, currentBlock>>
  BY Zenon DEF Written, Enter
<1>2. holder \in Writer /\ blk[holder] \in headers
  BY <1>1, AtPlace DEF BootOp, BootOps
<1>3. currentBlock \in headers
  BY <1>2, Zenon DEF RecoveryInv, HeadKnown
<1>4. PICK w \in Writer, p \in {"idle", "next"} : pc' = [pc EXCEPT ![w] = p]
  BY Zenon DEF Written, Advance, Writer
<1>5. pc \in [Writer -> PcName]
  BY Zenon DEF RecoveryInv, Sound, TypeOK
<1>6. \A v \in Writer : pc'[v] \in Underway => pc[v] \in Underway
  BY <1>4, <1>5, Zenon DEF Underway
<1>7. ParentsStored' /\ Intact' /\ ~panicked' /\ HeadKnown'
  BY <1>1, <1>3, <1>6, Zenon DEF RecoveryInv, ParentsStored, Intact, HeadKnown
<1>8. OwnerPlan'
  BY <1>1, Zenon DEF OwnerPlan, Writer
<1> QED BY <1>7, <1>8, Zenon DEF RecoveryInv

(* Start-up is over.                                                       *)
LEMMA UnlockRecovers ==
  ASSUME RecoveryInv, Sound', Unlock
  PROVE  RecoveryInv'
<1>1. /\ At("unlock") /\ todo' = <<>> /\ holder' = "none"
      /\ UNCHANGED <<headers, bodies, states, panicked, pc, blk, currentBlock>>
  BY Zenon DEF Unlock, Enter
<1>2. holder = "boot" /\ holder \notin Writer
  BY <1>1, AtPlace DEF WriteOp, WriteOps, Writer
<1>3. up = "boot" /\ currentBlock \in headers
  BY <1>2, Zenon DEF RecoveryInv, OwnerPlan, HeadKnown
<1>4. ParentsStored' /\ Intact' /\ ~panicked' /\ HeadKnown'
  BY <1>1, <1>3, Zenon DEF RecoveryInv, ParentsStored, Intact, HeadKnown
<1>5. OwnerPlan'
  BY <1>1, Zenon DEF OwnerPlan, Writer
<1> QED BY <1>4, <1>5, Zenon DEF RecoveryInv

(* The reset of a chain whose head block is missing: SetHead(0) starts at  *)
(* the genesis header and deletes nothing.                                 *)
LEMMA Booting ==
  ASSUME RecoveryInv, NEW name \in BootOps \ WriteOps, At(name)
  PROVE  /\ holder = "boot" /\ holder \notin Writer /\ up = "boot" /\ TypeOK /\ BootPlan
         /\ currentBlock \in headers /\ currentHeader \in Block /\ Genesis \in headers
         /\ BootOp(todo[1], 1, headers, currentHeader, headBlockHash)
         /\ todo[1] \in Ops /\ todo[1].op = name
<1>1. holder = "boot" /\ holder \notin Writer
  BY AtPlace, Zenon DEF WriteOp, Writer
<1> QED BY <1>1, AtPlace, Zenon DEF RecoveryInv, Sound, TypeOK, OwnerPlan, HeadKnown, Intact

LEMMA BeginRecovers ==
  ASSUME RecoveryInv, Sound', BeginSetHead
  PROVE  RecoveryInv'
<1> DEFINE n == todo[1].n
           h == number[currentHeader]
           ops == <<OfNumber("rewind", n), Op("delCanon", Genesis, Genesis, h, n),
                    OfNumber("setHeader", 0), OfNumber("rewindBlocks", 0), OfNumber("load", 1)>>
<1>1. /\ At("setHead") /\ Then(ops)
      /\ UNCHANGED <<headers, bodies, states, up, panicked, pc, blk, currentBlock, currentHeader,
                     headBlockHash>>
  BY Zenon DEF BeginSetHead
<1>2. /\ holder = "boot" /\ holder \notin Writer /\ up = "boot" /\ TypeOK /\ BootPlan
      /\ currentBlock \in headers /\ currentHeader = Genesis /\ n \in Int /\ h \in Int
      /\ Genesis \in Block
  BY <1>1, Booting, HeightType, TreeAssumption DEF BootOps, WriteOps, BootOp, Ops
<1>3. ops \in Seq(Ops)
  <2>1. /\ OfNumber("rewind", n) \in Ops /\ Op("delCanon", Genesis, Genesis, h, n) \in Ops
        /\ OfNumber("setHeader", 0) \in Ops /\ OfNumber("rewindBlocks", 0) \in Ops
        /\ OfNumber("load", 1) \in Ops
    <3>1. {"rewind", "delCanon", "setHeader", "rewindBlocks", "load"} \subseteq OpName
      BY DEF OpName
    <3>2. 0 \in Int /\ 1 \in Int
      OBVIOUS
    <3> QED BY <1>2, <3>1, <3>2, OpMade, Zenon DEF OfNumber
  <2> QED BY <2>1, OpsListed, Zenon
<1>4. /\ Len(ops) = 5 /\ ops[1].op = "rewind" /\ ops[2].op = "delCanon" /\ ops[3].op = "setHeader"
      /\ ops[4].op = "rewindBlocks" /\ ops[5].op = "load" /\ ops[5].n = 1
  BY Zenon DEF OfNumber, Op
<1> HIDE DEF ops
<1>5. ASSUME NEW k \in 1..Len(ops)
      PROVE  /\ BootOp(ops[k], k, headers', currentHeader', headBlockHash')
             /\ Repaired(ops, k, headers', headBlockHash')
  <2>1. k \in {1, 2, 3, 4, 5} /\ 4 \in 1..(5 - 1)
    BY <1>4
  <2>2. BootOp(ops[k], k, headers', currentHeader', headBlockHash')
    BY <1>1, <1>2, <1>4, <2>1, Zenon DEF BootOp, BootOps
  <2>3. Repaired(ops, k, headers', headBlockHash')
    BY <1>4, <2>1, Zenon DEF Repaired, Repairs
  <2> QED BY <2>2, <2>3, Zenon
<1>6. BootPlan' /\ holder' = holder
  <2>1. "setHead" \notin Repairs /\ headers \subseteq headers'
    BY <1>1, Zenon DEF Repairs
  <2>2. headBlockHash \in headers => headBlockHash' \in headers'
    BY <1>1, Zenon
  <2> QED BY <1>1, <1>2, <1>3, <1>5, <2>1, <2>2, BootOn, Zenon
<1>7. OwnerPlan'
  BY <1>1, <1>2, <1>6, Zenon DEF OwnerPlan, Writer
<1>8. Intact' /\ ParentsStored' /\ ~panicked' /\ HeadKnown'
  BY <1>1, <1>2, Zenon DEF RecoveryInv, Intact, ParentsStored, HeadKnown
<1> QED BY <1>7, <1>8, Zenon DEF RecoveryInv

LEMMA RewindRecovers ==
  ASSUME RecoveryInv, Sound', Rewind
  PROVE  RecoveryInv'
<1>1. At("rewind") /\ UNCHANGED <<headers, bodies, states, up, panicked, pc, blk, currentBlock,
                                   headBlockHash>>
  BY Zenon DEF Rewind
<1>2. currentHeader = Genesis
  BY <1>1, Booting, Zenon DEF BootOps, WriteOps, BootOp
<1>3. todo[1].n \in Nat
  BY <1>1, AtPlace, FirstSound, Zenon DEF RecoveryInv
<1>4. ~(number[currentHeader] > todo[1].n)
  BY <1>2, <1>3, TreeAssumption
<1>5. Then(<<>>)
  BY <1>4, Zenon DEF Rewind
<1> QED BY <1>1, <1>5, OpFinished, Zenon DEF Repairs

LEMMA TableRecovers ==
  ASSUME RecoveryInv, Sound', DeleteCanonicalHash \/ StoreHeader
  PROVE  RecoveryInv'
<1>1. PICK name \in {"delCanon", "setHeader"} : At(name)
  BY Zenon DEF DeleteCanonicalHash, StoreHeader
<1>2. UNCHANGED <<headers, bodies, states, up, panicked, pc, blk, currentBlock, headBlockHash>>
  BY Zenon DEF DeleteCanonicalHash, StoreHeader
<1>3. /\ holder = "boot" /\ currentBlock \in headers /\ currentHeader \in Block /\ todo[1] \in Ops
      /\ name \notin Repairs
  BY <1>1, Booting, Zenon DEF BootOps, WriteOps, Repairs
<1>4. PICK i \in Int, n \in Int : i = todo[1].n /\ n = todo[1].m
  BY <1>3, Zenon DEF Ops
<1>5. \/ Then(<<>>) \/ Then(<<Op("delCanon", Genesis, Genesis, i - 1, n)>>)
      \/ Then(<<OfBlock("headHeader", currentHeader)>>)
  BY <1>4, Zenon DEF DeleteCanonicalHash, StoreHeader
<1>6. Op("delCanon", Genesis, Genesis, i - 1, n) \in Steady(headers)
  <2>1. Op("delCanon", Genesis, Genesis, i - 1, n) \in Ops
    BY TreeAssumption, OpMade DEF OpName
  <2> QED BY <2>1, Zenon DEF Steady, BootOps, Op
<1>7. OfBlock("headHeader", currentHeader) \in Steady(headers)
  BY <1>3, HeadMoves, Zenon
<1>8. \A S : <<>> \in Seq(S) /\ \A e \in S : <<e>> \in Seq(S)
  OBVIOUS
<1>9. PICK ops \in Seq(Steady(headers)) : Then(ops)
  BY <1>5, <1>6, <1>7, <1>8, Zenon
<1> QED BY <1>1, <1>2, <1>3, <1>9, BootGoes, Zenon

(* The head block falls back on a stored block.                            *)
LEMMA FollowRecovers ==
  ASSUME RecoveryInv, Sound', RewindBlocks
  PROVE  RecoveryInv'
<1>1. At("rewindBlocks") /\ UNCHANGED <<headers, bodies, states, up, panicked, pc, blk,
                                         currentBlock, headBlockHash>>
  BY Zenon DEF RewindBlocks
<1>2. /\ holder = "boot" /\ currentBlock \in headers /\ currentHeader \in Block
      /\ Genesis \in headers
  BY <1>1, Booting, Zenon DEF BootOps, WriteOps
<1>3. headers \subseteq Block /\ currentFastBlock \in Block
  BY Zenon DEF RecoveryInv, Sound, TypeOK
<1> DEFINE follow(b) == IF number[currentHeader] >= number[b] THEN b
                        ELSE IF currentHeader \in Full THEN currentHeader ELSE Genesis
           head == IF follow(currentBlock) \in states THEN follow(currentBlock) ELSE Genesis
<1>4. PICK x \in headers : x = head
  BY <1>2, Zenon DEF Full
<1>5. PICK y \in Block : y = follow(currentFastBlock)
  BY <1>2, <1>3, Zenon DEF Full
<1>6. Then(<<OfBlock("headBlock", x), OfBlock("headFast", y)>>)
  BY <1>4, <1>5, Zenon DEF RewindBlocks
<1>7. OfBlock("headBlock", x) \in Steady(headers) /\ OfBlock("headFast", y) \in Steady(headers)
  BY <1>3, <1>4, <1>5, HeadMoves, Zenon
<1>8. OfBlock("headBlock", x).op \in Repairs
  BY Zenon DEF OfBlock, Op, Repairs
<1> DEFINE ops == <<OfBlock("headBlock", x), OfBlock("headFast", y)>>
<1>9. ops \in Seq(Steady(headers)) /\ 1 \in 1..Len(ops) /\ ops[1] = OfBlock("headBlock", x)
  BY <1>7
<1> HIDE DEF ops
<1> QED BY <1>1, <1>2, <1>6, <1>8, <1>9, BootGoes, Zenon DEF ops

(* loadLastState: a head block that is not stored resets the chain, from   *)
(* outside the critical section of SetHead only.                           *)
LEMMA LoadRecovers ==
  ASSUME RecoveryInv, Sound', LoadLastState
  PROVE  RecoveryInv'
<1> DEFINE found == IF headHeaderHash # None /\ headHeaderHash \in headers
                    THEN headHeaderHash ELSE headBlockHash
           ops == <<OfNumber("setHead", 0), Op("td", Genesis, Genesis, 0, 0),
                    OfBlock("putBlock", Genesis), OfBlock("insert", Genesis),
                    OfBlock("headHeader", Genesis), OfBlock("fastMem", Genesis)>>
<1>1. At("load") /\ UNCHANGED <<headers, bodies, states, up, panicked, pc, blk, currentHeader,
                                 headBlockHash>>
  BY Zenon DEF LoadLastState
<1>2. /\ holder = "boot" /\ holder \notin Writer /\ up = "boot" /\ TypeOK /\ BootPlan
      /\ currentBlock \in headers /\ Genesis \in headers
      /\ BootOp(todo[1], 1, headers, currentHeader, headBlockHash) /\ todo[1].op = "load"
  BY <1>1, Booting, Zenon DEF BootOps, WriteOps
<1>3. headBlockHash \in Block /\ headHeaderHash \in Block /\ headBlockHash # None /\ Genesis \in Block
  BY TreeAssumption, Zenon DEF RecoveryInv, Sound, TypeOK
<1>4. Full = headers /\ headers \subseteq states
  BY Zenon DEF RecoveryInv, Intact, Full
<1>5. CASE headBlockHash \in headers
  <2>1. headBlockHash # None /\ headBlockHash \in Full /\ headBlockHash \in states
    BY <1>3, <1>4, <1>5, Zenon
  <2>2. currentBlock' = headBlockHash /\ Then(<<OfBlock("headHeader", found)>>)
    BY <2>1, Zenon DEF LoadLastState
  <2>3. <<OfBlock("headHeader", found)>> \in Seq(Steady(headers))
    <3>1. found \in Block
      BY <1>3, Zenon
    <3>2. OfBlock("headHeader", found) \in Steady(headers)
      BY <3>1, HeadMoves, Zenon
    <3> QED BY <3>2
  <2> QED BY <1>1, <1>2, <1>5, <2>2, <2>3, BootGoes, Zenon DEF Repairs
<1>6. CASE headBlockHash \notin headers
  <2> USE <1>6
  <2>0. ~(headBlockHash # None /\ headBlockHash \in Full /\ headBlockHash \in states)
    BY <1>4, Zenon
  <2>1. todo[1].n = 0
    <3>1. Repaired(todo, 1, headers, headBlockHash)
      BY <1>1, <1>2, AtPlace, Zenon
    <3>2. 1..(1 - 1) = {}
      OBVIOUS
    <3> QED BY <1>2, <3>1, <3>2, Zenon DEF Repaired
  <2>2. currentHeader = Genesis
    BY <1>2, <2>1, Zenon DEF BootOp
  <2>3. Then(ops) /\ UNCHANGED currentBlock
    BY <2>0, <2>1, Zenon DEF LoadLastState
  <2>4. ops \in Seq(Ops)
    <3>1. /\ OfNumber("setHead", 0) \in Ops /\ Op("td", Genesis, Genesis, 0, 0) \in Ops
          /\ OfBlock("putBlock", Genesis) \in Ops /\ OfBlock("insert", Genesis) \in Ops
          /\ OfBlock("headHeader", Genesis) \in Ops /\ OfBlock("fastMem", Genesis) \in Ops
      BY <1>3, OpMade DEF OfNumber, OfBlock, OpName
    <3> QED BY <3>1, OpsListed
  <2>5. /\ Len(ops) = 6 /\ ops[1].op = "setHead" /\ ops[2].op = "td" /\ ops[3].op = "putBlock"
        /\ ops[4].op = "insert" /\ ops[4].b = Genesis
        /\ ops[5].op = "headHeader" /\ ops[6].op = "fastMem"
    BY Zenon DEF OfNumber, OfBlock, Op
  <2> HIDE DEF ops
  <2>6. ASSUME NEW k \in 1..Len(ops)
        PROVE  /\ BootOp(ops[k], k, headers', currentHeader', headBlockHash')
               /\ Repaired(ops, k, headers', headBlockHash')
    <3>1. k \in {1, 2, 3, 4, 5, 6}
      BY <2>5
    <3>2. BootOp(ops[k], k, headers', currentHeader', headBlockHash')
      BY <1>1, <1>2, <2>2, <2>5, <3>1, Zenon DEF BootOp, BootOps
    <3>3. Repaired(ops, k, headers', headBlockHash')
      BY <2>5, <3>1, Zenon DEF Repaired
    <3> QED BY <3>2, <3>3, Zenon
  <2>7. BootPlan' /\ holder' = holder
    BY <1>1, <1>2, <2>3, <2>4, <2>6, BootOn, Zenon DEF Repairs
  <2>8. OwnerPlan'
    BY <1>1, <1>2, <2>7, Zenon DEF OwnerPlan, Writer
  <2>9. Intact' /\ ParentsStored' /\ ~panicked' /\ HeadKnown'
    BY <1>1, <1>2, <2>3, Zenon DEF RecoveryInv, Intact, ParentsStored, HeadKnown
  <2> QED BY <2>8, <2>9, Zenon DEF RecoveryInv
<1> QED BY <1>5, <1>6, Zenon

(* The genesis block is written again.                                     *)
LEMMA GenesisRecovers ==
  ASSUME RecoveryInv, Sound', WriteGenesis
  PROVE  RecoveryInv'
<1>1. /\ At("putBlock") /\ Then(<<>>)
      /\ headers' = headers \cup {todo[1].b} /\ bodies' = bodies \cup {todo[1].b}
      /\ UNCHANGED <<states, up, panicked, pc, blk, currentBlock, headBlockHash>>
  BY Zenon DEF WriteGenesis
<1>2. todo[1].b = Genesis
  BY <1>1, AtPlace, FirstSound, Zenon DEF RecoveryInv
<1>3. UNCHANGED <<headers, bodies>>
  BY <1>1, <1>2, Zenon DEF RecoveryInv, Intact
<1> QED BY <1>1, <1>3, OpFinished, Zenon DEF Repairs

(* Every step of a critical section keeps the invariant.                   *)
LEMMA SectionRecovers ==
  ASSUME RecoveryInv, Sound', Section
  PROVE  RecoveryInv'
BY QuietSteps, NeverPending, InsertRecovers, HeadBlockRecovers, ReorgRecovers, BatchRecovers,
   WrittenRecovers, UnlockRecovers, BeginRecovers, RewindRecovers, TableRecovers, FollowRecovers,
   LoadRecovers, GenesisRecovers, Zenon DEF Section

-----------------------------------------------------------------------------
(* Outside mu.                                                             *)

(* A step outside mu that leaves the database and the owner of mu alone.   *)
LEMMA OutsideGoes ==
  ASSUME RecoveryInv, Sound',
         UNCHANGED <<headers, bodies, states, up, panicked, todo, holder, currentBlock,
                     currentHeader, headBlockHash>>,
         holder \in Writer => pc'[holder] = pc[holder] /\ blk'[holder] = blk[holder],
         \A w \in Writer : pc'[w] \in Underway => up = "up" /\ parent[blk'[w]] \in headers
  PROVE  RecoveryInv'
<1>1. Intact' /\ ParentsStored' /\ ~panicked' /\ HeadKnown'
  BY Zenon DEF RecoveryInv, Intact, ParentsStored, HeadKnown
<1>2. CASE holder \in Writer
  <2> USE <1>2
  <2>1. PICK b : b = blk[holder] /\ b = blk'[holder']
    BY Zenon
  <2>2. WritePlan(b)'
    BY <2>1, Zenon DEF RecoveryInv, OwnerPlan, WritePlan
  <2>3. OwnerPlan'
    BY <2>1, <2>2, Zenon DEF RecoveryInv, OwnerPlan, Writer, WritePlan
  <2> QED BY <1>1, <2>3, Zenon DEF RecoveryInv
<1>3. CASE holder \notin Writer
  <2>1. OwnerPlan'
    BY <1>3, Zenon DEF RecoveryInv, OwnerPlan, BootPlan
  <2> QED BY <1>1, <2>1, Zenon DEF RecoveryInv
<1> QED BY <1>2, <1>3, Zenon

(* A caller of WriteBlockAndState that does not own mu moves on, with a    *)
(* block whose parent is stored or with none.                              *)
LEMMA CallerGoes ==
  ASSUME RecoveryInv, Sound', NEW w \in Writer, NEW p, NEW b, pc[w] # "locked",
         UNCHANGED <<headers, bodies, states, up, panicked, todo, holder, currentBlock,
                     currentHeader, headBlockHash>>,
         pc' = [pc EXCEPT ![w] = p], blk' = [blk EXCEPT ![w] = b],
         p \in Underway => up = "up" /\ parent[b] \in headers
  PROVE  RecoveryInv'
<1>1. pc \in [Writer -> PcName] /\ blk \in [Writer -> Block]
  BY Zenon DEF RecoveryInv, Sound, TypeOK
<1>2. holder \in Writer => holder # w
  BY Zenon DEF RecoveryInv, OwnerPlan
<1>3. holder \in Writer => pc'[holder] = pc[holder] /\ blk'[holder] = blk[holder]
  BY <1>1, <1>2, Zenon
<1>4. ASSUME NEW v \in Writer, pc'[v] \in Underway PROVE up = "up" /\ parent[blk'[v]] \in headers
  <2>1. CASE v = w
    BY <1>1, <1>4, <2>1, Zenon
  <2>2. CASE v # w
    BY <1>1, <1>4, <2>2, Zenon DEF RecoveryInv, ParentsStored
  <2> QED BY <2>1, <2>2, Zenon
<1> QED BY <1>3, <1>4, OutsideGoes, Zenon

(* Its block stays the same.                                               *)
LEMMA CallerSteps ==
  ASSUME RecoveryInv, Sound', NEW w \in Writer, NEW p, pc[w] # "locked",
         UNCHANGED <<headers, bodies, states, up, panicked, todo, holder, currentBlock,
                     currentHeader, headBlockHash, blk>>,
         pc' = [pc EXCEPT ![w] = p], p \in Underway => pc[w] \in Underway
  PROVE  RecoveryInv'
<1>1. blk' = [blk EXCEPT ![w] = blk[w]]
  BY Zenon DEF RecoveryInv, Sound, TypeOK
<1>2. p \in Underway => up = "up" /\ parent[blk[w]] \in headers
  BY Zenon DEF RecoveryInv, ParentsStored
<1> QED BY <1>1, <1>2, CallerGoes, Zenon

(* The death of the process leaves the database as it is.                  *)
LEMMA DeathRecovers ==
  ASSUME RecoveryInv, Sound', Die, UNCHANGED <<headers, bodies, states, panicked>>
  PROVE  RecoveryInv'
<1>1. /\ todo' = <<>> /\ holder' = "none" /\ currentBlock' = Genesis
      /\ pc' = [v \in Writer |-> "idle"]
  BY Zenon DEF Die, Idle
<1>2. ParentsStored'
  BY <1>1, Zenon DEF ParentsStored, Underway
<1>3. Intact' /\ ~panicked' /\ HeadKnown'
  BY <1>1, Zenon DEF RecoveryInv, Intact, HeadKnown
<1>4. OwnerPlan'
  BY <1>1, Zenon DEF OwnerPlan, Writer
<1> QED BY <1>2, <1>3, <1>4, Zenon DEF RecoveryInv

(* The process starts.                                                     *)
LEMMA StartRecovers ==
  ASSUME RecoveryInv, Sound', NewBlockChain
  PROVE  RecoveryInv'
<1>1. /\ up = "down" /\ up' = "boot" /\ holder' = "boot"
      /\ todo' = <<OfNumber("load", 0), OfNumber("unlock", 0)>>
      /\ currentHeader' = IF headBlockHash \in headers THEN headBlockHash ELSE Genesis
      /\ UNCHANGED <<headers, bodies, states, panicked, pc, blk, currentBlock, headBlockHash>>
  BY Zenon DEF NewBlockChain, Enter
<1>2. holder \notin Writer
  BY <1>1, Zenon DEF RecoveryInv, OwnerPlan
<1>3. Len(todo') = 2 /\ todo'[1].op = "load" /\ todo'[1].n = 0 /\ todo'[2].op = "unlock"
  BY <1>1, Zenon DEF OfNumber, Op
<1>4. ASSUME NEW i \in 1..Len(todo')
      PROVE  /\ BootOp(todo'[i], i, headers', currentHeader', headBlockHash')
             /\ Repaired(todo', i, headers', headBlockHash')
  <2>1. i \in {1, 2}
    BY <1>3
  <2> QED BY <1>1, <1>3, <2>1, Zenon DEF BootOp, BootOps, Repaired
<1>5. BootPlan'
  BY <1>4, Zenon DEF BootPlan
<1>6. OwnerPlan'
  BY <1>1, <1>5, Zenon DEF OwnerPlan, Writer
<1>7. Intact' /\ ParentsStored' /\ ~panicked' /\ HeadKnown'
  BY <1>1, <1>2, Zenon DEF RecoveryInv, Intact, ParentsStored, HeadKnown
<1> QED BY <1>6, <1>7, Zenon DEF RecoveryInv

(* insertChain between the blocks, the sweeper and the clock.              *)
LEMMA ChainRecovers ==
  ASSUME RecoveryInv, Sound',
         \/ SkipKnown \/ QueueFuture \/ RejectBlock \/ ProcFutureBlocks
         \/ \E b \in Block : InsertFuture(b) \/ TimePasses(b)
         \/ \E c \in Chains : InsertChain(c)
  PROVE  RecoveryInv'
<1>0. UNCHANGED <<headers, bodies, states, up, panicked, todo, holder, currentBlock,
                  currentHeader, headBlockHash, blk>>
  BY Zenon DEF SkipKnown, QueueFuture, RejectBlock, ProcFutureBlocks, InsertFuture, TimePasses,
         InsertChain
<1>1. \/ UNCHANGED pc
      \/ /\ pc["import"] \in {"idle", "next"}
         /\ \E p \in {"idle", "next"} : pc' = [pc EXCEPT !["import"] = p]
  BY Zenon DEF SkipKnown, QueueFuture, RejectBlock, ProcFutureBlocks, InsertFuture, TimePasses,
         InsertChain, Turn, Advance, Abort
<1>2. CASE UNCHANGED pc
  BY <1>0, <1>2, OutsideGoes, Zenon DEF RecoveryInv, ParentsStored
<1>3. CASE ~UNCHANGED pc
  <2>1. PICK p \in {"idle", "next"} : pc' = [pc EXCEPT !["import"] = p]
    BY <1>1, <1>3, Zenon
  <2>2. p \notin Underway /\ "import" \in Writer /\ pc["import"] # "locked"
    BY <1>1, <1>3, Zenon DEF Underway, Writer
  <2> QED BY <1>0, <2>1, <2>2, CallerSteps, Zenon
<1> QED BY <1>2, <1>3, Zenon

(* A block is taken up only when its parent is there.                      *)
LEMMA AcceptRecovers ==
  ASSUME RecoveryInv, Sound', AcceptBlock
  PROVE  RecoveryInv'
<1>1. PICK b : /\ Verdict(b) = "ok" /\ up = "up" /\ pc["import"] = "next"
               /\ pc' = [pc EXCEPT !["import"] = "process"]
               /\ blk' = [blk EXCEPT !["import"] = b]
  BY Zenon DEF AcceptBlock, Turn
<1>2. parent[b] \in headers
  BY <1>1, Zenon DEF Verdict, HasBlockAndState, Full
<1>3. UNCHANGED <<headers, bodies, states, up, panicked, todo, holder, currentBlock,
                  currentHeader, headBlockHash>>
  BY Zenon DEF AcceptBlock
<1> QED BY <1>1, <1>2, <1>3, CallerGoes, Zenon DEF Writer

(* The parent is still there when the block is processed.                  *)
LEMMA ProcessRecovers ==
  ASSUME RecoveryInv, Sound', ProcessBlock
  PROVE  RecoveryInv'
<1>1. "import" \in Writer /\ pc["import"] = "process" /\ "idle" \notin Underway
  BY Zenon DEF ProcessBlock, Writer, Underway
<1>2. parent[blk["import"]] \in Full
  BY <1>1, Zenon DEF RecoveryInv, ParentsStored, Intact, Full, Underway
<1>3. /\ UNCHANGED <<headers, bodies, states, up, panicked, todo, holder, currentBlock,
                     currentHeader, headBlockHash, blk>>
      /\ \E p \in {"idle", "ptd"} : pc' = [pc EXCEPT !["import"] = p]
  BY <1>2, Zenon DEF ProcessBlock, Abort
<1>4. PICK p \in {"idle", "ptd"} : pc' = [pc EXCEPT !["import"] = p]
  BY <1>3, Zenon
<1>5. p \in Underway => pc["import"] \in Underway
  BY <1>1, Zenon DEF Underway
<1> QED BY <1>1, <1>3, <1>4, <1>5, CallerSteps, Zenon

(* The read of the parent's total difficulty, and work that is given up.   *)
LEMMA ReadRecovers ==
  ASSUME RecoveryInv, Sound', NEW w \in Writer, ReadPtd(w) \/ (w = "mine" /\ AbandonWork)
  PROVE  RecoveryInv'
<1>1. pc[w] = "ptd" /\ pc[w] \in Underway
  BY Zenon DEF ReadPtd, AbandonWork, Underway
<1>2. /\ UNCHANGED <<headers, bodies, states, up, panicked, todo, holder, currentBlock,
                     currentHeader, headBlockHash, blk>>
      /\ \E p : pc' = [pc EXCEPT ![w] = p]
  BY Zenon DEF ReadPtd, AbandonWork, Abort
<1> QED BY <1>1, <1>2, CallerSteps, Zenon

(* A free mu belongs to nobody, and the head is stored.                    *)
LEMMA FreeHead ==
  ASSUME RecoveryInv, Free
  PROVE  holder = "none" /\ currentBlock \in headers
<1>1. holder \notin Writer
  BY DEF RecoveryInv, OwnerPlan, WritePlan, Free
<1>2. holder # "boot"
  BY Zenon DEF RecoveryInv, OwnerPlan, Free
<1> QED BY <1>1, <1>2, Zenon DEF RecoveryInv, OwnerPlan, HeadKnown

(* The miner starts on the head.                                           *)
LEMMA MineRecovers ==
  ASSUME RecoveryInv, Sound', NEW b \in Mined, CommitNewWork(b)
  PROVE  RecoveryInv'
<1>1. /\ Free /\ pc["mine"] = "idle" /\ parent[b] = currentBlock
      /\ pc' = [pc EXCEPT !["mine"] = "ptd"] /\ blk' = [blk EXCEPT !["mine"] = b]
      /\ UNCHANGED <<headers, bodies, states, up, panicked, todo, holder, currentBlock,
                     currentHeader, headBlockHash>>
  BY Zenon DEF CommitNewWork
<1>2. parent[b] \in headers /\ up = "up"
  BY <1>1, FreeHead, Zenon DEF Free
<1> QED BY <1>1, <1>2, CallerGoes, Zenon DEF Writer

(* What may come before the batch of block b, and a plan that ends well.   *)
Early(b) == {e \in Ops : e.op \in {"td", "reorg", "unlookup"} /\ e.b = b}
Fit(s, b, S) ==
  /\ Len(s) > 0
  /\ \A i \in 1..Len(s) : WriteOp(s[i], b, S) /\ (s[i].op = "written" <=> i = Len(s))
  /\ \E i \in 1..Len(s) : s[i].op = "batch"

LEMMA FitLater ==
  ASSUME NEW b, NEW S, NEW p \in Seq(Early(b)), NEW s \in Seq(Ops), Fit(s, b, S)
  PROVE  Fit(p \o s, b, S) /\ p \o s \in Seq(Ops)
<1>1. PICK m \in Nat, n \in Nat : m = Len(p) /\ n = Len(s)
  OBVIOUS
<1>2. p \in Seq(Ops)
  <2>1. Early(b) \subseteq Ops
    BY Zenon DEF Early
  <2> QED BY <2>1
<1> DEFINE t == p \o s
<1>3. t \in Seq(Ops)
  BY <1>2
<1>4. /\ Len(t) = m + n
      /\ \A i \in 1..m : t[i] = p[i]
      /\ \A i \in 1..n : t[i + m] = s[i]
  BY <1>1, <1>2
<1> HIDE DEF t
<1>5. ASSUME NEW i \in 1..(m + n)
      PROVE  WriteOp(t[i], b, S) /\ (t[i].op = "written" <=> i = m + n)
  <2>1. CASE i <= m
    <3>1. t[i] \in Early(b)
      <4>1. i \in 1..m
        BY <2>1
      <4> QED BY <1>1, <1>4, <4>1
    <3>2. n > 0
      BY <1>1, Zenon DEF Fit
    <3>3. i # m + n
      BY <2>1, <3>2
    <3> QED BY <3>1, <3>3, Zenon DEF Early, WriteOp, WriteOps
  <2>2. CASE ~(i <= m)
    <3>1. PICK j \in 1..n : i = j + m
      <4>1. i - m \in 1..n /\ i = (i - m) + m
        BY <2>2
      <4> QED BY <4>1, Zenon
    <3>2. WriteOp(s[j], b, S) /\ (s[j].op = "written" <=> j = n)
      BY <1>1, Zenon DEF Fit
    <3>3. j = n <=> i = m + n
      BY <3>1
    <3> QED BY <1>4, <3>1, <3>2, <3>3, Zenon
  <2> QED BY <2>1, <2>2, Zenon
<1>6. PICK k \in 1..n : s[k].op = "batch"
  BY <1>1, Zenon DEF Fit
<1>7. k + m \in 1..(m + n) /\ m + n > 0
  OBVIOUS
<1>8. t[k + m].op = "batch"
  BY <1>4, <1>6, Zenon
<1>9. Fit(t, b, S)
  BY <1>4, <1>5, <1>7, <1>8 DEF Fit
<1> QED BY <1>3, <1>9, Zenon DEF t

(* The plan of WriteBlockAndState: reorg only if the block does not follow *)
(* the head, and then the batch.                                           *)
LEMMA PlanFits ==
  ASSUME NEW b \in Block, currentBlock \in Block, NEW td \in Int, NEW S, Reorgable(currentBlock, b)
  PROVE  Fit(TdFirst(b, td, WriteCanon(b)), b, S) /\ Fit(TdFirst(b, td, WriteSide(b)), b, S)
<1> DEFINE o == currentBlock
           x == Op("batch", b, b, 0, 1)
           y == OfBlock("insert", b)
           z == Op("written", b, o, 0, 0)
           r == Op("reorg", b, o, 0, 0)
           u == Op("unlookup", b, o, 0, 0)
           d == Op("td", b, b, td, 0)
           v == Op("batch", b, b, 0, 0)
<1>1. r \in Early(b) /\ u \in Early(b) /\ d \in Early(b)
  BY DEF Early, Op, Ops, OpName
<1>2. x \in Ops /\ y \in Ops /\ z \in Ops /\ v \in Ops
  BY DEF OfBlock, Op, Ops, OpName
<1>3. WriteOp(x, b, S) /\ WriteOp(y, b, S) /\ WriteOp(z, b, S) /\ WriteOp(v, b, S)
  BY Zenon DEF OfBlock, Op, WriteOp, WriteOps
<1>4. x.op = "batch" /\ v.op = "batch" /\ y.op = "insert" /\ z.op = "written"
  BY Zenon DEF OfBlock, Op
<1>5. /\ WriteCanon(b) = (IF parent[b] = o THEN <<>> ELSE <<r, u>>) \o <<x, y, z>>
      /\ WriteSide(b) = <<v, z>>
      /\ \A s : TdFirst(b, td, s) = <<d>> \o s
  BY Zenon DEF WriteCanon, WriteSide, TdFirst
<1> HIDE DEF o, x, y, z, r, u, d, v
<1>6. Fit(<<x, y, z>>, b, S) /\ <<x, y, z>> \in Seq(Ops)
  <2> DEFINE s == <<x, y, z>>
  <2>1. Len(s) = 3 /\ s[1] = x /\ s[2] = y /\ s[3] = z /\ s \in Seq(Ops)
    BY <1>2
  <2> HIDE DEF s
  <2>2. ASSUME NEW i \in 1..3 PROVE WriteOp(s[i], b, S) /\ (s[i].op = "written" <=> i = 3)
    <3>1. i \in {1, 2, 3}
      OBVIOUS
    <3> QED BY <1>3, <1>4, <2>1, <3>1, Zenon
  <2>3. 1 \in 1..3
    OBVIOUS
  <2>4. Fit(s, b, S)
    BY <1>4, <2>1, <2>2, <2>3 DEF Fit
  <2> QED BY <2>1, <2>4, Zenon DEF s
<1>7. Fit(<<v, z>>, b, S) /\ <<v, z>> \in Seq(Ops)
  <2> DEFINE s == <<v, z>>
  <2>1. Len(s) = 2 /\ s[1] = v /\ s[2] = z /\ s \in Seq(Ops)
    BY <1>2
  <2> HIDE DEF s
  <2>2. ASSUME NEW i \in 1..2 PROVE WriteOp(s[i], b, S) /\ (s[i].op = "written" <=> i = 2)
    <3>1. i \in {1, 2}
      OBVIOUS
    <3> QED BY <1>3, <1>4, <2>1, <3>1, Zenon
  <2>3. 1 \in 1..2
    OBVIOUS
  <2>4. Fit(s, b, S)
    BY <1>4, <2>1, <2>2, <2>3 DEF Fit
  <2> QED BY <2>1, <2>4, Zenon DEF s
<1>8. <<>> \in Seq(Early(b)) /\ <<r, u>> \in Seq(Early(b)) /\ <<d>> \in Seq(Early(b))
  BY <1>1
<1>9. Fit(WriteCanon(b), b, S) /\ WriteCanon(b) \in Seq(Ops)
  <2>1. WriteCanon(b) \in {<<>> \o <<x, y, z>>, <<r, u>> \o <<x, y, z>>}
    BY <1>5, Zenon
  <2>2. Fit(<<>> \o <<x, y, z>>, b, S) /\ <<>> \o <<x, y, z>> \in Seq(Ops)
    BY <1>6, <1>8, FitLater, Zenon
  <2>3. Fit(<<r, u>> \o <<x, y, z>>, b, S) /\ <<r, u>> \o <<x, y, z>> \in Seq(Ops)
    BY <1>6, <1>8, FitLater, Zenon
  <2> QED BY <2>1, <2>2, <2>3, Zenon
<1> QED BY <1>5, <1>7, <1>8, <1>9, FitLater, Zenon

(* WriteBlockAndState finds the head's total difficulty and both chains.   *)
LEMMA WriteRecovers ==
  ASSUME RecoveryInv, Sound', NEW w \in Writer, WriteBlockAndState(w)
  PROVE  RecoveryInv'
<1> DEFINE b == blk[w]
           td == ptd[w] + difficulty[b]
<1>0. Free /\ pc[w] = "write"
  BY Zenon DEF WriteBlockAndState
<1>1. holder = "none" /\ currentBlock \in headers
  BY <1>0, FreeHead, Zenon
<1>2. tds[currentBlock] # NoTd
  BY <1>1, Zenon DEF RecoveryInv, Sound, HeadersHaveTd
<1>3. headers \subseteq Block /\ b \in Block /\ pc \in [Writer -> PcName]
  BY Zenon DEF RecoveryInv, Sound, TypeOK
<1>4. parent[b] \in headers
  BY <1>0, Zenon DEF RecoveryInv, ParentsStored, Underway
<1>5. Reorgable(currentBlock, b)
  BY <1>1, <1>3, <1>4, AlwaysReorgable, Zenon DEF RecoveryInv
<1>6. /\ todo' = TdFirst(b, td, WriteCanon(b)) \/ todo' = TdFirst(b, td, WriteSide(b))
      /\ holder' = w /\ pc' = [pc EXCEPT ![w] = "locked"]
      /\ UNCHANGED <<headers, bodies, states, up, panicked, currentBlock, headBlockHash, blk>>
  BY <1>2, Zenon DEF WriteBlockAndState, Enter
<1>7. td \in Int
  <2>1. ptd[w] \in Int
    BY Zenon DEF RecoveryInv, Sound, TypeOK
  <2>2. difficulty[b] \in Int
    BY <1>3, TreeAssumption
  <2> QED BY <2>1, <2>2
<1>8. Fit(todo', b, headers)
  BY <1>1, <1>3, <1>5, <1>6, <1>7, PlanFits, Zenon
<1>9. WritePlan(b)'
  BY <1>6, <1>8, Zenon DEF WritePlan, Fit
<1>10. OwnerPlan'
  BY <1>0, <1>3, <1>6, <1>9, Zenon DEF OwnerPlan, Writer, Free
<1>11. ParentsStored'
  BY <1>0, <1>3, <1>4, <1>6, Zenon DEF RecoveryInv, ParentsStored, Free
<1>12. Intact' /\ ~panicked' /\ HeadKnown'
  BY <1>1, <1>6, Zenon DEF RecoveryInv, Intact, HeadKnown
<1> QED BY <1>10, <1>11, <1>12, Zenon DEF RecoveryInv

-----------------------------------------------------------------------------
(* After Genesis.Commit.                                                   *)
LEMMA InitRecovery == Init /\ Sound => RecoveryInv
<1> SUFFICES ASSUME Init, Sound PROVE RecoveryInv
  BY Zenon
<1>1. Genesis \in Block /\ parent[Genesis] = Genesis
  BY TreeAssumption, Zenon
<1>2. Intact
  BY <1>1, Zenon DEF Init, Intact, Closed
<1>3. ParentsStored /\ ~panicked /\ HeadKnown
  BY Zenon DEF Init, ParentsStored, HeadKnown, Idle, Underway
<1>4. OwnerPlan
  BY Zenon DEF Init, OwnerPlan, Writer
<1> QED BY <1>2, <1>3, <1>4, Zenon DEF RecoveryInv

(* Every step keeps the invariant.                                         *)
LEMMA NextRecovery ==
  ASSUME NoRewinds
  PROVE  RecoveryInv /\ Sound' /\ [Next]_vars => RecoveryInv'
<1> SUFFICES ASSUME RecoveryInv, Sound', [Next]_vars PROVE RecoveryInv'
  BY Zenon
<1>1. Sound'
  BY Zenon
<1>2. CASE UNCHANGED vars
  <2>1. Intact' /\ ParentsStored' /\ ~panicked' /\ HeadKnown'
    BY <1>2, Zenon DEF vars, RecoveryInv, Intact, ParentsStored, HeadKnown
  <2>2. OwnerPlan'
    BY <1>2, Zenon DEF vars, RecoveryInv, OwnerPlan, WritePlan, BootPlan
  <2> QED BY <1>1, <2>1, <2>2, Zenon DEF RecoveryInv
<1>3. CASE ImportStep
  BY <1>1, <1>3, ChainRecovers, AcceptRecovers, ProcessRecovers, ReadRecovers, WriteRecovers, Zenon
     DEF ImportStep, Writer
<1>4. CASE Sweep
  BY <1>1, <1>4, ChainRecovers, Zenon DEF Sweep
<1>5. CASE ReadPtd("mine") \/ WriteBlockAndState("mine") \/ AbandonWork
  BY <1>1, <1>5, ReadRecovers, WriteRecovers, Zenon DEF Writer
<1>6. CASE \/ \E c \in Chains : InsertChain(c)
           \/ \E b \in Mined : CommitNewWork(b)
           \/ \E b \in Ahead : TimePasses(b)
  <2>1. Ahead \subseteq Block
    BY ChainAssumption, Zenon
  <2> QED BY <1>1, <1>6, <2>1, ChainRecovers, MineRecovers, Zenon
<1>7. CASE Crash \/ NewBlockChain
  BY <1>1, <1>7, DeathRecovers, StartRecovers, Zenon DEF Crash
<1>8. ~ \E n \in SetHeads : SetHead(n)
  BY Zenon DEF NoRewinds
<1> QED BY <1>1, <1>2, <1>3, <1>4, <1>5, <1>6, <1>7, <1>8, SectionRecovers, Zenon DEF Next, Step

(* What recovery is for: the invariant gives both properties.              *)
LEMMA Recovered == RecoveryInv => HeadComplete /\ Bootable
<1> SUFFICES ASSUME RecoveryInv PROVE HeadComplete /\ Bootable
  BY Zenon
<1>1. HeadComplete
  <2> SUFFICES ASSUME Quiet PROVE /\ Anc[currentBlock] \subseteq Full
                                  /\ currentBlock \in states /\ tds[currentBlock] # NoTd
    BY Zenon DEF HeadComplete
  <2>1. currentBlock \in headers
    BY FreeHead, Zenon DEF Quiet, Free
  <2>2. headers \subseteq Block /\ HeadersHaveTd
    BY Zenon DEF RecoveryInv, Sound, TypeOK
  <2>3. Anc[currentBlock] \subseteq headers
    BY <2>1, <2>2, StoredChain, Zenon DEF RecoveryInv
  <2> QED BY <2>1, <2>2, <2>3, Zenon DEF RecoveryInv, Intact, Full, HeadersHaveTd
<1>2. NoSelfDeadlock
  <2> SUFFICES ASSUME todo # <<>>, todo[1].op = "stuck" PROVE FALSE
    BY Zenon DEF NoSelfDeadlock
  <2>1. todo \in Seq(Ops)
    BY Zenon DEF RecoveryInv, Sound, TypeOK
  <2>2. 1 \in 1..Len(todo)
    BY <2>1
  <2> QED BY <2>2, Zenon DEF RecoveryInv, OwnerPlan, WritePlan, WriteOp, WriteOps, BootPlan, BootOp, BootOps
<1> QED BY <1>1, <1>2, Zenon DEF RecoveryInv, Bootable, NoPanic
=============================================================================
