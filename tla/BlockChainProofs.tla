-------------------------- MODULE BlockChainProofs --------------------------
(***************************************************************************)
(* What holds of the chain manager on every tree of blocks, whatever is    *)
(* imported, mined and rewound and wherever the process crashes: every     *)
(* variable keeps its type.                                                *)
(***************************************************************************)
EXTENDS BlockChain, TLAPS

(* An import that is not idle has a block at hand, and the import that     *)
(* owns mu is inside it: Written may take the next block of rest.          *)
ImportOK ==
  /\ pc["import"] # "idle" => rest # <<>>
  /\ holder = "import" => pc["import"] = "locked"

(* The types of the variables: TypeOK but for the capacity of futureBlocks. *)
Typed ==
  /\ headers \subseteq Block /\ bodies \subseteq Block /\ states \subseteq Block
  /\ tds \in [Block -> Int]
  /\ canon \in [Numbers -> Block \cup {None}]
  /\ lookup \in [Tx -> Block \cup {None}]
  /\ headBlockHash \in Block /\ headHeaderHash \in Block
  /\ headFastHash \in Block \cup {None}
  /\ currentBlock \in Block /\ currentHeader \in Block /\ currentFastBlock \in Block
  /\ futureBlocks \subseteq Block /\ sweep \subseteq Block /\ ahead \subseteq Block
  /\ up \in {"down", "boot", "up"} /\ panicked \in BOOLEAN
  /\ todo \in Seq(Ops)
  /\ holder \in {"none", "import", "mine", "setHead", "boot", "receipts", "rollback"}
  /\ pc \in [Writer -> PcName]
  /\ blk \in [Writer -> Block]
  /\ ptd \in [Writer -> Int]
  /\ rest \in Seq(Block) /\ prev \in Block \cup {None}

TypeInv == Typed /\ ImportOK

(* The type invariant, by the groups of variables that change together.    *)
DbType ==
  /\ headers \subseteq Block /\ bodies \subseteq Block /\ states \subseteq Block
  /\ tds \in [Block -> Int]
IndexType == canon \in [Numbers -> Block \cup {None}] /\ lookup \in [Tx -> Block \cup {None}]
HashType ==
  /\ headBlockHash \in Block /\ headHeaderHash \in Block
  /\ headFastHash \in Block \cup {None}
MemType == currentBlock \in Block /\ currentHeader \in Block /\ currentFastBlock \in Block
FutureType == futureBlocks \subseteq Block /\ sweep \subseteq Block /\ ahead \subseteq Block
NodeType == up \in {"down", "boot", "up"} /\ panicked \in BOOLEAN
LockType ==
  /\ todo \in Seq(Ops)
  /\ holder \in {"none", "import", "mine", "setHead", "boot", "receipts", "rollback"}
CallerType == pc \in [Writer -> PcName] /\ blk \in [Writer -> Block] /\ ptd \in [Writer -> Int]
RestType == rest \in Seq(Block) /\ prev \in Block \cup {None}

(* The groups make up the type invariant.                                  *)
LEMMA TypeParts ==
  Typed <=> /\ DbType /\ IndexType /\ HashType /\ MemType /\ FutureType /\ NodeType
             /\ LockType /\ CallerType /\ RestType
BY Zenon DEF Typed, DbType, IndexType, HashType, MemType, FutureType, NodeType, LockType,
       CallerType, RestType

(* A group whose variables do not change keeps its type.                   *)
LEMMA Kept ==
  /\ DbType /\ UNCHANGED blocks => DbType'
  /\ IndexType /\ UNCHANGED index => IndexType'
  /\ HashType /\ UNCHANGED hashes => HashType'
  /\ MemType /\ UNCHANGED mem => MemType'
  /\ FutureType /\ UNCHANGED future => FutureType'
  /\ NodeType /\ UNCHANGED node => NodeType'
  /\ CallerType /\ UNCHANGED writers => CallerType'
  /\ RestType /\ UNCHANGED import => RestType'
<1>1. DbType /\ UNCHANGED blocks => DbType'
  BY Zenon DEF DbType, blocks
<1>2. IndexType /\ UNCHANGED index => IndexType'
  BY Zenon DEF IndexType, index
<1>3. HashType /\ UNCHANGED hashes => HashType'
  BY Zenon DEF HashType, hashes
<1>4. MemType /\ UNCHANGED mem => MemType'
  BY Zenon DEF MemType, mem
<1>5. FutureType /\ UNCHANGED future => FutureType'
  BY Zenon DEF FutureType, future
<1>6. NodeType /\ UNCHANGED node => NodeType'
  BY Zenon DEF NodeType, node
<1>7. CallerType /\ UNCHANGED writers => CallerType'
  BY Zenon DEF CallerType, writers
<1>8. RestType /\ UNCHANGED import => RestType'
  BY Zenon DEF RestType, import
<1> QED BY <1>1, <1>2, <1>3, <1>4, <1>5, <1>6, <1>7, <1>8, Zenon

(* So a step needs an argument only for the groups it changes.             *)
LEMMA Frame ==
  ASSUME TypeInv, LockType', ImportOK',
         DbType' \/ UNCHANGED blocks, IndexType' \/ UNCHANGED index,
         HashType' \/ UNCHANGED hashes, MemType' \/ UNCHANGED mem,
         FutureType' \/ UNCHANGED future, NodeType' \/ UNCHANGED node,
         CallerType' \/ UNCHANGED writers, RestType' \/ UNCHANGED import
  PROVE  TypeInv'
<1>1. /\ DbType /\ IndexType /\ HashType /\ MemType /\ FutureType /\ NodeType
      /\ LockType /\ CallerType /\ RestType
  BY TypeParts, Zenon DEF TypeInv
<1>2. /\ DbType' /\ IndexType' /\ HashType' /\ MemType' /\ FutureType' /\ NodeType'
      /\ LockType' /\ CallerType' /\ RestType'
  BY <1>1, Kept, Zenon
<1>3. Typed'
  BY <1>2, Zenon DEF Typed, DbType, IndexType, HashType, MemType, FutureType, NodeType, LockType,
              CallerType, RestType
<1> QED BY <1>3, Zenon DEF TypeInv

(* A step inside a critical section leaves its owner and the callers alone. *)
LEMMA Inside ==
  ASSUME TypeInv, todo' \in Seq(Ops), holder' = holder, UNCHANGED <<node, writers, import>>,
         DbType' \/ UNCHANGED blocks, IndexType' \/ UNCHANGED index,
         HashType' \/ UNCHANGED hashes, MemType' \/ UNCHANGED mem,
         FutureType' \/ UNCHANGED future
  PROVE  TypeInv'
<1>1. LockType'
  BY TypeParts, Zenon DEF TypeInv, LockType
<1>2. ImportOK'
  BY Zenon DEF TypeInv, ImportOK, writers, import
<1> QED BY <1>1, <1>2, Frame, Zenon

(* A step outside mu touches neither the database nor the heads.           *)
LEMMA Outside ==
  ASSUME TypeInv, UNCHANGED <<todo, holder>>, UNCHANGED <<blocks, index, hashes, mem, node>>,
         FutureType' \/ UNCHANGED future, CallerType' \/ UNCHANGED writers,
         RestType' \/ UNCHANGED import, ImportOK'
  PROVE  TypeInv'
<1>1. LockType'
  BY TypeParts, Zenon DEF TypeInv, LockType
<1> QED BY <1>1, Frame, Zenon

(* A pending operation on blocks and heights is one of the lock's.         *)
LEMMA OpType ==
  ASSUME NEW name \in OpName, NEW b \in Block, NEW o \in Block, NEW n \in Int, NEW m \in Int
  PROVE  Op(name, b, o, n, m) \in Ops
BY Zenon DEF Op, Ops

(* The pending operations keep their type when the first is replaced.      *)
LEMMA ThenType ==
  ASSUME todo \in Seq(Ops), todo # <<>>, NEW ops \in Seq(Ops), Then(ops)
  PROVE  todo' \in Seq(Ops) /\ holder' = holder
BY DEF Then

(* ... and when it is done and gone.                                       *)
LEMMA ThenNothing ==
  ASSUME Typed, todo # <<>>, Then(<<>>)
  PROVE  todo' \in Seq(Ops) /\ holder' = holder
<1>1. todo \in Seq(Ops)
  BY Zenon DEF Typed
<1>2. todo' = <<>> \o Tail(todo) /\ holder' = holder
  BY Zenon DEF Then
<1>3. Tail(todo) \in Seq(Ops) /\ <<>> \in Seq(Ops)
  BY <1>1
<1> QED BY <1>2, <1>3

(* Short lists of operations.                                              *)
LEMMA OpLists ==
  ASSUME NEW u \in Ops, NEW v \in Ops, NEW w \in Ops, NEW x \in Ops, NEW y \in Ops, NEW z \in Ops
  PROVE  /\ <<>> \in Seq(Ops) /\ <<u>> \in Seq(Ops) /\ <<u, v>> \in Seq(Ops)
         /\ <<u, v, w>> \in Seq(Ops) /\ <<u, v, w, x>> \in Seq(Ops)
         /\ <<u, v, w, x, y>> \in Seq(Ops) /\ <<u, v, w, x, y, z>> \in Seq(Ops)
OBVIOUS

(* The operation at work has the type of its fields.                       *)
LEMMA FirstOp ==
  ASSUME Typed, NEW name, At(name)
  PROVE  /\ todo # <<>> /\ todo[1] \in Ops
         /\ todo[1].b \in Block /\ todo[1].o \in Block
         /\ todo[1].n \in Int /\ todo[1].m \in Int
<1>1. todo \in Seq(Ops) /\ todo # <<>>
  BY Zenon DEF Typed, At
<1>2. todo[1] \in Ops
  BY <1>1
<1> QED BY <1>1, <1>2, Zenon DEF Ops

(* Block numbers are natural numbers.                                      *)
LEMMA NumberType == \A x \in Block : number[x] \in Nat
<1> SUFFICES ASSUME NEW x \in Block PROVE number[x] \in Nat
  BY Zenon
<1>1. number[x] \in 0..MaxNumber
  BY TreeAssumption, Zenon
<1> QED BY <1>1

(* insertChain goes on to a block it has, or returns.                      *)
LEMMA AdvanceType ==
  ASSUME TypeInv, rest # <<>>, NEW b \in Block, Advance(b)
  PROVE  /\ rest' \in Seq(Block) /\ prev' \in Block \cup {None} /\ pc' \in [Writer -> PcName]
         /\ pc'["import"] # "idle" => rest' # <<>>
         /\ pc'["mine"] = pc["mine"]
<1>1. rest \in Seq(Block) /\ pc \in [Writer -> PcName]
  BY Zenon DEF TypeInv, Typed
<1>2. Tail(rest) \in Seq(Block)
  BY <1>1
<1> QED BY <1>1, <1>2, Zenon DEF Advance, Writer, PcName

(* An error ends the import, or the miner's write.                         *)
LEMMA AbortType ==
  ASSUME TypeInv, NEW w \in Writer, Abort(w)
  PROVE  /\ rest' \in Seq(Block) /\ prev' \in Block \cup {None} /\ pc' \in [Writer -> PcName]
         /\ pc'["import"] # "idle" => rest' # <<>>
         /\ w # "import" => pc'["import"] = pc["import"]
<1>1. /\ rest \in Seq(Block) /\ pc \in [Writer -> PcName] /\ prev \in Block \cup {None}
      /\ pc["import"] # "idle" => rest # <<>>
  BY Zenon DEF TypeInv, Typed, ImportOK
<1>2. <<>> \in Seq(Block)
  OBVIOUS
<1> QED BY <1>1, <1>2, Zenon DEF Abort, Writer, PcName

(* What is stored and deleted keeps the types.                             *)
LEMMA StoreType ==
  ASSUME TypeInv, Typed, ImportOK, DbType, IndexType, MemType,
         WriteTd \/ WriteBatch \/ WriteGenesis \/ DeleteBody \/ DeleteHeader \/ DeleteTd
  PROVE  TypeInv'
<1>1. CASE WriteTd
  <2> USE <1>1
  <2>1. todo[1].b \in Block /\ todo[1].n \in Int /\ todo # <<>>
    BY FirstOp, Zenon DEF WriteTd
  <2>2. todo' \in Seq(Ops) /\ holder' = holder
    BY <2>1, ThenNothing, Zenon DEF WriteTd, Typed
  <2>3. DbType'
    BY <2>1, Zenon DEF WriteTd, DbType, blocks
  <2> QED BY <2>2, <2>3, Inside, Zenon DEF WriteTd
<1>2. CASE WriteBatch
  <2> USE <1>2
  <2>1. todo[1].b \in Block /\ todo # <<>>
    BY FirstOp, Zenon DEF WriteBatch
  <2>2. todo' \in Seq(Ops) /\ holder' = holder
    BY <2>1, ThenNothing, Zenon DEF WriteBatch, Typed
  <2>3. lookup' \in [Tx -> Block \cup {None}]
    BY <2>1, Zenon DEF WriteBatch, Typed
  <2>4. DbType'
    BY <2>1, <2>3, Zenon DEF WriteBatch, DbType, blocks
  <2>5. IndexType'
    BY <2>1, <2>3, Zenon DEF WriteBatch, IndexType, index
  <2> QED BY <2>2, <2>4, <2>5, Inside, Zenon DEF WriteBatch
<1>3. CASE WriteGenesis
  <2> USE <1>3
  <2>1. todo[1].b \in Block /\ todo # <<>>
    BY FirstOp, Zenon DEF WriteGenesis
  <2>2. todo' \in Seq(Ops) /\ holder' = holder
    BY <2>1, ThenNothing, Zenon DEF WriteGenesis
  <2>3. DbType'
    BY <2>1, Zenon DEF WriteGenesis, DbType, blocks
  <2> QED BY <2>2, <2>3, Inside, Zenon DEF WriteGenesis
<1>4. CASE DeleteBody
  <2> USE <1>4
  <2>1. todo[1].b \in Block /\ todo # <<>>
    BY FirstOp, Zenon DEF DeleteBody
  <2>2. todo' \in Seq(Ops) /\ holder' = holder
    BY <2>1, ThenNothing, Zenon DEF DeleteBody
  <2>3. DbType'
    BY <2>1, Zenon DEF DeleteBody, DbType, blocks
  <2> QED BY <2>2, <2>3, Inside, Zenon DEF DeleteBody
<1>5. CASE DeleteHeader
  <2> USE <1>5
  <2>1. todo[1].b \in Block /\ todo # <<>>
    BY FirstOp, Zenon DEF DeleteHeader
  <2>2. todo' \in Seq(Ops) /\ holder' = holder
    BY <2>1, ThenNothing, Zenon DEF DeleteHeader
  <2>3. DbType'
    BY <2>1, Zenon DEF DeleteHeader, DbType, blocks
  <2> QED BY <2>2, <2>3, Inside, Zenon DEF DeleteHeader
<1>6. CASE DeleteTd
  <2> USE <1>6
  <2>1. todo[1].b \in Block /\ todo # <<>>
    BY FirstOp, Zenon DEF DeleteTd
  <2>2. todo' \in Seq(Ops) /\ holder' = holder
    BY <2>1, ThenNothing, Zenon DEF DeleteTd
  <2>3. parent[todo[1].b] \in Block /\ Genesis \in Block /\ NoTd \in Int
    BY <2>1, TreeAssumption DEF NoTd
  <2>4. DbType'
    BY <2>1, <2>3, Zenon DEF DeleteTd, DbType, blocks
  <2>5. MemType'
    BY <2>1, <2>3, Zenon DEF DeleteTd, MemType, mem
  <2> QED BY <2>2, <2>4, <2>5, Inside, Zenon DEF DeleteTd
<1> QED BY <1>1, <1>2, <1>3, <1>4, <1>5, <1>6, Zenon

(* The writes of the three heads keep the types.                           *)
LEMMA HeadsType ==
  ASSUME TypeInv, Typed, ImportOK, HashType, MemType,
         WriteHeadBlockHash \/ SetCurrentHeader \/ WriteHeadFastBlockHash \/ ResetFastHead
  PROVE  TypeInv'
<1>1. CASE WriteHeadBlockHash
  <2> USE <1>1
  <2>1. todo[1].b \in Block /\ todo # <<>>
    BY FirstOp, Zenon DEF WriteHeadBlockHash
  <2>2. todo' \in Seq(Ops) /\ holder' = holder
    BY <2>1, ThenNothing, Zenon DEF WriteHeadBlockHash, Typed
  <2>3. HashType'
    BY <2>1, Zenon DEF WriteHeadBlockHash, HashType, hashes
  <2>4. MemType'
    BY <2>1, Zenon DEF WriteHeadBlockHash, MemType, mem
  <2> QED BY <2>2, <2>3, <2>4, Inside, Zenon DEF WriteHeadBlockHash
<1>2. CASE SetCurrentHeader
  <2> USE <1>2
  <2>1. todo[1].b \in Block /\ todo # <<>>
    BY FirstOp, Zenon DEF SetCurrentHeader
  <2>2. todo' \in Seq(Ops) /\ holder' = holder
    BY <2>1, ThenNothing, Zenon DEF SetCurrentHeader
  <2>3. HashType'
    BY <2>1, Zenon DEF SetCurrentHeader, HashType, hashes
  <2>4. MemType'
    BY <2>1, Zenon DEF SetCurrentHeader, MemType, mem
  <2> QED BY <2>2, <2>3, <2>4, Inside, Zenon DEF SetCurrentHeader
<1>3. CASE WriteHeadFastBlockHash
  <2> USE <1>3
  <2>1. todo[1].b \in Block /\ todo # <<>>
    BY FirstOp, Zenon DEF WriteHeadFastBlockHash
  <2>2. todo' \in Seq(Ops) /\ holder' = holder
    BY <2>1, ThenNothing, Zenon DEF WriteHeadFastBlockHash
  <2>3. HashType'
    BY <2>1, Zenon DEF WriteHeadFastBlockHash, HashType, hashes
  <2>4. MemType'
    BY <2>1, Zenon DEF WriteHeadFastBlockHash, MemType, mem
  <2> QED BY <2>2, <2>3, <2>4, Inside, Zenon DEF WriteHeadFastBlockHash
<1>4. CASE ResetFastHead
  <2> USE <1>4
  <2>1. todo[1].b \in Block /\ todo # <<>>
    BY FirstOp, Zenon DEF ResetFastHead
  <2>2. todo' \in Seq(Ops) /\ holder' = holder
    BY <2>1, ThenNothing, Zenon DEF ResetFastHead
  <2>3. MemType'
    BY <2>1, Zenon DEF ResetFastHead, MemType, mem
  <2> QED BY <2>2, <2>3, Inside, Zenon DEF ResetFastHead
<1> QED BY <1>1, <1>2, <1>3, <1>4, Zenon

(* The canonical numbers and the transaction index keep their types.       *)
LEMMA TablesType ==
  ASSUME TypeInv, Typed, ImportOK, IndexType,
         Insert \/ WriteTxLookupEntries \/ DeleteTxLookupEntries \/ DeleteCanonicalHash
  PROVE  TypeInv'
<1>1. CASE Insert
  <2> USE <1>1
  <2> DEFINE b == todo[1].b
             ops == <<OfBlock("headBlock", b)>> \o
                      IF canon[number[b]] # b
                      THEN <<OfBlock("headHeader", b), OfBlock("headFast", b)>>
                      ELSE <<>>
  <2>1. b \in Block /\ todo # <<>>
    BY FirstOp, Zenon DEF Insert
  <2>2. ops \in Seq(Ops)
    BY <2>1, OpType DEF OfBlock, OpName
  <2>3. todo' \in Seq(Ops) /\ holder' = holder
    BY <2>1, <2>2, ThenType, Zenon DEF Insert, Typed
  <2>4. IndexType'
    BY <2>1, Zenon DEF Insert, IndexType, index
  <2> QED BY <2>3, <2>4, Inside, Zenon DEF Insert
<1>2. CASE WriteTxLookupEntries
  <2> USE <1>2
  <2>1. todo[1].b \in Block /\ todo # <<>>
    BY FirstOp, Zenon DEF WriteTxLookupEntries
  <2>2. todo' \in Seq(Ops) /\ holder' = holder
    BY <2>1, ThenNothing, Zenon DEF WriteTxLookupEntries
  <2>3. IndexType'
    BY <2>1, Zenon DEF WriteTxLookupEntries, IndexType, index
  <2> QED BY <2>2, <2>3, Inside, Zenon DEF WriteTxLookupEntries
<1>3. CASE DeleteTxLookupEntries
  <2> USE <1>3
  <2>1. todo[1].b \in Block /\ todo # <<>>
    BY FirstOp, Zenon DEF DeleteTxLookupEntries
  <2>2. todo' \in Seq(Ops) /\ holder' = holder
    BY <2>1, ThenNothing, Zenon DEF DeleteTxLookupEntries
  <2>3. IndexType'
    BY <2>1, Zenon DEF DeleteTxLookupEntries, IndexType, index
  <2> QED BY <2>2, <2>3, Inside, Zenon DEF DeleteTxLookupEntries
<1>4. CASE DeleteCanonicalHash
  <2> USE <1>4
  <2> DEFINE i == todo[1].n
             n == todo[1].m
             ops == IF i > n THEN <<Op("delCanon", Genesis, Genesis, i - 1, n)>> ELSE <<>>
  <2>1. todo # <<>> /\ i \in Int /\ n \in Int /\ Genesis \in Block
    BY FirstOp, TreeAssumption, Zenon DEF DeleteCanonicalHash, Typed
  <2>2. ops \in Seq(Ops)
    <3>1. Op("delCanon", Genesis, Genesis, i - 1, n) \in Ops
      BY <2>1 DEF OfBlock, OfNumber, Op, Ops, OpName
    <3> QED BY <3>1, OpLists, Zenon
  <2>3. todo' \in Seq(Ops) /\ holder' = holder
    BY <2>1, <2>2, ThenType, Zenon DEF DeleteCanonicalHash, Typed
  <2>4. IndexType'
    BY <2>1, <2>2, Zenon DEF DeleteCanonicalHash, IndexType, index
  <2> QED BY <2>3, <2>4, Inside, Zenon DEF DeleteCanonicalHash
<1> QED BY <1>1, <1>2, <1>3, <1>4, Zenon

(* The control of reorg and of SetHead leaves operations pending.          *)
LEMMA ControlType ==
  ASSUME TypeInv, Typed, ImportOK, FutureType,
         Reorg \/ BeginSetHead \/ Rewind \/ StoreHeader \/ RewindBlocks
  PROVE  TypeInv'
<1>1. CASE Reorg
  <2> USE <1>1
  <2> DEFINE b == todo[1].b
             o == todo[1].o
             ops == IF b \in Anc[o] THEN <<>>
                    ELSE <<OfBlock("insert", b), OfBlock("lookup", b),
                           Op("reorg", parent[b], o, 0, 0)>>
  <2>1. b \in Block /\ o \in Block /\ todo # <<>> /\ parent[b] \in Block
    BY FirstOp, TreeAssumption, Zenon DEF Reorg
  <2>2. ops \in Seq(Ops)
    <3>1. OfBlock("insert", b) \in Ops /\ OfBlock("lookup", b) \in Ops
          /\ Op("reorg", parent[b], o, 0, 0) \in Ops
      BY <2>1 DEF OfBlock, Op, Ops, OpName
    <3> QED BY <3>1, OpLists, Zenon
  <2>3. todo' \in Seq(Ops) /\ holder' = holder
    BY <2>1, <2>2, ThenType, Zenon DEF Reorg, Typed
  <2> QED BY <2>3, Inside, Zenon DEF Reorg
<1>2. CASE BeginSetHead
  <2> USE <1>2
  <2> DEFINE ops == <<OfNumber("rewind", todo[1].n),
                      Op("delCanon", Genesis, Genesis, number[currentHeader], todo[1].n),
                      OfNumber("setHeader", 0), OfNumber("rewindBlocks", 0),
                      OfNumber("load", 1)>>
  <2>1. todo # <<>> /\ todo[1].n \in Int /\ Genesis \in Block /\ number[currentHeader] \in Int
    <3>1. todo # <<>> /\ todo[1].n \in Int
      BY FirstOp, Zenon DEF BeginSetHead
    <3>2. number[currentHeader] \in Nat
      BY NumberType, Zenon DEF Typed
    <3> QED BY <3>1, <3>2, TreeAssumption
  <2>2. ops \in Seq(Ops)
    <3>1. /\ OfNumber("rewind", todo[1].n) \in Ops /\ OfNumber("setHeader", 0) \in Ops
          /\ Op("delCanon", Genesis, Genesis, number[currentHeader], todo[1].n) \in Ops
          /\ OfNumber("rewindBlocks", 0) \in Ops /\ OfNumber("load", 1) \in Ops
      BY <2>1 DEF OfBlock, OfNumber, Op, Ops, OpName
    <3> QED BY <3>1, OpLists, Zenon
  <2>3. todo' \in Seq(Ops) /\ holder' = holder
    BY <2>1, <2>2, ThenType, Zenon DEF BeginSetHead, Typed
  <2> QED BY <2>3, Inside, Zenon DEF BeginSetHead
<1>3. CASE Rewind
  <2> USE <1>3
  <2> DEFINE b == currentHeader
             ops == IF number[b] > todo[1].n
                    THEN <<OfBlock("delBody", b), OfBlock("delHeader", b), OfBlock("delTd", b),
                           todo[1]>>
                    ELSE <<>>
  <2>1. todo # <<>> /\ todo[1] \in Ops /\ b \in Block
    BY FirstOp, TreeAssumption, Zenon DEF Rewind, Typed
  <2>2. ops \in Seq(Ops)
    <3>1. /\ OfBlock("delBody", b) \in Ops /\ OfBlock("delHeader", b) \in Ops
          /\ OfBlock("delTd", b) \in Ops /\ todo[1] \in Ops
      BY <2>1 DEF OfBlock, OfNumber, Op, Ops, OpName
    <3> QED BY <3>1, OpLists
  <2>3. todo' \in Seq(Ops) /\ holder' = holder
    BY <2>1, <2>2, ThenType, Zenon DEF Rewind, Typed
  <2> QED BY <2>3, Inside, Zenon DEF Rewind
<1>4. CASE StoreHeader
  <2> USE <1>4
  <2> DEFINE ops == <<OfBlock("headHeader", currentHeader)>>
  <2>1. todo # <<>> /\ currentHeader \in Block
    BY FirstOp, TreeAssumption, Zenon DEF StoreHeader, Typed
  <2>2. ops \in Seq(Ops)
    <3>1. OfBlock("headHeader", currentHeader) \in Ops
      BY <2>1 DEF OfBlock, OfNumber, Op, Ops, OpName
    <3> QED BY <3>1, OpLists, Zenon
  <2>3. todo' \in Seq(Ops) /\ holder' = holder
    BY <2>1, <2>2, ThenType, Zenon DEF StoreHeader, Typed
  <2> QED BY <2>3, Inside, Zenon DEF StoreHeader
<1>5. CASE RewindBlocks
  <2> USE <1>5
  <2> DEFINE follow(b) == IF number[currentHeader] >= number[b] THEN b
                          ELSE IF currentHeader \in Full THEN currentHeader ELSE Genesis
             head == IF follow(currentBlock) \in states THEN follow(currentBlock) ELSE Genesis
             ops == <<OfBlock("headBlock", head), OfBlock("headFast", follow(currentFastBlock))>>
  <2>1. todo # <<>> /\ head \in Block /\ follow(currentFastBlock) \in Block
    BY FirstOp, TreeAssumption, Zenon DEF RewindBlocks, Typed
  <2>2. ops \in Seq(Ops)
    <3>1. /\ OfBlock("headBlock", head) \in Ops
          /\ OfBlock("headFast", follow(currentFastBlock)) \in Ops
      BY <2>1 DEF OfBlock, OfNumber, Op, Ops, OpName
    <3> QED BY <3>1, OpLists, Zenon
  <2>3. todo' \in Seq(Ops) /\ holder' = holder
    BY <2>1, <2>2, ThenType, Zenon DEF RewindBlocks, Typed
  <2>5. FutureType'
    BY Zenon DEF RewindBlocks, FutureType, future
  <2> QED BY <2>3, <2>5, Inside, Zenon DEF RewindBlocks
<1> QED BY <1>1, <1>2, <1>3, <1>4, <1>5, Zenon

(* loadLastState keeps the types, whichever way it goes.                   *)
LEMMA LoadType ==
  ASSUME TypeInv, Typed, ImportOK, HashType, MemType, LoadLastState
  PROVE  TypeInv'
<1> DEFINE there == headBlockHash # None /\ headBlockHash \in Full /\ headBlockHash \in states
           found == IF headHeaderHash # None /\ headHeaderHash \in headers
                    THEN headHeaderHash ELSE headBlockHash
           ops == IF there THEN <<OfBlock("headHeader", found)>>
                  ELSE IF todo[1].n = 0
                  THEN <<OfNumber("setHead", 0), Op("td", Genesis, Genesis, 0, 0),
                         OfBlock("putBlock", Genesis), OfBlock("insert", Genesis),
                         OfBlock("headHeader", Genesis), OfBlock("fastMem", Genesis)>>
                  ELSE <<OfNumber("stuck", 0)>>
<1>1. todo # <<>> /\ found \in Block /\ Genesis \in Block
  BY FirstOp, TreeAssumption, Zenon DEF LoadLastState, Typed
<1>2. ops \in Seq(Ops)
  <2>1. /\ OfBlock("headHeader", found) \in Ops /\ OfNumber("stuck", 0) \in Ops
        /\ OfNumber("setHead", 0) \in Ops /\ Op("td", Genesis, Genesis, 0, 0) \in Ops
        /\ OfBlock("putBlock", Genesis) \in Ops /\ OfBlock("insert", Genesis) \in Ops
        /\ OfBlock("headHeader", Genesis) \in Ops /\ OfBlock("fastMem", Genesis) \in Ops
    BY <1>1 DEF OfBlock, OfNumber, Op, Ops, OpName
  <2> QED BY <2>1, OpLists
<1>3. todo' \in Seq(Ops) /\ holder' = holder
  BY <1>1, <1>2, ThenType, Zenon DEF LoadLastState, Typed
<1>4. MemType'
  <2>1. CASE there
    <3>1. /\ currentBlock' = headBlockHash /\ UNCHANGED currentHeader
          /\ currentFastBlock' \in {headFastHash, headBlockHash} /\ currentFastBlock' # None
      BY <2>1, Zenon DEF LoadLastState
    <3> QED BY <3>1, Zenon DEF HashType, MemType
  <2>2. CASE ~there
    BY <2>2, Zenon DEF LoadLastState, MemType, mem
  <2> QED BY <2>1, <2>2, Zenon
<1> QED BY <1>3, <1>4, Inside, Zenon DEF LoadLastState

(* The end of a critical section keeps the types.                          *)
LEMMA EndType ==
  ASSUME TypeInv, Typed, ImportOK, FutureType, CallerType, RestType,
         Written \/ Failed \/ Unlock
  PROVE  TypeInv'
<1>1. CASE Written
  <2> USE <1>1
  <2>1. todo[1].b \in Block /\ todo # <<>>
    BY FirstOp, Zenon DEF Written
  <2>2. futureBlocks' \subseteq Block
    BY Zenon DEF Written, Typed
  <2>3. rest' \in Seq(Block) /\ prev' \in Block \cup {None} /\ pc' \in [Writer -> PcName]
    <3>1. CASE holder = "import"
      BY <2>1, <3>1, AdvanceType, Zenon DEF Written, TypeInv, ImportOK
    <3>2. CASE holder # "import"
      BY <3>2, Zenon DEF Written, CallerType, RestType, Writer, PcName, import
    <3> QED BY <3>1, <3>2, Zenon
  <2>4. ImportOK'
    <3>1. CASE holder = "import"
      BY <2>1, <3>1, AdvanceType, Zenon DEF Written, Enter, TypeInv, ImportOK
    <3>2. CASE holder # "import"
      BY <3>2, Zenon DEF Written, Enter, CallerType, ImportOK, Writer, import
    <3> QED BY <3>1, <3>2, Zenon
  <2>5. LockType'
    BY DEF Written, Enter, LockType
  <2>6. FutureType'
    BY <2>2, Zenon DEF Written, FutureType
  <2>7. CallerType' /\ RestType'
    BY <2>3, Zenon DEF Written, CallerType, RestType
  <2> QED BY <2>4, <2>5, <2>6, <2>7, Frame, Zenon DEF Written
<1>2. CASE Failed
  <2> USE <1>2
  <2>1. rest' \in Seq(Block) /\ prev' \in Block \cup {None} /\ pc' \in [Writer -> PcName]
    <3>1. <<>> \in Seq(Block) /\ rest \in Seq(Block) /\ pc \in [Writer -> PcName]
          /\ prev \in Block \cup {None}
      BY DEF Typed
    <3> QED BY <3>1, Zenon DEF Failed, Abort, PcName
  <2>2. ImportOK'
    BY Zenon DEF Failed, Enter, Abort, CallerType, ImportOK, Writer
  <2>3. LockType'
    BY DEF Failed, Enter, LockType
  <2>4. CallerType' /\ RestType'
    BY <2>1, Zenon DEF Failed, CallerType, RestType
  <2> QED BY <2>2, <2>3, <2>4, Frame, Zenon DEF Failed
<1>3. CASE Unlock
  <2> USE <1>3
  <2>1. LockType' /\ NodeType'
    BY TypeParts DEF Unlock, Enter, LockType, NodeType
  <2>2. ImportOK'
    BY Zenon DEF Unlock, Enter, ImportOK, writers, import
  <2> QED BY <2>1, <2>2, Frame, Zenon DEF Unlock
<1> QED BY <1>1, <1>2, <1>3, Zenon

(* Every step of a critical section of mu keeps the types.                 *)
LEMMA SectionType ==
  ASSUME TypeInv, Section
  PROVE  TypeInv'
<1>1. /\ Typed /\ ImportOK
      /\ DbType /\ IndexType /\ HashType /\ MemType /\ FutureType /\ CallerType /\ RestType
  BY TypeParts, Zenon DEF TypeInv
<1> QED BY <1>1, StoreType, HeadsType, TablesType, ControlType, LoadType, EndType, Zenon DEF Section

(* The memory of a process that has died is back to its initial types.     *)
LEMMA DieType ==
  ASSUME TypeInv, Die, panicked' \in BOOLEAN, UNCHANGED ahead,
         UNCHANGED <<headers, bodies, states, index, hashes>>, tds' \in [Block -> Int]
  PROVE  TypeInv'
<1>2. Genesis \in Block
  BY TreeAssumption, Zenon
<1>3. todo' \in Seq(Ops) /\ rest' \in Seq(Block)
  BY DEF Die
<1>4. /\ pc' \in [Writer -> PcName] /\ blk' \in [Writer -> Block] /\ ptd' \in [Writer -> Int]
      /\ pc'["import"] = "idle" /\ holder' = "none"
  BY <1>2 DEF Die, Idle, PcName, Writer
<1>5. DbType' /\ IndexType' /\ HashType'
  <2>1. DbType'
    BY TypeParts, Zenon DEF TypeInv, DbType
  <2> QED BY <2>1, TypeParts, Kept, Zenon DEF TypeInv
<1>6. MemType' /\ NodeType'
  BY <1>2, Zenon DEF Die, MemType, NodeType
<1>7. FutureType'
  BY TypeParts, Zenon DEF Die, TypeInv, FutureType
<1>8. LockType' /\ CallerType' /\ RestType'
  BY <1>3, <1>4, Zenon DEF Die, LockType, CallerType, RestType
<1>9. ImportOK'
  BY <1>4, Zenon DEF ImportOK
<1> QED BY <1>5, <1>6, <1>7, <1>8, <1>9, Frame, Zenon

(* What WriteBlockAndState leaves to be done is a list of operations.      *)
LEMMA WriteOpsType ==
  ASSUME Typed, NEW b \in Block, NEW td \in Int
  PROVE  /\ TdFirst(b, td, WriteCanon(b)) \in Seq(Ops)
         /\ TdFirst(b, td, WriteSide(b)) \in Seq(Ops)
<1>1. currentBlock \in Block
  BY Zenon DEF Typed
<1>2. /\ Op("failed", b, currentBlock, 0, 0) \in Ops /\ Op("reorg", b, currentBlock, 0, 0) \in Ops
      /\ Op("unlookup", b, currentBlock, 0, 0) \in Ops /\ Op("batch", b, b, 0, 1) \in Ops
      /\ Op("batch", b, b, 0, 0) \in Ops
      /\ OfBlock("insert", b) \in Ops /\ Op("written", b, currentBlock, 0, 0) \in Ops
      /\ Op("td", b, b, td, 0) \in Ops
  BY <1>1 DEF OfBlock, Op, Ops, OpName
<1>3. WriteCanon(b) \in Seq(Ops)
  <2> DEFINE o == currentBlock
             p == IF parent[b] = o THEN <<>>
                  ELSE <<Op("reorg", b, o, 0, 0), Op("unlookup", b, o, 0, 0)>>
             q == <<Op("batch", b, b, 0, 1), OfBlock("insert", b), Op("written", b, o, 0, 0)>>
  <2>1. p \in Seq(Ops) /\ q \in Seq(Ops) /\ <<Op("failed", b, o, 0, 0)>> \in Seq(Ops)
    BY <1>2, OpLists, Zenon
  <2>2. p \o q \in Seq(Ops)
    BY <2>1
  <2> QED BY <2>1, <2>2, Zenon DEF WriteCanon
<1>4. WriteSide(b) \in Seq(Ops)
  BY <1>2, OpLists, Zenon DEF WriteSide
<1>5. <<Op("td", b, b, td, 0)>> \in Seq(Ops)
  BY <1>2, OpLists, Zenon
<1> QED BY <1>3, <1>4, <1>5 DEF TdFirst

(* The two callers of WriteBlockAndState keep the types.                   *)
LEMMA WriterType ==
  ASSUME TypeInv, NEW w \in Writer, ReadPtd(w) \/ WriteBlockAndState(w)
  PROVE  TypeInv'
<1>0. /\ ImportOK /\ DbType /\ CallerType /\ RestType
      /\ blk[w] \in Block /\ parent[blk[w]] \in Block
  <2>1. ImportOK /\ DbType /\ CallerType /\ RestType
    BY TypeParts, Zenon DEF TypeInv
  <2>2. blk[w] \in Block
    BY <2>1, Zenon DEF CallerType
  <2> QED BY <2>1, <2>2, TreeAssumption, Zenon
<1>1. CASE ReadPtd(w)
  <2> USE <1>1
  <2>1. tds[parent[blk[w]]] \in Int /\ (w = "import" => holder # "import")
    BY <1>0, Zenon DEF ReadPtd, DbType, ImportOK
  <2>2. CASE tds[parent[blk[w]]] = NoTd
    <3>1. Abort(w) /\ UNCHANGED <<blk, ptd, todo, holder>>
      BY <2>2, Zenon DEF ReadPtd
    <3>2. CallerType' /\ RestType'
      BY <1>0, <3>1, AbortType, Zenon DEF CallerType, RestType
    <3>3. ImportOK'
      BY <1>0, <2>1, <3>1, AbortType, Zenon DEF ImportOK, Abort, CallerType, Writer
    <3> QED BY <3>2, <3>3, Outside, Zenon DEF ReadPtd
  <2>3. CASE tds[parent[blk[w]]] # NoTd
    <3>1. /\ pc' = [pc EXCEPT ![w] = "write"] /\ ptd' = [ptd EXCEPT ![w] = tds[parent[blk[w]]]]
          /\ pc[w] = "ptd" /\ UNCHANGED import /\ UNCHANGED <<blk, todo, holder>>
      BY <2>3, Zenon DEF ReadPtd
    <3>2. CallerType'
      BY <1>0, <2>1, <3>1, Zenon DEF CallerType, PcName
    <3>3. ImportOK'
      BY <1>0, <2>1, <3>1, Zenon DEF ImportOK, CallerType, Writer, import
    <3> QED BY <3>1, <3>2, <3>3, Outside, Zenon DEF ReadPtd
  <2> QED BY <2>2, <2>3, Zenon
<1>2. CASE WriteBlockAndState(w)
  <2> USE <1>2
  <2> DEFINE b == blk[w]
             externTd == ptd[w] + difficulty[b]
  <2>1. externTd \in Int
    <3>1. ptd[w] \in Int
      BY <1>0, Zenon DEF CallerType
    <3>2. difficulty[b] \in Nat
      BY <1>0, TreeAssumption, Zenon
    <3> QED BY <3>1, <3>2
  <2>2. CASE tds[currentBlock] = NoTd
    <3>1. Die /\ panicked' = TRUE /\ tds' = [tds EXCEPT ![b] = externTd] /\ UNCHANGED ahead
      BY <2>2, Zenon DEF WriteBlockAndState
    <3>2. tds' \in [Block -> Int]
      BY <1>0, <2>1, <3>1, Zenon DEF DbType
    <3>3. UNCHANGED <<headers, bodies, states, index, hashes>>
      BY Zenon DEF WriteBlockAndState
    <3> QED BY <3>1, <3>2, <3>3, DieType, Zenon
  <2>3. CASE tds[currentBlock] # NoTd
    <3>1. todo' \in Seq(Ops) /\ holder' = w
      BY <1>0, <2>1, <2>3, WriteOpsType, Zenon DEF WriteBlockAndState, Enter, TypeInv
    <3>2. /\ pc' = [pc EXCEPT ![w] = "locked"]
          /\ UNCHANGED <<tds, mem, future, node, blk, ptd, import>>
      BY <2>3, Zenon DEF WriteBlockAndState
    <3>3. ImportOK'
      BY <1>0, <3>1, <3>2, Zenon DEF WriteBlockAndState, ImportOK, CallerType, Writer, import
    <3>4. LockType' /\ CallerType'
      BY <1>0, <3>1, <3>2, Zenon DEF LockType, CallerType, PcName, Writer
    <3>5. UNCHANGED <<blocks, index, hashes>>
      BY <3>2, Zenon DEF WriteBlockAndState, blocks
    <3> QED BY <3>2, <3>3, <3>4, <3>5, Frame, Zenon
  <2> QED BY <2>2, <2>3, Zenon
<1> QED BY <1>1, <1>2, Zenon

(* A step of insertChain outside mu keeps the types.                       *)
LEMMA ImportType ==
  ASSUME TypeInv, ImportStep
  PROVE  TypeInv'
<1>0. ImportOK /\ CallerType /\ RestType /\ FutureType
  BY TypeParts, Zenon DEF TypeInv
<1>a. ASSUME Turn PROVE rest # <<>> /\ rest[1] \in Block /\ holder # "import"
  <2>1. rest # <<>> /\ holder # "import"
    BY <1>0, <1>a, Zenon DEF Turn, ImportOK
  <2>2. rest[1] \in Block
    BY <1>0, <2>1 DEF RestType
  <2> QED BY <2>1, <2>2, Zenon
<1>b. ASSUME NEW b \in Block, rest # <<>>, Advance(b), holder # "import",
             UNCHANGED <<blk, ptd, holder>>
      PROVE  CallerType' /\ RestType' /\ ImportOK'
  <2> USE <1>b
  <2>1. CallerType' /\ RestType'
    BY <1>0, AdvanceType, Zenon DEF CallerType, RestType
  <2>2. pc'["import"] # "locked"
    BY <1>0, Zenon DEF Advance, CallerType, Writer
  <2> QED BY <2>1, <2>2, AdvanceType, Zenon DEF ImportOK
<1>c. ASSUME Abort("import"), holder # "import", UNCHANGED <<blk, ptd, holder>>
      PROVE  CallerType' /\ RestType' /\ ImportOK'
  <2> USE <1>c
  <2>1. CallerType' /\ RestType'
    BY <1>0, AbortType, Zenon DEF CallerType, RestType, Writer
  <2>2. pc'["import"] = "idle"
    BY <1>0, Zenon DEF Abort, CallerType, Writer
  <2> QED BY <2>1, <2>2, Zenon DEF ImportOK
<1>1. CASE SkipKnown
  <2> USE <1>1
  <2>1. rest # <<>> /\ rest[1] \in Block /\ holder # "import"
    BY <1>a, Zenon DEF SkipKnown
  <2>2. Advance(rest[1]) /\ UNCHANGED <<blk, ptd, holder>>
    BY Zenon DEF SkipKnown
  <2> QED BY <1>b, <2>1, <2>2, Outside, Zenon DEF SkipKnown
<1>2. CASE QueueFuture
  <2> USE <1>2
  <2>1. rest # <<>> /\ rest[1] \in Block /\ holder # "import"
    BY <1>a, Zenon DEF QueueFuture
  <2>2. Park(rest[1]) /\ Advance(rest[1]) /\ UNCHANGED <<blk, ptd, holder, sweep, ahead>>
    BY Zenon DEF QueueFuture
  <2>3. FutureType'
    BY <1>0, <2>1, <2>2, Zenon DEF FutureType, Park
  <2> QED BY <1>b, <2>1, <2>2, <2>3, Outside, Zenon DEF QueueFuture
<1>3. CASE RejectBlock
  <2> USE <1>3
  <2>1. holder # "import"
    BY <1>a, Zenon DEF RejectBlock
  <2>2. Abort("import") /\ UNCHANGED <<blk, ptd, holder>>
    BY Zenon DEF RejectBlock
  <2> QED BY <1>c, <2>1, <2>2, Outside, Zenon DEF RejectBlock
<1>4. CASE AcceptBlock
  <2> USE <1>4
  <2>1. rest # <<>> /\ rest[1] \in Block /\ holder # "import"
    BY <1>a, Zenon DEF AcceptBlock
  <2>2. CallerType'
    BY <1>0, <2>1, Zenon DEF AcceptBlock, CallerType, PcName, Writer
  <2>3. ImportOK'
    BY <1>0, <2>1, Zenon DEF AcceptBlock, CallerType, ImportOK, Writer, import
  <2> QED BY <2>2, <2>3, Outside, Zenon DEF AcceptBlock
<1>5. CASE ProcessBlock
  <2> USE <1>5
  <2> DEFINE b == blk["import"]
  <2>1. CASE prev = None /\ parent[b] \notin Full
    <3>1. Die /\ panicked' = TRUE /\ UNCHANGED ahead /\ UNCHANGED <<blocks, index, hashes>>
      BY <2>1, Zenon DEF ProcessBlock
    <3>2. tds' \in [Block -> Int]
      BY <3>1, TypeParts, Zenon DEF TypeInv, DbType, blocks
    <3>3. UNCHANGED <<headers, bodies, states, index, hashes>>
      BY <3>1, Zenon DEF blocks
    <3> QED BY <3>1, <3>2, <3>3, DieType, Zenon
  <2>2. CASE ~(prev = None /\ parent[b] \notin Full)
    <3> USE <2>2
    <3>1. holder # "import"
      BY <1>0, Zenon DEF ProcessBlock, ImportOK
    <3>2. CASE parent[b] \notin states \/ b \in BadState
      <4>1. Abort("import") /\ UNCHANGED <<blk, ptd, holder>>
        BY <3>2, Zenon DEF ProcessBlock
      <4> QED BY <1>c, <3>1, <4>1, Outside, Zenon DEF ProcessBlock
    <3>3. CASE ~(parent[b] \notin states \/ b \in BadState)
      <4>1. /\ pc["import"] = "process" /\ pc' = [pc EXCEPT !["import"] = "ptd"]
            /\ UNCHANGED import /\ UNCHANGED <<blk, ptd, holder>>
        BY <3>3, Zenon DEF ProcessBlock
      <4>2. CallerType'
        BY <1>0, <4>1, Zenon DEF CallerType, PcName
      <4>3. ImportOK'
        BY <1>0, <3>1, <4>1, Zenon DEF CallerType, ImportOK, Writer, import
      <4> QED BY <4>1, <4>2, <4>3, Outside, Zenon DEF ProcessBlock
    <3> QED BY <3>2, <3>3, Zenon
  <2> QED BY <2>1, <2>2, Zenon
<1>6. CASE ReadPtd("import") \/ WriteBlockAndState("import")
  BY <1>6, WriterType, Zenon DEF Writer
<1> QED BY <1>1, <1>2, <1>3, <1>4, <1>5, <1>6, Zenon DEF ImportStep

(* Everything the outside world may ask of a running chain manager keeps   *)
(* the types.                                                              *)
LEMMA StepType ==
  ASSUME TypeInv, Step
  PROVE  TypeInv'
<1>0. ImportOK /\ CallerType /\ RestType /\ FutureType
  BY TypeParts, Zenon DEF TypeInv
<1>1. CASE ProcFutureBlocks
  <2> USE <1>1
  <2>1. FutureType'
    BY <1>0, Zenon DEF ProcFutureBlocks, FutureType
  <2>2. ImportOK'
    BY <1>0, Zenon DEF ProcFutureBlocks, ImportOK, writers, import
  <2> QED BY <2>1, <2>2, Outside, Zenon DEF ProcFutureBlocks
<1>2. ASSUME NEW b \in Block, InsertFuture(b) PROVE TypeInv'
  <2> USE <1>2
  <2>1. <<b>> \in Seq(Block) /\ <<b>> # <<>>
    OBVIOUS
  <2>2. FutureType'
    BY <1>0, Zenon DEF InsertFuture, FutureType
  <2>3. CallerType' /\ RestType'
    BY <1>0, <2>1, Zenon DEF InsertFuture, CallerType, RestType, PcName
  <2>4. ImportOK'
    BY <1>0, <2>1, Zenon DEF InsertFuture, CallerType, ImportOK, Writer
  <2> QED BY <2>2, <2>3, <2>4, Outside, Zenon DEF InsertFuture
<1>3. CASE ReadPtd("mine") \/ WriteBlockAndState("mine")
  BY <1>3, WriterType, Zenon DEF Writer
<1>4. ASSUME NEW c \in Chains, InsertChain(c) PROVE TypeInv'
  <2> USE <1>4
  <2>1. c \in Seq(Block)
    BY ChainAssumption, Zenon
  <2>2. CallerType' /\ RestType'
    BY <1>0, <2>1, Zenon DEF InsertChain, CallerType, RestType, PcName
  <2>3. ImportOK'
    BY <1>0, Zenon DEF InsertChain, CallerType, ImportOK, Writer
  <2> QED BY <2>2, <2>3, Outside, Zenon DEF InsertChain
<1>5. ASSUME NEW b \in Mined, CommitNewWork(b) PROVE TypeInv'
  <2> USE <1>5
  <2>1. b \in Block
    BY ChainAssumption, Zenon
  <2>2. CallerType'
    BY <1>0, <2>1, Zenon DEF CommitNewWork, CallerType, PcName
  <2>3. ImportOK'
    BY <1>0, Zenon DEF CommitNewWork, CallerType, ImportOK, Writer, import
  <2> QED BY <2>2, <2>3, Outside, Zenon DEF CommitNewWork
<1>6. CASE AbandonWork
  <2> USE <1>6
  <2>1. CallerType'
    BY <1>0, Zenon DEF AbandonWork, CallerType, PcName
  <2>2. ImportOK'
    BY <1>0, Zenon DEF AbandonWork, CallerType, ImportOK, Writer, import
  <2> QED BY <2>1, <2>2, Outside, Zenon DEF AbandonWork
<1>7. ASSUME NEW b \in Ahead, TimePasses(b) PROVE TypeInv'
  <2> USE <1>7
  <2>1. FutureType'
    BY <1>0, Zenon DEF TimePasses, FutureType
  <2>2. ImportOK'
    BY <1>0, Zenon DEF TimePasses, ImportOK, writers, import
  <2> QED BY <2>1, <2>2, Outside, Zenon DEF TimePasses
<1>8. ASSUME NEW n \in SetHeads, SetHead(n) PROVE TypeInv'
  <2> USE <1>8
  <2>1. n \in Int /\ Genesis \in Block
    BY ChainAssumption, TreeAssumption DEF Numbers
  <2>2. OfNumber("setHead", n) \in Ops /\ OfNumber("unlock", 0) \in Ops
    BY <2>1 DEF OfNumber, Op, Ops, OpName
  <2>3. todo' \in Seq(Ops) /\ holder' = "setHead"
    BY <2>2, OpLists, Zenon DEF SetHead, Enter
  <2>4. LockType'
    BY <2>3, Zenon DEF LockType
  <2>5. ImportOK'
    BY <1>0, <2>3, Zenon DEF SetHead, ImportOK, writers, import
  <2> QED BY <2>4, <2>5, Frame, Zenon DEF SetHead
<1> QED BY <1>1, <1>2, <1>3, <1>4, <1>5, <1>6, <1>7, <1>8, SectionType, ImportType, Zenon
        DEF Step, Sweep

(* Death, birth and every step in between keep the types.                  *)
LEMMA NextType == TypeInv /\ [Next]_vars => TypeInv'
<1> SUFFICES ASSUME TypeInv, [Next]_vars PROVE TypeInv'
  BY Zenon
<1>0. ImportOK /\ DbType /\ MemType /\ NodeType /\ LockType
  BY TypeParts, Zenon DEF TypeInv
<1>1. CASE Crash
  <2>1. panicked' \in BOOLEAN /\ Die /\ UNCHANGED ahead
    BY <1>0, <1>1, Zenon DEF Crash, NodeType
  <2>2. tds' \in [Block -> Int] /\ UNCHANGED <<headers, bodies, states, index, hashes>>
    BY <1>0, <1>1, Zenon DEF Crash, DbType, blocks
  <2> QED BY <2>1, <2>2, DieType, Zenon
<1>2. CASE NewBlockChain
  <2> USE <1>2
  <2>1. Genesis \in Block
    BY TreeAssumption, Zenon
  <2>2. OfNumber("load", 0) \in Ops /\ OfNumber("unlock", 0) \in Ops
    BY <2>1 DEF OfNumber, Op, Ops, OpName
  <2>3. todo' \in Seq(Ops) /\ holder' = "boot"
    BY <2>2, OpLists, Zenon DEF NewBlockChain, Enter
  <2>4. headBlockHash \in Block
    BY TypeParts, Zenon DEF TypeInv, HashType
  <2>5. LockType' /\ NodeType'
    BY <1>0, <2>3, Zenon DEF NewBlockChain, LockType, NodeType
  <2>6. MemType'
    BY <1>0, <2>1, <2>4, Zenon DEF NewBlockChain, MemType
  <2>7. ImportOK'
    BY <1>0, <2>3, Zenon DEF NewBlockChain, ImportOK, writers, import
  <2> QED BY <2>5, <2>6, <2>7, Frame, Zenon DEF NewBlockChain
<1>3. CASE UNCHANGED vars
  <2>1. /\ UNCHANGED <<todo, holder>>
        /\ UNCHANGED <<blocks, index, hashes, mem, future, node, writers, import>>
    BY <1>3, Zenon DEF vars, blocks, index, hashes, mem, future, node, writers, import
  <2>2. ImportOK'
    BY <1>0, <2>1, Zenon DEF ImportOK, writers, import
  <2> QED BY <2>1, <2>2, Outside, Zenon
<1> QED BY <1>1, <1>2, <1>3, StepType, Zenon DEF Next

(* Genesis.Commit and NewBlockChain leave well-typed state.                *)
LEMMA InitType == Init => TypeInv
<1> SUFFICES ASSUME Init PROVE TypeInv
  BY Zenon
<1>1. /\ Genesis \in Block /\ difficulty[Genesis] \in Int /\ NoTd \in Int
      /\ Ahead \subseteq Block /\ MaxFuture \in Nat
  BY TreeAssumption, ChainAssumption DEF NoTd
<1>3. todo \in Seq(Ops) /\ rest \in Seq(Block)
  BY DEF Init
<1>4. pc \in [Writer -> PcName] /\ blk \in [Writer -> Block] /\ ptd \in [Writer -> Int]
      /\ pc["import"] = "idle"
  BY <1>1 DEF Init, Idle, PcName, Writer
<1>5. tds \in [Block -> Int] /\ canon \in [Numbers -> Block \cup {None}]
      /\ lookup \in [Tx -> Block \cup {None}]
  BY <1>1, Zenon DEF Init
<1>6. Typed
  BY <1>1, <1>3, <1>4, <1>5, Zenon DEF Init, Typed
<1>7. ImportOK
  BY <1>4, Zenon DEF Init, ImportOK
<1> QED BY <1>6, <1>7, Zenon DEF TypeInv
=============================================================================
