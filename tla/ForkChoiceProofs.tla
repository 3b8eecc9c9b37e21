-------------------------- MODULE ForkChoiceProofs --------------------------
(***************************************************************************)
(* Chains of blocks: what the smallest parent-closed set around a block,   *)
(* Anc[b], looks like in every tree, and the tables and stacks that follow *)
(* it.  The proofs on the chain manager rest on these lemmas.  And the     *)
(* fork choice, which keeps its promises on every tree of blocks.          *)
(***************************************************************************)
EXTENDS ForkChoice, TLAPS

(* Chains of blocks.                                                       *)

(* Block numbers are natural numbers.                                      *)
LEMMA Numbered == \A x \in Block : number[x] \in Nat
<1> SUFFICES ASSUME NEW x \in Block PROVE number[x] \in Nat
  OBVIOUS
<1>1. number[x] \in 0..MaxNumber
  BY TreeAssumption
<1> QED BY <1>1

(* A parent-closed set that holds a block holds its ancestors.             *)
LEMMA AncLeast ==
  ASSUME NEW b \in Block, NEW S \in SUBSET Block, b \in S, Closed(S)
  PROVE  Anc[b] \subseteq S
BY DEF Anc

(* A block is among its ancestors, which are parent-closed.                *)
LEMMA AncClosed ==
  ASSUME NEW b \in Block
  PROVE  b \in Anc[b] /\ Anc[b] \subseteq Block /\ Closed(Anc[b])
<1>1. b \in Anc[b] /\ Anc[b] \subseteq Block
  BY DEF Anc
<1>2. ASSUME NEW x \in Anc[b], x # Genesis PROVE parent[x] \in Anc[b]
  <2>1. x \in Block /\ parent[x] \in Block
    BY <1>1, <1>2, TreeAssumption
  <2>2. ASSUME NEW S \in SUBSET Block, b \in S, Closed(S) PROVE parent[x] \in S
    <3>1. x \in S
      BY <2>2, AncLeast
    <3> QED BY <1>2, <2>2, <3>1 DEF Closed
  <2> QED BY <2>1, <2>2 DEF Anc
<1> QED BY <1>1, <1>2 DEF Closed

(* The genesis block has no other ancestor.                                *)
LEMMA AncGenesis == Anc[Genesis] = {Genesis}
<1>1. {Genesis} \in SUBSET Block /\ Closed({Genesis}) /\ Genesis \in Block
  BY TreeAssumption DEF Closed
<1>2. Anc[Genesis] \subseteq {Genesis}
  BY <1>1, AncLeast
<1> QED BY <1>1, <1>2, AncClosed

(* An ancestor's ancestors are ancestors.                                  *)
LEMMA AncTrans ==
  ASSUME NEW b \in Block, NEW x \in Anc[b]
  PROVE  x \in Block /\ parent[x] \in Block /\ Anc[x] \subseteq Anc[b] /\ parent[x] \in Anc[b]
<1>1. Anc[b] \in SUBSET Block /\ Closed(Anc[b]) /\ x \in Block
  BY AncClosed
<1>2. Anc[x] \subseteq Anc[b]
  BY <1>1, AncLeast
<1>3. parent[x] \in Anc[b]
  BY <1>1, TreeAssumption DEF Closed
<1> QED BY <1>1, <1>2, <1>3

(* The ancestors of a block are the block and its parent's ancestors.      *)
LEMMA AncStep ==
  ASSUME NEW b \in Block
  PROVE  parent[b] \in Block /\ Anc[b] = {b} \cup Anc[parent[b]]
<1>1. parent[b] \in Block /\ b \in Anc[b] /\ Anc[b] \in SUBSET Block
  BY TreeAssumption, AncClosed
<1>2. Anc[parent[b]] \subseteq Anc[b]
  BY <1>1, AncTrans, AncClosed
<1>3. Anc[b] \subseteq {b} \cup Anc[parent[b]]
  <2> DEFINE S == {b} \cup Anc[parent[b]]
  <2>1. S \in SUBSET Block /\ b \in S
    BY <1>1, AncClosed
  <2>2. Closed(S)
    BY <1>1, AncClosed DEF Closed
  <2> HIDE DEF S
  <2>3. Anc[b] \subseteq S
    BY <2>1, <2>2, AncLeast
  <2> QED BY <2>3 DEF S
<1> QED BY <1>1, <1>2, <1>3

(* Numbers do not grow towards the genesis block.                          *)
LEMMA AncNumber ==
  ASSUME NEW b \in Block, NEW x \in Anc[b]
  PROVE  number[x] \in Nat /\ number[b] \in Nat /\ number[x] <= number[b]
<1> DEFINE S == {y \in Block : number[y] <= number[b]}
<1>0. \A y \in Block : number[y] \in Nat
  BY TreeAssumption
<1>1. S \in SUBSET Block /\ b \in S
  BY <1>0
<1>2. ASSUME NEW y \in S, y # Genesis PROVE parent[y] \in S
  <2>1. parent[y] \in Block /\ number[y] = number[parent[y]] + 1
    BY <1>2, TreeAssumption
  <2> QED BY <1>0, <2>1
<1>3. Closed(S)
  BY <1>2 DEF Closed
<1> HIDE DEF S
<1>4. x \in S
  BY <1>1, <1>3, AncLeast
<1> QED BY <1>0, <1>4 DEF S

(* A block is not among its parent's ancestors.                            *)
LEMMA AncProper ==
  ASSUME NEW b \in Block, b # Genesis
  PROVE  b \notin Anc[parent[b]] /\ parent[b] # b
<1>1. parent[b] \in Block /\ number[b] = number[parent[b]] + 1 /\ number[parent[b]] \in Nat
  BY TreeAssumption
<1>2. ASSUME b \in Anc[parent[b]] PROVE FALSE
  BY <1>1, <1>2, AncNumber
<1>3. parent[b] \in Anc[parent[b]]
  BY <1>1, AncClosed
<1> QED BY <1>2, <1>3

(* A chain is a line: an ancestor below another one is its ancestor.       *)
LEMMA AncLine ==
  ASSUME NEW b \in Block, NEW x \in Anc[b], NEW y \in Anc[b]
  PROVE  y \in Anc[x] \/ number[y] > number[x]
<1>1. ASSUME NEW z \in Anc[b], z # Genesis, y \in Anc[z] \/ number[y] > number[z]
      PROVE  y \in Anc[parent[z]] \/ number[y] > number[parent[z]]
  <2>1. z \in Block /\ parent[z] \in Block /\ number[z] \in Nat /\ number[parent[z]] \in Nat
        /\ number[z] = number[parent[z]] + 1 /\ number[y] \in Nat
    BY <1>1, AncTrans, AncNumber, TreeAssumption
  <2>2. CASE y \in Anc[z]
    <3>1. y = z \/ y \in Anc[parent[z]]
      BY <2>1, <2>2, AncStep
    <3> QED BY <2>1, <3>1
  <2>3. CASE number[y] > number[z]
    BY <2>1, <2>3
  <2> QED BY <1>1, <2>2, <2>3
<1> DEFINE T == {z \in Anc[b] : y \in Anc[z] \/ number[y] > number[z]}
<1>2. T \in SUBSET Block /\ b \in T
  BY AncClosed
<1>3. Closed(T)
  BY <1>1, AncTrans DEF Closed
<1> HIDE DEF T
<1>4. x \in T
  BY <1>2, <1>3, AncLeast
<1> QED BY <1>4 DEF T

(* The blocks of a chain have different numbers.                           *)
LEMMA AncDistinct ==
  ASSUME NEW b \in Block, NEW x \in Anc[b], NEW y \in Anc[b], number[x] = number[y]
  PROVE  x = y
<1>1. x \in Block /\ y \in Block /\ number[x] \in Nat /\ number[y] \in Nat
  BY AncTrans, AncNumber
<1>2. y \in Anc[x]
  BY <1>1, AncLine
<1>3. ASSUME y # x PROVE FALSE
  <2>1. y \in Anc[parent[x]] /\ parent[x] \in Block
    BY <1>1, <1>2, <1>3, AncStep
  <2>2. number[y] <= number[parent[x]] /\ number[parent[x]] \in Nat
    BY <2>1, AncNumber
  <2>3. CASE x = Genesis
    BY <1>2, <1>3, <2>3, AncGenesis
  <2>4. CASE x # Genesis
    BY <1>1, <2>2, <2>4, TreeAssumption
  <2> QED BY <2>3, <2>4
<1> QED BY <1>3
-----------------------------------------------------------------------------
(* The table of canonical numbers.                                         *)

(* The table c leads to every block of the set.                            *)
Listed(c, S) == \A y \in S : c[number[y]] = y

(* What the table must list when reorg, adopting b in place of o, has      *)
(* inserted the new chain from b down to x, without x.                     *)
Adopting(x, b, o) == (Anc[b] \ Anc[x]) \cup (Anc[x] \cap Anc[o])

(* BlockChain.insert of one block of a chain lists it next to the others.  *)
LEMMA InsertLists ==
  ASSUME NEW b \in Block, NEW x \in Anc[b], NEW S, NEW T, S \subseteq Anc[b], S \ {x} \subseteq T,
         NEW c, NEW V, c \in [Numbers -> V], Listed(c, T)
  PROVE  Listed([c EXCEPT ![number[x]] = x], S)
<1> SUFFICES ASSUME NEW y \in S
             PROVE  [c EXCEPT ![number[x]] = x][number[y]] = y
  BY DEF Listed
<1>1. number[x] \in Numbers /\ number[y] \in Numbers
  BY AncTrans, TreeAssumption DEF Numbers
<1>2. CASE y = x
  BY <1>1, <1>2
<1>3. CASE y # x
  <2>1. number[y] # number[x]
    BY <1>3, AncDistinct
  <2>2. c[number[y]] = y
    BY <1>3 DEF Listed
  <2> QED BY <1>1, <2>1, <2>2
<1> QED BY <1>2, <1>3

(* reorg starts from a table that lists the old chain, ...                 *)
LEMMA AdoptFirst ==
  ASSUME NEW b, NEW o
  PROVE  Adopting(b, b, o) \subseteq Anc[o]
BY DEF Adopting

(* ... inserts one block after the other ...                               *)
LEMMA AdoptNext ==
  ASSUME NEW b \in Block, NEW o, NEW x \in Anc[b]
  PROVE  /\ Adopting(parent[x], b, o) \subseteq Anc[b]
         /\ Adopting(parent[x], b, o) \ {x} \subseteq Adopting(x, b, o)
<1>1. x \in Block /\ Anc[x] \subseteq Anc[b] /\ Anc[x] = {x} \cup Anc[parent[x]]
  BY AncTrans, AncStep
<1> QED BY <1>1 DEF Adopting

LEMMA AdoptInsert ==
  ASSUME NEW b \in Block, NEW o, NEW x \in Anc[b], NEW c, NEW V, c \in [Numbers -> V],
         Listed(c, Adopting(x, b, o))
  PROVE  Listed([c EXCEPT ![number[x]] = x], Adopting(parent[x], b, o))
<1> DEFINE S == Adopting(parent[x], b, o)
           T == Adopting(x, b, o)
<1>1. S \subseteq Anc[b] /\ S \ {x} \subseteq T
  BY AdoptNext
<1> HIDE DEF S, T
<1>2. Listed(c, T)
  BY DEF T
<1>3. Listed([c EXCEPT ![number[x]] = x], S)
  BY ONLY <1>1, <1>2, InsertLists, b \in Block, x \in Anc[b], c \in [Numbers -> V]
<1> QED BY <1>3 DEF S

(* ... and stops at a common ancestor: then the new chain is listed.       *)
LEMMA AdoptLast ==
  ASSUME NEW b \in Block, NEW o \in Block, NEW x \in Anc[b], x \in Anc[o]
  PROVE  Anc[b] \subseteq Adopting(x, b, o)
<1>1. Anc[x] \subseteq Anc[o]
  BY AncTrans
<1> QED BY <1>1 DEF Adopting

-----------------------------------------------------------------------------
(* The transaction index.                                                  *)

(* The index l knows the transactions of the set, and no other.            *)
Indexed(l, S) ==
  \A t \in Tx : \/ l[t] \in S /\ t \in txs[l[t]]
                \/ l[t] = None /\ \A y \in S : t \notin txs[y]

(* It knows those of D, and of what is not in D those of S.                *)
Reindexed(l, D, S) ==
  \A t \in Tx : \/ l[t] \in D /\ t \in txs[l[t]]
                \/ /\ \A y \in D : t \notin txs[y]
                   /\ \/ l[t] \in S /\ t \in txs[l[t]]
                      \/ l[t] = None /\ \A y \in S : t \notin txs[y]

(* It knows those of D, and maybe others of S.                             *)
Leftover(l, D, S) ==
  \A t \in Tx : /\ (\E y \in D : t \in txs[y]) => l[t] \in D /\ t \in txs[l[t]]
                /\ (\A y \in D \cup S : t \notin txs[y]) => l[t] = None

(* WriteTxLookupEntries, and the deletion at the end of reorg.             *)
Entries(l, b) == [t \in Tx |-> IF t \in txs[b] THEN b ELSE l[t]]
Without(l, b, o) ==
  [t \in Tx |-> IF t \in TxsOf(OldChain(o, b)) \ TxsOf(NewChain(o, b)) THEN None ELSE l[t]]

LEMMA IndexFirst ==
  ASSUME NEW l, NEW S, Indexed(l, S)
  PROVE  Reindexed(l, {}, S)
BY DEF Indexed, Reindexed

LEMMA IndexNext ==
  ASSUME NEW l, NEW D, NEW E, NEW S, NEW x, Reindexed(l, D, S), E = D \cup {x}
  PROVE  Reindexed(Entries(l, x), E, S)
<1> SUFFICES ASSUME NEW t \in Tx
             PROVE  \/ Entries(l, x)[t] \in E /\ t \in txs[Entries(l, x)[t]]
                    \/ /\ \A y \in E : t \notin txs[y]
                       /\ \/ Entries(l, x)[t] \in S /\ t \in txs[Entries(l, x)[t]]
                          \/ Entries(l, x)[t] = None /\ \A y \in S : t \notin txs[y]
  BY DEF Reindexed
<1>1. CASE t \in txs[x]
  BY <1>1 DEF Entries
<1>2. CASE t \notin txs[x]
  <2>1. Entries(l, x)[t] = l[t]
    BY <1>2 DEF Entries
  <2> QED BY <1>2, <2>1 DEF Reindexed
<1> QED BY <1>1, <1>2

(* The entries of the common ancestors never pointed elsewhere.            *)
LEMMA IndexLast ==
  ASSUME NoReplay, NEW b \in Block, NEW o \in Block, NEW x \in Anc[b], x \in Anc[o],
         NEW l, Reindexed(l, Anc[b] \ Anc[x], Anc[o])
  PROVE  Leftover(l, Anc[b], Anc[o])
<1>1. Anc[x] \subseteq Anc[o]
  BY AncTrans
<1> SUFFICES ASSUME NEW t \in Tx
             PROVE  /\ (\E y \in Anc[b] : t \in txs[y]) => l[t] \in Anc[b] /\ t \in txs[l[t]]
                    /\ (\A y \in Anc[b] \cup Anc[o] : t \notin txs[y]) => l[t] = None
  BY DEF Leftover
<1>2. CASE l[t] \in Anc[b] \ Anc[x] /\ t \in txs[l[t]]
  BY <1>2
<1>3. CASE /\ \A y \in Anc[b] \ Anc[x] : t \notin txs[y]
           /\ l[t] \in Anc[o] /\ t \in txs[l[t]]
  <2>1. ASSUME NEW y \in Anc[b], t \in txs[y] PROVE l[t] = y
    <3>1. y \in Anc[o]
      BY <1>1, <1>3, <2>1
    <3> QED BY <1>3, <2>1, <3>1 DEF NoReplay
  <2> QED BY <1>3, <2>1
<1>4. CASE /\ \A y \in Anc[b] \ Anc[x] : t \notin txs[y]
           /\ l[t] = None /\ \A y \in Anc[o] : t \notin txs[y]
  <2>1. \A y \in Anc[b] : t \notin txs[y]
    BY <1>1, <1>4
  <2> QED BY <1>4, <2>1
<1> QED BY <1>2, <1>3, <1>4 DEF Reindexed

(* reorg forgets what only the old chain holds.                            *)
LEMMA IndexForget ==
  ASSUME NoReplay, NEW b \in Block, NEW o \in Block, NEW l, Leftover(l, Anc[b], Anc[o])
  PROVE  Indexed(Without(l, b, o), Anc[b])
<1> SUFFICES ASSUME NEW t \in Tx
             PROVE  LET e == Without(l, b, o)[t] IN
                    \/ e \in Anc[b] /\ t \in txs[e]
                    \/ e = None /\ \A y \in Anc[b] : t \notin txs[y]
  BY DEF Indexed
<1>0. /\ (\E y \in Anc[b] : t \in txs[y]) => l[t] \in Anc[b] /\ t \in txs[l[t]]
      /\ (\A y \in Anc[b] \cup Anc[o] : t \notin txs[y]) => l[t] = None
  BY DEF Leftover
<1>1. CASE t \in TxsOf(OldChain(o, b)) \ TxsOf(NewChain(o, b))
  <2>1. Without(l, b, o)[t] = None
    BY <1>1 DEF Without
  <2>2. PICK z \in Anc[o] \ Anc[b] : t \in txs[z]
    BY <1>1 DEF TxsOf, OldChain
  <2>3. ASSUME NEW y \in Anc[b], t \in txs[y] PROVE FALSE
    <3>1. y \in Anc[o]
      BY <1>1, <2>3 DEF TxsOf, NewChain
    <3>2. y = z
      BY <2>2, <2>3, <3>1 DEF NoReplay
    <3> QED BY <2>2, <3>2
  <2> QED BY <2>1, <2>3
<1>2. CASE ~(t \in TxsOf(OldChain(o, b)) \ TxsOf(NewChain(o, b)))
  <2>1. Without(l, b, o)[t] = l[t]
    BY <1>2 DEF Without
  <2>2. CASE \E y \in Anc[b] : t \in txs[y]
    BY <1>0, <2>1, <2>2
  <2>3. CASE \A y \in Anc[b] : t \notin txs[y]
    <3>1. t \notin TxsOf(NewChain(o, b))
      BY <2>3 DEF TxsOf, NewChain
    <3>2. t \notin TxsOf(OldChain(o, b))
      BY <1>2, <3>1
    <3>3. \A y \in Anc[o] \ Anc[b] : t \notin txs[y]
      BY <3>2 DEF TxsOf, OldChain
    <3>4. \A y \in Anc[b] \cup Anc[o] : t \notin txs[y]
      BY <2>3, <3>3
    <3> QED BY <1>0, <2>1, <2>3, <3>4
  <2> QED BY <2>2, <2>3
<1> QED BY <1>1, <1>2

(* The batch of a new head adds the entries of its own.                    *)
LEMMA IndexHead ==
  ASSUME NEW b \in Block, NEW l, Indexed(l, Anc[b]) \/ Indexed(l, Anc[parent[b]])
  PROVE  Indexed(Entries(l, b), Anc[b])
<1>1. Anc[b] = {b} \cup Anc[parent[b]]
  BY AncStep
<1> SUFFICES ASSUME NEW t \in Tx
             PROVE  LET e == Entries(l, b)[t] IN
                    \/ e \in Anc[b] /\ t \in txs[e]
                    \/ e = None /\ \A y \in Anc[b] : t \notin txs[y]
  BY DEF Indexed
<1>2. CASE t \in txs[b]
  BY <1>1, <1>2 DEF Entries
<1>3. CASE t \notin txs[b]
  <2>1. Entries(l, b)[t] = l[t]
    BY <1>3 DEF Entries
  <2> QED BY <1>1, <1>3, <2>1 DEF Indexed
<1> QED BY <1>2, <1>3
-----------------------------------------------------------------------------
(* Stacks of pending operations.                                           *)

Push(e, k) == <<e>> \o k

LEMMA PushPop ==
  ASSUME NEW S, NEW e \in S, NEW k \in Seq(S)
  PROVE  /\ Push(e, k) \in Seq(S) /\ Push(e, k) # <<>> /\ Push(e, k)[1] = e
         /\ Tail(Push(e, k)) = k /\ <<>> \o k = k
BY DEF Push

LEMMA Push2 ==
  ASSUME NEW S, NEW u \in S, NEW v \in S, NEW k \in Seq(S)
  PROVE  <<u, v>> \o k = Push(u, Push(v, k))
<1> DEFINE s == <<u, v>> \o k
           t == <<u>> \o (<<v>> \o k)
<1>1. s \in Seq(S) /\ t \in Seq(S) /\ Len(s) = Len(k) + 2 /\ Len(t) = Len(k) + 2
  OBVIOUS
<1>2. ASSUME NEW i \in 1..(Len(k) + 2) PROVE s[i] = t[i]
  <2>1. CASE i \in 1..2
    BY <2>1
  <2>2. CASE i > 2
    <3>1. s[i] = k[i-2] /\ t[i] = (<<v>> \o k)[i-1]
      BY <1>2, <2>2
    <3>2. (<<v>> \o k)[i-1] = k[i-2]
      BY <1>2, <2>2
    <3> QED BY <3>1, <3>2
  <2> QED BY <1>2, <2>1, <2>2
<1> HIDE DEF s, t
<1>3. s = t
  BY <1>1, <1>2
<1> QED BY <1>3 DEF s, t, Push

LEMMA Push3 ==
  ASSUME NEW S, NEW u \in S, NEW v \in S, NEW w \in S, NEW k \in Seq(S)
  PROVE  <<u, v, w>> \o k = Push(u, Push(v, Push(w, k)))
<1> DEFINE s == <<u, v, w>> \o k
           t == <<u>> \o (<<v>> \o (<<w>> \o k))
<1>1. s \in Seq(S) /\ t \in Seq(S) /\ Len(s) = Len(k) + 3 /\ Len(t) = Len(k) + 3
  OBVIOUS
<1>2. ASSUME NEW i \in 1..(Len(k) + 3) PROVE s[i] = t[i]
  <2>1. CASE i \in 1..3
    BY <2>1
  <2>2. CASE i > 3
    <3>1. s[i] = k[i-3] /\ t[i] = (<<v>> \o (<<w>> \o k))[i-1]
      BY <1>2, <2>2
    <3>2. (<<v>> \o (<<w>> \o k))[i-1] = (<<w>> \o k)[i-2]
      BY <1>2, <2>2
    <3>3. (<<w>> \o k)[i-2] = k[i-3]
      BY <1>2, <2>2
    <3> QED BY <3>1, <3>2, <3>3
  <2> QED BY <1>2, <2>1, <2>2
<1> HIDE DEF s, t
<1>3. s = t
  BY <1>1, <1>2
<1> QED BY <1>3 DEF s, t, Push

(* Short stacks.                                                           *)
LEMMA Stack2 ==
  ASSUME NEW S, NEW u \in S, NEW v \in S
  PROVE  <<u, v>> = Push(u, <<v>>)
<1> DEFINE s == <<u, v>>
           t == <<u>> \o <<v>>
<1>1. s \in Seq(S) /\ t \in Seq(S) /\ Len(s) = 2 /\ Len(t) = 2
  OBVIOUS
<1>2. s[1] = t[1] /\ s[2] = t[2] /\ \A i \in 1..2 : i = 1 \/ i = 2
  OBVIOUS
<1> HIDE DEF s, t
<1>3. s = t
  BY <1>1, <1>2
<1> QED BY <1>3 DEF s, t, Push

LEMMA Stack3 ==
  ASSUME NEW S, NEW u \in S, NEW v \in S, NEW w \in S
  PROVE  <<u, v, w>> = Push(u, <<v, w>>)
<1> DEFINE s == <<u, v, w>>
           t == <<u>> \o <<v, w>>
<1>1. s \in Seq(S) /\ t \in Seq(S) /\ Len(s) = 3 /\ Len(t) = 3
  OBVIOUS
<1>2. s[1] = t[1] /\ s[2] = t[2] /\ s[3] = t[3] /\ \A i \in 1..3 : i = 1 \/ i = 2 \/ i = 3
  OBVIOUS
<1> HIDE DEF s, t
<1>3. s = t
  BY <1>1, <1>2
<1> QED BY <1>3 DEF s, t, Push

(* The operation on top is replaced by others.                             *)
Replace(ops, s) == ops \o Tail(s)

LEMMA Replace0 ==
  ASSUME NEW S, NEW e \in S, NEW k \in Seq(S)
  PROVE  Replace(<<>>, Push(e, k)) = k
BY PushPop DEF Replace

LEMMA Replace1 ==
  ASSUME NEW S, NEW e \in S, NEW k \in Seq(S), NEW u
  PROVE  Replace(<<u>>, Push(e, k)) = Push(u, k)
<1>1. Tail(Push(e, k)) = k
  BY PushPop
<1> QED BY <1>1 DEF Replace, Push

LEMMA Replace3 ==
  ASSUME NEW S, NEW e \in S, NEW k \in Seq(S), NEW u \in S, NEW v \in S, NEW w \in S
  PROVE  Replace(<<u, v, w>>, Push(e, k)) = Push(u, Push(v, Push(w, k)))
<1>1. Tail(Push(e, k)) = k
  BY PushPop
<1>2. Replace(<<u, v, w>>, Push(e, k)) = <<u, v, w>> \o k
  BY <1>1 DEF Replace
<1>3. <<u, v, w>> \o k = Push(u, Push(v, Push(w, k)))
  BY Push3
<1> QED BY <1>2, <1>3

(* The operations that BlockChain.insert leaves behind.                    *)
Follow(u, v, w, c, x) == <<u>> \o (IF c # x THEN <<v, w>> ELSE <<>>)

LEMMA Choice ==
  ASSUME NEW S, NEW e \in S, NEW u \in S, NEW v \in S, NEW w \in S, NEW k \in Seq(S), NEW c, NEW x
  PROVE  /\ c # x => Replace(Follow(u, v, w, c, x), Push(e, k)) = Push(u, Push(v, Push(w, k)))
         /\ c = x => Replace(Follow(u, v, w, c, x), Push(e, k)) = Push(u, k)
<1>1. ASSUME c # x
      PROVE  Replace(Follow(u, v, w, c, x), Push(e, k)) = Push(u, Push(v, Push(w, k)))
  <2>1. Follow(u, v, w, c, x) = Push(u, <<v, w>>)
    BY <1>1 DEF Push, Follow
  <2>2. <<u, v, w>> = Push(u, <<v, w>>)
    BY Stack3
  <2>3. Follow(u, v, w, c, x) = <<u, v, w>>
    BY <2>1, <2>2
  <2> QED BY <2>3, Replace3
<1>2. ASSUME c = x
      PROVE  Replace(Follow(u, v, w, c, x), Push(e, k)) = Push(u, k)
  <2>1. Follow(u, v, w, c, x) = <<u>> \o <<>>
    BY <1>2 DEF Follow
  <2>2. <<u>> \o <<>> = <<u>>
    OBVIOUS
  <2>3. Follow(u, v, w, c, x) = <<u>>
    BY <2>1, <2>2
  <2> QED BY <2>3, Replace1
<1> QED BY <1>1, <1>2

(* A stack whose bottom is z, the operation that gives mu back.            *)
Based(S, k, z) == k \in Seq(S) /\ k # <<>> /\ k[Len(k)] = z

LEMMA BasedFirst ==
  ASSUME NEW S, NEW z \in S
  PROVE  Based(S, <<z>>, z)
BY DEF Based

LEMMA BasedPush ==
  ASSUME NEW S, NEW e \in S, NEW k, NEW z, Based(S, k, z)
  PROVE  Based(S, Push(e, k), z)
<1>1. /\ k \in Seq(S) /\ Len(k) \in Nat /\ Len(k) # 0 /\ k[Len(k)] = z /\ <<e>> \in Seq(S)
  BY DEF Based
<1>2. Len(<<e>> \o k) = Len(k) + 1 /\ (<<e>> \o k)[Len(k) + 1] = k[Len(k)]
  BY <1>1
<1> QED BY <1>1, <1>2, PushPop DEF Push, Based

(* The operations that WriteBlockAndState queues for a canonical block.    *)
Plan(r, u, x, y, z, p, q) == (IF p = q THEN <<>> ELSE <<r, u>>) \o <<x, y, z>>

LEMMA Planned ==
  ASSUME NEW S, NEW r \in S, NEW u \in S, NEW x \in S, NEW y \in S, NEW z \in S, NEW p, NEW q
  PROVE  /\ p = q => Plan(r, u, x, y, z, p, q) = Push(x, Push(y, <<z>>))
         /\ p # q => Plan(r, u, x, y, z, p, q) = Push(r, Push(u, Push(x, Push(y, <<z>>))))
<1>1. <<x, y, z>> = Push(x, Push(y, <<z>>))
  <2>1. <<x, y, z>> = Push(x, <<y, z>>)
    BY Stack3
  <2>2. <<y, z>> = Push(y, <<z>>)
    BY Stack2
  <2> QED BY <2>1, <2>2
<1>2. ASSUME p = q
      PROVE  Plan(r, u, x, y, z, p, q) = Push(x, Push(y, <<z>>))
  <2>1. Plan(r, u, x, y, z, p, q) = <<>> \o <<x, y, z>>
    BY <1>2 DEF Plan
  <2>2. <<>> \o <<x, y, z>> = <<x, y, z>>
    OBVIOUS
  <2> QED BY <1>1, <2>1, <2>2
<1>3. ASSUME p # q
      PROVE  Plan(r, u, x, y, z, p, q) = Push(r, Push(u, Push(x, Push(y, <<z>>))))
  <2>1. Plan(r, u, x, y, z, p, q) = <<r, u>> \o <<x, y, z>>
    BY <1>3 DEF Plan
  <2>2. ASSUME NEW k \in Seq(S)
        PROVE  <<r, u>> \o k = Push(r, Push(u, k))
    BY Push2
  <2>3. <<x, y, z>> \in Seq(S)
    OBVIOUS
  <2>4. <<r, u>> \o <<x, y, z>> = Push(r, Push(u, <<x, y, z>>))
    BY <2>2, <2>3
  <2> QED BY <1>1, <2>1, <2>4
<1> QED BY <1>2, <1>3

-----------------------------------------------------------------------------
(* The fork choice.                                                        *)

(* The inductive invariant: the three named parts need each other, since a *)
(* new weight is compared with that of the parent and of the head.         *)
ChoiceInv == ChoiceTypeOK /\ Weighed /\ BestIsBest

(* The total difficulty computed for a new block is a natural number.      *)
LEMMA WeightType ==
  ASSUME ChoiceTypeOK, NEW b \in Block
  PROVE  Weight(b) \in Nat
BY TreeAssumption DEF ChoiceTypeOK, Weight

(* Genesis.Commit establishes the invariant.                               *)
LEMMA ChoiceStarts == ChoiceInit => ChoiceInv
BY TreeAssumption DEF ChoiceInit, ChoiceInv, ChoiceTypeOK, Weighed, BestIsBest

(* WriteBlockAndState, seen as one step, preserves the types.              *)
LEMMA AddTypeOK ==
  ASSUME ChoiceInv, NEW b \in Block, Add(b)
  PROVE  ChoiceTypeOK'
BY WeightType DEF ChoiceInv, ChoiceTypeOK, Add

(* A new block weighs more than its parent by its own difficulty, and the  *)
(* weights of the others stay.                                             *)
LEMMA AddWeighed ==
  ASSUME ChoiceInv, NEW b \in Block, Add(b)
  PROVE  Weighed'
<1> SUFFICES ASSUME NEW x \in known' \ {Genesis}
             PROVE  parent[x] \in known' /\ weight'[x] = weight'[parent[x]] + difficulty[x]
  BY DEF Weighed
<1>1. /\ known' = known \cup {b} /\ b \notin known /\ parent[b] \in known
      /\ weight' = [weight EXCEPT ![b] = Weight(b)]
      /\ weight \in [Block -> Nat] /\ known \subseteq Block
  BY DEF Add, ChoiceInv, ChoiceTypeOK
<1>2. CASE x = b
  BY <1>1, <1>2 DEF Weight
<1>3. CASE x # b
  <2>1. parent[x] \in known /\ weight[x] = weight[parent[x]] + difficulty[x]
    BY <1>1, <1>3 DEF ChoiceInv, Weighed
  <2> QED BY <1>1, <1>3, <2>1
<1> QED BY <1>2, <1>3

(* The new head is the better of the old head and the new block, so no     *)
(* known block beats it.                                                   *)
LEMMA AddBestIsBest ==
  ASSUME ChoiceInv, NEW b \in Block, Add(b)
  PROVE  BestIsBest'
<1> SUFFICES ASSUME NEW x \in known'
             PROVE  \/ weight'[x] < weight'[best']
                    \/ weight'[x] = weight'[best'] /\ number[best'] <= number[x]
  BY DEF BestIsBest
<1>1. /\ known' = known \cup {b} /\ b \notin known
      /\ weight' = [weight EXCEPT ![b] = Weight(b)]
      /\ weight \in [Block -> Nat] /\ known \subseteq Block /\ best \in known
      /\ Weight(b) \in Nat
  BY WeightType DEF Add, ChoiceInv, ChoiceTypeOK
<1>2. \A y \in known : \/ weight[y] < weight[best]
                       \/ weight[y] = weight[best] /\ number[best] <= number[y]
  BY DEF ChoiceInv, BestIsBest
<1>3. CASE (Better(b, Weight(b)) \/ Even(b, Weight(b))) /\ best' = b
  BY <1>1, <1>2, <1>3, Numbered DEF Better, Even
<1>4. CASE ~Better(b, Weight(b)) /\ best' = best
  BY <1>1, <1>2, <1>4, Numbered DEF Better
<1> QED BY <1>3, <1>4 DEF Add

(* Every step of the fork choice preserves the invariant.                  *)
LEMMA ChoiceGoesOn == ChoiceInv /\ [ChoiceNext]_fcvars => ChoiceInv'
<1> SUFFICES ASSUME ChoiceInv, [ChoiceNext]_fcvars PROVE ChoiceInv'
  OBVIOUS
<1>1. ASSUME NEW b \in Block, Add(b) PROVE ChoiceInv'
  BY <1>1, AddTypeOK, AddWeighed, AddBestIsBest DEF ChoiceInv
<1>2. CASE UNCHANGED fcvars
  BY <1>2 DEF fcvars, ChoiceInv, ChoiceTypeOK, Weighed, BestIsBest
<1> QED BY <1>1, <1>2 DEF ChoiceNext

(* In every reachable state the head is a known block, weights are those   *)
(* of WriteBlockAndState and the head is one the fork choice prefers.      *)
THEOREM ChoiceInvariant == ChoiceSpec => []ChoiceInv
BY ChoiceStarts, ChoiceGoesOn, PTL DEF ChoiceSpec

(* The head is always a heaviest known block, of the lowest number among   *)
(* those.                                                                  *)
THEOREM AlwaysBest == ChoiceSpec => []BestIsBest
<1>1. ChoiceInv => BestIsBest
  BY DEF ChoiceInv
<1> QED BY <1>1, ChoiceInvariant, PTL

(* The total difficulty of every known block is the sum along its chain.   *)
THEOREM AlwaysWeighed == ChoiceSpec => []Weighed
<1>1. ChoiceInv => Weighed
  BY DEF ChoiceInv
<1> QED BY <1>1, ChoiceInvariant, PTL

(* Blocks are not forgotten, weights not revised, and the head never moves *)
(* to a block the fork choice would not prefer.                            *)
THEOREM HeadNeverWorse == ChoiceSpec => NeverWorse
<1> DEFINE Step ==
      /\ known \subseteq known'
      /\ \A b \in known : weight'[b] = weight[b]
      /\ \/ weight'[best'] > weight[best]
         \/ weight'[best'] = weight[best] /\ number[best'] <= number[best]
<1>1. ASSUME ChoiceInv, NEW b \in Block, Add(b) PROVE Step
  <2>1. /\ known' = known \cup {b} /\ b \notin known
        /\ weight' = [weight EXCEPT ![b] = Weight(b)]
        /\ weight \in [Block -> Nat] /\ known \subseteq Block /\ best \in known
        /\ Weight(b) \in Nat
    BY <1>1, WeightType DEF Add, ChoiceInv, ChoiceTypeOK
  <2>2. CASE (Better(b, Weight(b)) \/ Even(b, Weight(b))) /\ best' = b
    BY <2>1, <2>2, Numbered DEF Better, Even
  <2>3. CASE ~Better(b, Weight(b)) /\ best' = best
    BY <2>1, <2>3, Numbered
  <2> QED BY <1>1, <2>2, <2>3 DEF Add
<1>2. ChoiceInv /\ [ChoiceNext]_fcvars => [Step]_fcvars
  BY <1>1 DEF ChoiceNext
<1> QED BY <1>2, ChoiceInvariant, PTL DEF ChoiceSpec, NeverWorse
=============================================================================
