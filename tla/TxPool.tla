------------------------------- MODULE TxPool -------------------------------
(* The transaction pool: core/tx_pool.go with the lists of core/tx_list.go, *)
(* the virtual nonces of core/state/managed_state.go and the journal of     *)
(* core/tx_journal.go.  Every method that takes the pool's lock is one      *)
(* action; inside, the pool is a record that the operators transform in the *)
(* order of the code.                                                       *)
(*                                                                          *)
(* A transaction is its sender, nonce and gas price; its cost is its price. *)
(* Loops over Go maps take the accounts in an order the action chooses; of  *)
(* equal prices the heap yields the lower account and nonce first.  The     *)
(* checks of validateTx that do not depend on the pool (size, value, gas,   *)
(* signature) reject without a change and are left out.                     *)
EXTENDS Integers, Sequences, FiniteSets, SequencesExt, FiniteSetsExt

CONSTANTS Acct, Rank,        \* the accounts, and a number for each
          Tx,                \* the transactions that may be sent
          Heads, Genesis,    \* the heads the chain may have: the transactions on
                             \* the chain and the balances there
          GlobalSlots, GlobalQueue, AccountSlots, AccountQueue, PriceBump,
          Prices,            \* the values SetGasPrice is called with
          MaxCalls           \* bound on the calls explored

VARIABLES pool,              \* the fields of TxPool
          chain,             \* the head of the canonical chain
          disk, writer,      \* the journal file, and whether it is open
          calls              \* how many calls were made

poolVars == <<pool, chain, disk, writer, calls>>

Orders == {o \in [1..Cardinality(Acct) -> Acct] : \A a \in Acct : \E i \in DOMAIN o : o[i] = a}
Highest(list) == CHOOSE t \in list : \A u \in list : u.nonce <= t.nonce
Sorted(list) == SetToSortSeq(list, LAMBDA t, u : t.nonce < u.nonce)
Cheaper(t, u) == \/ t.price < u.price
                 \/ t.price = u.price /\ Rank[t.from] < Rank[u.from]
                 \/ t.price = u.price /\ t.from = u.from /\ t.nonce < u.nonce
Total(lists) == FoldSet(LAMBDA a, n : n + Cardinality(lists[a]), 0, Acct)
Payable(s, t) == t.price <= s.balance[t.from]
-----------------------------------------------------------------------------
(* txPricedList: the heap as a sequence by price, with entries that are no  *)
(* longer in the pool counted by stales.                                    *)

Put(s, t) ==
  LET k == Cardinality({i \in DOMAIN s.items : ~Cheaper(t, s.items[i])})
  IN [s EXCEPT !.items = SubSeq(@, 1, k) \o <<t>> \o SubSeq(@, k + 1, Len(@))]

Removed(s) ==
  IF s.stales + 1 <= Len(s.items) \div 4 THEN [s EXCEPT !.stales = @ + 1]
  ELSE [s EXCEPT !.stales = 0, !.items = SetToSortSeq(s.all, Cheaper)]

Forget(s, t) == Removed([s EXCEPT !.all = @ \ {t}])

(* The entries popped while looking for something to keep or drop: of those *)
(* in front of the first that Stop holds for, the stale are thrown away.    *)
Sweep(s, Stop(_, _)) ==
  LET step(r, t) ==
        IF r.done \/ Stop(r, t) THEN [r EXCEPT !.keep = Append(@, t), !.done = TRUE]
        ELSE IF t \notin s.all THEN [r EXCEPT !.stales = @ - 1]
        ELSE IF t.from \in s.locals THEN [r EXCEPT !.keep = Append(@, t)]
        ELSE [r EXCEPT !.drop = Append(@, t)]
  IN FoldLeft(step, [keep |-> <<>>, drop |-> <<>>, stales |-> s.stales, done |-> FALSE], s.items)
Swept(s, r) == [s EXCEPT !.items = r.keep, !.stales = r.stales]

Cap(s, price) == Sweep(s, LAMBDA r, t : t.price >= price /\ t \in s.all)
Discard(s, count) == Sweep(s, LAMBDA r, t : Len(r.drop) >= count)
Fresh(s) == Swept(s, Sweep(s, LAMBDA r, t : t \in s.all))
Underpriced(s, t) == t.from \notin s.locals /\ Fresh(s).items # <<>> /\ Head(Fresh(s).items).price >= t.price
-----------------------------------------------------------------------------
(* txList.  *)

Same(list, t) == {u \in list : u.nonce = t.nonce}
Better(old, t) == t.price > old.price /\ t.price >= (old.price * (100 + PriceBump)) \div 100
Accepts(list, t) == \A old \in Same(list, t) : Better(old, t)
Added(list, t) == (list \ Same(list, t)) \cup {t}
Above(list, n) == {u \in list : u.nonce > n}

(* Ready: the run of consecutive nonces at the front, if it starts in time. *)
Ready(list, start) ==
  LET first == Min({t.nonce : t \in list}) IN
  IF list = {} \/ first > start THEN {}
  ELSE {t \in list : \A n \in first..t.nonce : \E u \in list : u.nonce = n}
-----------------------------------------------------------------------------
(* TxPool, with the lock held.                                              *)

Replaced(s, old) == FoldSet(LAMBDA t, r : Forget(r, t), s, old)
Known(s, t) == Put([s EXCEPT !.all = @ \cup {t}], t)

EnqueueTx(s, t) ==
  LET list == s.queue[t.from]
  IN IF ~Accepts(list, t) THEN s
     ELSE Known(Replaced([s EXCEPT !.queue[t.from] = Added(list, t)], Same(list, t)), t)

Beat(s, a) == [s EXCEPT !.beats = Append(SelectSeq(@, LAMBDA b : b # a), a)]
Unbeat(s, a) == [s EXCEPT !.beats = SelectSeq(@, LAMBDA b : b # a)]

PromoteTx(s, t) ==
  LET list == s.pending[t.from]
      known(r) == IF t \in r.all THEN r ELSE Known(r, t)
      q == known(Replaced([s EXCEPT !.pending[t.from] = Added(list, t)], Same(list, t)))
  IN IF ~Accepts(list, t) THEN Forget(s, t)
     ELSE [Beat(q, t.from) EXCEPT !.nonce[t.from] = t.nonce + 1]

LowerNonce(s, t) == [s EXCEPT !.nonce[t.from] = IF @ > t.nonce THEN t.nonce ELSE @]


(* removeTx: of the pending list everything above goes too, back into the   *)
(* queue unless the list is empty then.                                     *)
RemoveTx(s, t) ==
  LET a == t.from
      r == [Forget(s, t) EXCEPT !.pending[a] = @ \ (Same(@, t) \cup Above(@, t.nonce))]
      inv == Sorted(Above(s.pending[a], t.nonce))
  IN IF t \notin s.all THEN s
     ELSE IF Same(s.pending[a], t) # {}
     THEN LowerNonce(IF r.pending[a] = {} THEN Unbeat(r, a) ELSE FoldLeft(EnqueueTx, r, inv), t)
     ELSE [Forget(s, t) EXCEPT !.queue[a] = @ \ Same(@, t)]
RemoveAll(s, txs) == FoldLeft(RemoveTx, s, txs)

(* One account of promoteExecutables.                                       *)
ForgetAll(s, txs) == FoldLeft(Forget, s, txs)
Stale(s, list, a) == {t \in list : t.nonce < s.state[a]}
Poor(s, list, a) == {t \in list : t.nonce >= s.state[a] /\ ~Payable(s, t)}
Beyond(list) == {t \in list : Cardinality({u \in list : u.nonce < t.nonce}) >= AccountQueue}
Promote(s, a, ready) == FoldLeft(PromoteTx, [s EXCEPT !.queue[a] = @ \ ready], Sorted(ready))
CapQueue(s, a, over) == ForgetAll([s EXCEPT !.queue[a] = @ \ over], Reverse(Sorted(over)))
Clean(s, a, old, poor) == ForgetAll([s EXCEPT !.queue[a] = @ \ (old \cup poor)], Sorted(old) \o Sorted(poor))
PromoteReady(s, a) == Promote(s, a, Ready(s.queue[a], s.nonce[a]))
CapOver(s, a) == IF a \in s.locals THEN s ELSE CapQueue(s, a, Beyond(s.queue[a]))
PromoteAccount(s, a) ==
  CapOver(PromoteReady(Clean(s, a, Stale(s, s.queue[a], a), Poor(s, s.queue[a], a)), a), a)

(* One transaction off the end of an account's pending list.                *)
Cut(s, a) ==
  LET t == Highest(s.pending[a])
  IN IF s.pending[a] = {} THEN s
     ELSE LowerNonce(Forget([s EXCEPT !.pending[a] = @ \ {t}], t), t)

(* All of some accounts are cut by one while there are too many pending and *)
(* the last of them is longer than the limit.                               *)
RECURSIVE CutDown(_, _, _, _)
CutDown(r, who, last, limit) ==
  IF r.count > GlobalSlots /\ Cardinality(r.s.pending[last]) > limit
  THEN CutDown([r EXCEPT !.s = FoldLeft(Cut, @, who), !.count = @ - Len(who)], who, last, limit)
  ELSE r
CutAll(r) ==
  IF r.count > GlobalSlots /\ r.off # <<>> THEN CutDown(r, r.off, Last(r.off), AccountSlots).s ELSE r.s

(* The longest lists are cut to the length of the next, then all of them to *)
(* the guaranteed length, until few enough are pending.                     *)
Equalise(s, order) ==
  LET spam == SelectSeq(order, LAMBDA a : a \notin s.locals /\ Cardinality(s.pending[a]) > AccountSlots)
      by == SortSeq(spam, LAMBDA a, b : Cardinality(s.pending[a]) > Cardinality(s.pending[b]))
      step(r, a) ==
        IF r.count <= GlobalSlots THEN r
        ELSE IF r.off = <<>> THEN [r EXCEPT !.off = <<a>>]
        ELSE [CutDown(r, r.off, Last(r.off), Cardinality(r.s.pending[a])) EXCEPT !.off = Append(@, a)]
  IN CutAll(FoldLeft(step, [s |-> s, count |-> Total(s.pending), off |-> <<>>], by))

(* Queued transactions over the global limit go, of the accounts active     *)
(* last first.                                                              *)
Heart(s, a) == IF a \in ToSet(s.beats) THEN SelectInSeq(s.beats, LAMBDA b : b = a) ELSE 0
TrimQueue(s, order) ==
  LET who == SelectSeq(order, LAMBDA a : a \notin s.locals /\ s.queue[a] # {})
      by == SortSeq(who, LAMBDA a, b : Heart(s, a) > Heart(s, b))
      step(r, a) ==
        LET txs == Sorted(r.s.queue[a])
            k == Min({r.drop, Len(txs)})
        IN [s |-> RemoveAll(r.s, Reverse(SubSeq(txs, Len(txs) - k + 1, Len(txs)))), drop |-> r.drop - k]
      over == Total(s.queue) - GlobalQueue
  IN IF over <= 0 THEN s ELSE FoldLeft(step, [s |-> s, drop |-> over], by).s

PromoteExecutables(s, accounts, order) ==
  TrimQueue(Equalise(FoldLeft(PromoteAccount, s, accounts), order), order)

(* demoteUnexecutables for one account.                                     *)
Demote(s, a) ==
  LET old == {t \in s.pending[a] : t.nonce < s.state[a]}
      drops == {t \in s.pending[a] \ old : ~Payable(s, t)}
      inv == IF drops = {} THEN {} ELSE Above(s.pending[a] \ (old \cup drops), Min({t.nonce : t \in drops}))
      left == s.pending[a] \ (old \cup drops \cup inv)
      gap == left # {} /\ \A t \in left : t.nonce # s.state[a]
      r == ForgetAll([s EXCEPT !.pending[a] = IF gap THEN {} ELSE left], Sorted(old) \o Sorted(drops))
      q == FoldLeft(EnqueueTx, r, Sorted(inv) \o (IF gap THEN Reverse(Sorted(left)) ELSE <<>>))
  IN IF s.pending[a] # {} /\ (left = {} \/ gap) THEN Unbeat(q, a) ELSE q

(* add: the record, whether a promotion is due, and what is journalled.     *)
Refused(s) == [s |-> s, promote |-> FALSE, journal |-> {}]
Valid(s, t, local) ==
  /\ t \notin s.all
  /\ local \/ t.from \in s.locals \/ t.price >= s.gasPrice
  /\ t.nonce >= s.state[t.from] /\ Payable(s, t)
(* Into the pending list in the place of another, or into the queue.        *)
Insert(s, t, local) ==
  LET a == t.from
      locals == IF local THEN s.locals \cup {a} ELSE s.locals
      old == Same(s.pending[a], t)
  IN IF old # {}
     THEN IF ~Accepts(s.pending[a], t) THEN Refused(s)
          ELSE [s |-> Known(Replaced([s EXCEPT !.pending[a] = Added(@, t)], old), t),
                promote |-> FALSE, journal |-> IF a \in s.locals THEN {t} ELSE {}]
     ELSE IF ~Accepts(s.queue[a], t) THEN Refused(s)
     ELSE [s |-> [EnqueueTx(s, t) EXCEPT !.locals = locals],
           promote |-> Same(s.queue[a], t) = {}, journal |-> IF a \in locals THEN {t} ELSE {}]

(* A full pool makes room by dropping the cheapest.                         *)
Drop(s, r) == RemoveAll(Swept(s, r), r.drop)
Excess(s) == Cardinality(s.all) - (GlobalSlots + GlobalQueue - 1)
Add(s, t, local) ==
  IF ~Valid(s, t, local) THEN Refused(s)
  ELSE IF Excess(s) <= 0 THEN Insert(s, t, local)
  ELSE IF Underpriced(s, t) THEN Refused(Fresh(s))
  ELSE Insert(Drop(Fresh(s), Discard(Fresh(s), Excess(s))), t, local)

Journal(txs) == disk' = (IF writer THEN disk \cup txs ELSE disk) /\ UNCHANGED writer
-----------------------------------------------------------------------------
(* addTx, by AddLocal and AddRemote.                                        *)
AfterAdd(r, a, order) == IF r.promote THEN PromoteExecutables(r.s, <<a>>, order) ELSE r.s
AddTx(t, local, order) ==
  \E r \in {Add(pool, t, local)} :
    pool' = AfterAdd(r, t.from, order) /\ Journal(r.journal) /\ UNCHANGED chain

SetGasPrice(price) ==
  /\ pool' = Drop([pool EXCEPT !.gasPrice = price], Cap(pool, price))
  /\ UNCHANGED <<chain, disk, writer>>

(* The eviction tick, for an account idle longer than Lifetime.             *)
Evict(a) ==
  /\ pool.queue[a] # {} /\ a \notin pool.locals
  /\ pool' = RemoveAll(pool, Sorted(pool.queue[a]))
  /\ UNCHANGED <<chain, disk, writer>>

(* reset on a new head: the chain's account nonces and balances are read,   *)
(* the transactions that left the chain are sent again, the pending lists   *)
(* are cleaned, virtual nonces set behind them, and the queue is promoted.  *)
NonceOf(head, a) == Cardinality({t \in head.txs : t.from = a})
Nonces(head) == [a \in Acct |-> NonceOf(head, a)]
Settled(s) ==
  [s EXCEPT !.nonce = [a \in Acct |-> IF s.pending[a] = {} THEN @[a] ELSE Highest(s.pending[a]).nonce + 1]]
Reread(s, head) == [s EXCEPT !.state = Nonces(head), !.nonce = Nonces(head), !.balance = head.funds]
AddDirty(r, x, a) == [s |-> x.s, dirty |-> IF x.promote THEN r.dirty \cup {a} ELSE r.dirty]
Reinjected(s, txs) ==
  FoldLeft(LAMBDA r, t : AddDirty(r, Add(r.s, t, FALSE), t.from), [s |-> s, dirty |-> {}], txs)
Promoted(r, order) ==
  IF r.dirty = {} THEN r.s ELSE PromoteExecutables(r.s, SelectSeq(order, LAMBDA a : a \in r.dirty), order)
Cleaned(s, order) == Settled(FoldLeft(Demote, s, order))
PromoteAll(s, order) == PromoteExecutables(s, SelectSeq(order, LAMBDA a : s.queue[a] # {}), order)
Reset(s, head, reinject, order) ==
  PromoteAll(Cleaned(Promoted(Reinjected(Reread(s, head), reinject), order), order), order)

(* The chain's head moves: transactions enter, or leave with a              *)
(* reorganisation.  An old branch that cannot be walked any more changes    *)
(* nothing, a deep reorganisation sends nothing again.                      *)
ChainHead(head, order) ==
  LET gone == SetToSortSeq(chain.txs \ head.txs, Cheaper) IN
  /\ head # chain /\ chain' = head
  /\ \/ \E again \in {gone, <<>>} : pool' = Reset(pool, head, again, order)
     \/ gone # <<>> /\ UNCHANGED pool
  /\ UNCHANGED <<disk, writer>>

(* rotate: the file is replaced by the local transactions of the pool; it   *)
(* can fail before the replacement, or before the new file is open.         *)
Local(s) == UNION {s.pending[a] \cup s.queue[a] : a \in s.locals}
(* A faulty rotation: the journal itself is truncated and written again.    *)
RotateInPlace ==
  /\ \/ disk' = Local(pool) /\ writer' = TRUE
     \/ disk' = {} /\ writer' = FALSE
  /\ UNCHANGED <<pool, chain>>
Rotate ==
  /\ \/ disk' = Local(pool) /\ writer' \in BOOLEAN
     \/ disk' = disk /\ writer' = FALSE
  /\ UNCHANGED <<pool, chain>>

(* The node restarts: NewTxPool starts empty on the chain's state and loads *)
(* the journal, then rotates it.                                            *)
Empty(head) ==
  [pending |-> [a \in Acct |-> {}], queue |-> [a \in Acct |-> {}], all |-> {}, items |-> <<>>,
   stales |-> 0, beats |-> <<>>, locals |-> {}, gasPrice |-> 1, balance |-> head.funds,
   state |-> Nonces(head), nonce |-> Nonces(head)]
Loaded(s, txs, order) ==
  FoldLeft(LAMBDA r, t : AfterAdd(Add(r, t, TRUE), t.from, order), s, txs)
Restart(order) ==
  /\ pool' = Loaded(Empty(chain), SetToSortSeq(disk, Cheaper), order)
  /\ disk' = Local(pool') /\ writer' = TRUE
  /\ UNCHANGED chain

Init ==
  /\ chain = Genesis /\ disk = {} /\ writer = TRUE /\ calls = 0
  /\ pool = Empty(Genesis)

Step ==
  \/ \E t \in Tx, local \in BOOLEAN, order \in Orders : AddTx(t, local, order)
  \/ \E p \in Prices : SetGasPrice(p)
  \/ \E a \in Acct : Evict(a)
  \/ \E head \in Heads, order \in Orders : ChainHead(head, order)
  \/ Rotate
  \/ \E order \in Orders : Restart(order)

Next == calls < MaxCalls /\ calls' = calls + 1 /\ Step

Spec == Init /\ [][Next]_poolVars
-----------------------------------------------------------------------------
(* What the miner is offered starts where the chain's state is: each        *)
(* account's pending transactions are known and payable, and the first has  *)
(* the state's nonce.                                                       *)
PendingExecutable ==
  \A a \in Acct :
    LET nonces == {t.nonce : t \in pool.pending[a]} IN
    /\ nonces # {} => Min(nonces) = pool.state[a]
    /\ \A t \in pool.pending[a] : t \in pool.all /\ Payable(pool, t)

(* A nonce of an account is pending or queued, not both, once.              *)
NoncesOnce ==
  \A a \in Acct : \A t, u \in pool.pending[a] \cup pool.queue[a] : t.nonce = u.nonce => t = u

(* The limits hold whenever the lock is free: beyond the global limits only *)
(* guaranteed slots and local accounts.                                     *)
WithinLimits ==
  /\ Total(pool.pending) > GlobalSlots =>
       \A a \in Acct \ pool.locals : Cardinality(pool.pending[a]) <= AccountSlots
  /\ \A a \in Acct \ pool.locals : Cardinality(pool.queue[a]) <= AccountQueue
  /\ Total(pool.queue) > GlobalQueue => \A a \in Acct \ pool.locals : pool.queue[a] = {}

(* A local transaction that is journalled stays so while it is pooled,      *)
(* however a rotation fails.                                                *)
JournalKept == \A t \in disk : t \in Local(pool') => t \in disk'

=============================================================================
