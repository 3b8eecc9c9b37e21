---------------------------- MODULE ChainIndexer ----------------------------
(* core/chain_indexer.go: an indexer that processes the canonical chain in  *)
(* sections, and a child indexer that follows the sections it completes.    *)
(* eventLoop tells the parent of new heads; the updateLoop of each indexer  *)
(* processes one section at a time, header by header and without its lock.  *)
(*                                                                          *)
(* A block is the path of branch marks that leads to it from genesis, so    *)
(* its number is its length and its parent its front.                       *)
EXTENDS Integers, Sequences, FiniteSets, SequencesExt

CONSTANTS Heads,             \* the heads the canonical chain may have
          Size,              \* sectionSize of each indexer
          Confirms,          \* confirmsReq of each indexer
          MayFail,           \* whether the backend may refuse a section
          MaxEvents, MaxMoves

Indexer == {"parent", "child"}
NoHash == <<"none">>         \* common.Hash{}
Ready == [on |-> FALSE, section |-> 0, old |-> NoHash, number |-> 0, last |-> NoHash,
          failed |-> FALSE]

VARIABLES
  canon,      \* external: the head of the canonical chain
  events,     \* the ChainEvents eventLoop has not seen
  prev,       \* its prevHeader; <<"none">> before Start
  stored, known, cascaded,
  shead,      \* SectionHead in the index database
  update,     \* a token is in the channel update
  later,      \* AfterFunc will put one there
  work,       \* the section updateLoop processes
  moves

indexerVars == <<canon, events, prev, stored, known, cascaded, shead, update, later, work, moves>>

Sections == 0..(Len(CHOOSE h \in Heads : \A g \in Heads : Len(g) <= Len(h)) \div Size["parent"])
Prefix(p, n) == SubSeq(p, 1, n)
GetCanonicalHash(n) == IF n <= Len(canon) THEN Prefix(canon, n) ELSE NoHash
SectionHead(i, s) == IF s \in Sections THEN shead[i][s] ELSE NoHash
FindCommonAncestor(p, q) ==
  CHOOSE n \in 0..Len(p) : /\ n <= Len(q) /\ Prefix(p, n) = Prefix(q, n)
                           /\ \A m \in (n + 1)..Len(p) : m <= Len(q) => Prefix(p, m) # Prefix(q, m)
-----------------------------------------------------------------------------
(* The fields of the two indexers as one record, for calls that cascade.    *)
All == [stored |-> stored, known |-> known, cascaded |-> cascaded, shead |-> shead,
        update |-> update]

Becomes(x) ==
  /\ stored' = x.stored /\ known' = x.known /\ cascaded' = x.cascaded
  /\ shead' = x.shead /\ update' = x.update

SetValidSections(x, i, n) ==
  [x EXCEPT !.stored[i] = n,
            !.shead[i] = [s \in Sections |-> IF s >= n /\ s < x.stored[i] THEN NoHash ELSE @[s]]]

Invalidate(x, i, changed) ==
  LET y == [x EXCEPT !.known[i] = IF changed < @ THEN changed ELSE @]
  IN IF changed < y.stored[i] THEN SetValidSections(y, i, changed) ELSE y

(* newHead with reorg set; the parent's cascades to the child.              *)
Rollback(x, i, head) == Invalidate(x, i, head \div Size[i])
NewReorg(x, head) ==
  LET y == Rollback(x, "parent", head)
      end == (head \div Size["parent"]) * Size["parent"]
  IN IF end < y.cascaded THEN Rollback([y EXCEPT !.cascaded = end], "child", end) ELSE y

(* newHead without a reorg.                                                 *)
NewHead(x, i, head) ==
  LET sections == (head + 1 - Confirms[i]) \div Size[i]
  IN IF head >= Confirms[i] /\ sections > x.known[i]
     THEN [x EXCEPT !.known[i] = sections, !.update[i] = TRUE] ELSE x
-----------------------------------------------------------------------------
(* The chain gets a new head, which is announced after it is in place.  A   *)
(* reorganisation does not fork inside a section that is being processed:   *)
(* that is what confirmsReq is for, and nothing else notices it.            *)
Undisturbed(head) ==
  \A i \in Indexer :
    work[i].on => LET fork == FindCommonAncestor(canon, head) IN
                  fork < work[i].section * Size[i] - 1 \/ fork + 1 >= (work[i].section + 1) * Size[i]

ChainMoves(head) ==
  /\ moves < MaxMoves /\ Len(events) < MaxEvents /\ prev # NoHash
  /\ head # canon /\ Len(head) >= Len(canon) /\ Undisturbed(head)
  /\ canon' = head /\ events' = Append(events, head) /\ moves' = moves + 1
  /\ UNCHANGED <<prev, stored, known, cascaded, shead, update, later, work>>

(* A trusted checkpoint, before the indexer is started.                     *)
AddKnownSectionHead(s) ==
  /\ prev = NoHash /\ s >= stored["parent"] /\ (s + 1) * Size["parent"] <= Len(canon) + 1
  /\ LET y == SetValidSections(All, "parent", s + 1) IN
     Becomes([y EXCEPT !.shead["parent"][s] = GetCanonicalHash((s + 1) * Size["parent"] - 1)])
  /\ UNCHANGED <<canon, events, prev, later, work, moves>>

(* Start, and the head eventLoop begins with.                               *)
Start ==
  /\ prev = NoHash
  /\ prev' = canon /\ Becomes(NewHead(All, "parent", Len(canon)))
  /\ UNCHANGED <<canon, events, later, work, moves>>

EventLoop ==
  LET head == Head(events)
      forked == Front(head) # prev
      x == IF forked THEN NewReorg(All, FindCommonAncestor(prev, head)) ELSE All
  IN /\ events # <<>>
     /\ events' = Tail(events) /\ prev' = head
     /\ Becomes(NewHead(x, "parent", Len(head)))
     /\ UNCHANGED <<canon, later, work, moves>>
-----------------------------------------------------------------------------
(* updateLoop takes a token: a section is begun, if there is one to do.     *)
Update(i) ==
  /\ update[i] /\ ~work[i].on
  /\ update' = [update EXCEPT ![i] = FALSE]
  /\ work' = IF known[i] <= stored[i] THEN work
             ELSE LET old == IF stored[i] > 0 THEN SectionHead(i, stored[i] - 1) ELSE NoHash
                  IN [work EXCEPT ![i] = [on |-> TRUE, section |-> stored[i], old |-> old,
                                          number |-> stored[i] * Size[i], last |-> old, failed |-> FALSE]]
  /\ UNCHANGED <<canon, events, prev, stored, known, cascaded, shead, later, moves>>

Over(i) == work[i].failed \/ work[i].number = (work[i].section + 1) * Size[i]

(* The backend refuses the section, and all sections are given up, without  *)
(* the lock.                                                                *)
ResetFails(i) ==
  /\ MayFail /\ work[i].on /\ work[i].number = work[i].section * Size[i] /\ ~work[i].failed
  /\ Becomes(SetValidSections(All, i, 0))
  /\ work' = [work EXCEPT ![i].failed = TRUE]
  /\ UNCHANGED <<canon, events, prev, later, moves>>

(* processSection reads the next header; genesis has the zero parent hash.  *)
ProcessHeader(i) ==
  LET w == work[i]
      hash == GetCanonicalHash(w.number)
      parent == IF w.number = 0 THEN NoHash ELSE Front(hash)
  IN /\ w.on /\ ~Over(i)
     /\ work' = [work EXCEPT ![i] = IF hash = NoHash \/ parent # w.last THEN [w EXCEPT !.failed = TRUE]
                                    ELSE [w EXCEPT !.number = @ + 1, !.last = hash]]
     /\ UNCHANGED <<canon, events, prev, stored, known, cascaded, shead, update, later, moves>>

(* A section that is done counts if the one before it still stands; for     *)
(* section 0 the index of the one before wraps around and finds nothing.    *)
Stands(i) == work[i].old = SectionHead(i, work[i].section - 1)
Complete(i) ==
  LET s == work[i].section
      y == SetValidSections([All EXCEPT !.shead[i][s] = work[i].last], i, s + 1)
  IN IF i = "child" THEN y
     ELSE NewHead([y EXCEPT !.cascaded = (s + 1) * Size[i] - 1], "child", (s + 1) * Size[i] - 1)

FinishSection(i) ==
  LET good == ~work[i].failed /\ Stands(i) IN
  /\ work[i].on /\ Over(i)
  /\ Becomes(IF good THEN Complete(i) ELSE [All EXCEPT !.known[i] = stored[i]])
  /\ later' = [later EXCEPT ![i] = @ \/ known'[i] > stored'[i]]
  /\ work' = [work EXCEPT ![i] = Ready]
  /\ UNCHANGED <<canon, events, prev, moves>>

AfterFunc(i) ==
  /\ later[i]
  /\ later' = [later EXCEPT ![i] = FALSE] /\ update' = [update EXCEPT ![i] = TRUE]
  /\ UNCHANGED <<canon, events, prev, stored, known, cascaded, shead, work, moves>>
-----------------------------------------------------------------------------
Init ==
  /\ canon \in {h \in Heads : \A g \in Heads : Len(h) <= Len(g)}
  /\ events = <<>> /\ prev = NoHash /\ cascaded = 0 /\ moves = 0
  /\ stored = [i \in Indexer |-> 0] /\ known = [i \in Indexer |-> 0]
  /\ shead = [i \in Indexer |-> [s \in Sections |-> NoHash]]
  /\ update = [i \in Indexer |-> FALSE] /\ later = [i \in Indexer |-> FALSE]
  /\ work = [i \in Indexer |-> Ready]

Next ==
  \/ \E head \in Heads : ChainMoves(head)
  \/ \E s \in Sections : AddKnownSectionHead(s)
  \/ Start \/ EventLoop
  \/ \E i \in Indexer : Update(i) \/ ResetFails(i) \/ ProcessHeader(i) \/ FinishSection(i) \/ AfterFunc(i)

Spec == Init /\ [][Next]_indexerVars
-----------------------------------------------------------------------------
(* Once eventLoop has seen every head, each section the indexer holds as    *)
(* valid ends in a block of the canonical chain, whichever reorganisation   *)
(* came before, during or after its processing.  (A child that completes a  *)
(* section after its parent was rolled back is not told of the next         *)
(* reorganisation, so this is not so for children.)                         *)
SectionsCanonical ==
  events = <<>> => \A s \in 0..(stored["parent"] - 1) :
    shead["parent"][s] # NoHash => shead["parent"][s] = GetCanonicalHash((s + 1) * Size["parent"] - 1)

(* No wakeup is lost: an indexer that knows of more sections than it has    *)
(* stored is at work or will be woken.                                      *)
WillWake ==
  \A i \in Indexer : known[i] > stored[i] => update[i] \/ later[i] \/ work[i].on

=============================================================================
