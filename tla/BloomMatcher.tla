---------------------------- MODULE BloomMatcher ----------------------------
(* Log search: Filter.Logs of xdn/filters/filter.go over the matcher of     *)
(* core/bloombits.  A section number runs through one sub-matcher after the *)
(* other; each asks for the bit vectors of its clauses, which a distributor *)
(* hands to retrievers (Multiplex, serviced by xdn/bloombits.go), and lets  *)
(* the section pass with the blocks that may match.                         *)
(*                                                                          *)
(* A vector is the set of offsets whose bit is set.  Channels have room for *)
(* Buffer items; what a delivering goroutine holds counts as still in the   *)
(* channel it came from.                                                    *)
EXTENDS Integers, Sequences, FiniteSets, SequencesExt, FiniteSetsExt

CONSTANTS Bit, Data,         \* the bits, and the vector of a bit in a section
          Filters,           \* for each filter, its clauses: sets of bits
          SectionSize, FirstBlock, LastBlock,
          Indexed,           \* how many sections are indexed
          Buffer, Retriever, Batch,
          MayFail            \* whether a vector may be unavailable

VARIABLES
  feed, chan,      \* the next section, and what waits before each filter
  mux, proc, col,  \* a section being asked for, asked for, and collected
  in, req, pend, out,  \* per slot: scheduleRequests and scheduleDeliveries
  resp,            \* responses of the schedulers: none, wait or done
  dist, asked, open, allocs, drain, alive,  \* the distributor
  ret,             \* what each retriever does
  quit, kill, err, \* the session
  reader, found, logs

pipe == <<feed, chan, mux, proc, col, in, req, pend, out>>
distributor == <<asked, open, allocs, drain, alive>>
session == <<quit, kill, err>>
user == <<reader, found, logs>>
bloomVars == <<feed, chan, mux, proc, col, in, req, pend, out, resp, dist, asked, open, allocs,
               drain, alive, ret, quit, kill, err, reader, found, logs>>

F == Len(Filters)
EndIndexed == IF Indexed * SectionSize > LastBlock THEN LastBlock ELSE Indexed * SectionSize - 1
Section == (FirstBlock \div SectionSize)..(EndIndexed \div SectionSize)
Slots(k) == SetToSeq(UNION {{<<k, c, b>> : b \in c} : c \in Filters[k]})
Slot == UNION {ToSet(Slots(k)) : k \in 1..F}
Whole == 0..(SectionSize - 1)

(* What a filter lets pass of a section: some clause has all its bits set.  *)
Passes(k, s) == {o \in Whole : \E c \in Filters[k] : \A b \in c : o \in Data[b][s]}
Matches(n) == \A k \in 1..F : (n % SectionSize) \in Passes(k, n \div SectionSize)
Expected == SetToSortSeq({n \in FirstBlock..LastBlock : Matches(n)}, <)
-----------------------------------------------------------------------------
(* run and the first goroutine of subMatch.  The goroutines of the pipeline *)
(* return when the session ends, and nothing they would still do is read.   *)
Feed ==
  /\ ~quit /\ feed \in Section /\ Len(chan[1]) < Buffer
  /\ chan' = [chan EXCEPT ![1] = Append(@, [sec |-> feed, hits |-> Whole])]
  /\ feed' = feed + 1
  /\ UNCHANGED <<mux, proc, col, in, req, pend, out, resp, dist, distributor, ret, session, user>>

TakeSection(k) ==
  /\ ~quit /\ mux[k] = <<>> /\ chan[k] # <<>>
  /\ mux' = [mux EXCEPT ![k] = <<Head(chan[k]), Slots(k)>>]
  /\ chan' = [chan EXCEPT ![k] = Tail(@)]
  /\ UNCHANGED <<feed, proc, col, in, req, pend, out, resp, dist, distributor, ret, session, user>>

Spread(k) ==
  /\ ~quit /\ mux[k] # <<>>
  /\ LET left == mux[k][2] IN
     IF left # <<>>
     THEN /\ Len(in[Head(left)]) < Buffer
          /\ in' = [in EXCEPT ![Head(left)] = Append(@, mux[k][1].sec)]
          /\ mux' = [mux EXCEPT ![k][2] = Tail(@)] /\ UNCHANGED proc
     ELSE /\ Len(proc[k]) < Buffer
          /\ proc' = [proc EXCEPT ![k] = Append(@, mux[k][1])]
          /\ mux' = [mux EXCEPT ![k] = <<>>] /\ UNCHANGED in
  /\ UNCHANGED <<feed, chan, col, req, pend, out, resp, dist, distributor, ret, session, user>>

(* scheduleRequests: a section that was asked for is not asked for again.   *)
ScheduleRequest(q) ==
  /\ ~quit /\ req[q] = <<>> /\ in[q] # <<>>
  /\ LET s == Head(in[q])
         unique == resp[q[3]][s] = "none"
     IN /\ req' = [req EXCEPT ![q] = <<s, IF unique THEN "dist" ELSE "pend">>]
        /\ resp' = IF unique THEN [resp EXCEPT ![q[3]][s] = "wait"] ELSE resp
  /\ in' = [in EXCEPT ![q] = Tail(@)]
  /\ UNCHANGED <<feed, chan, mux, proc, col, pend, out, dist, distributor, ret, session, user>>

Forward(q) ==
  /\ req[q] # <<>>
  /\ IF req[q][2] = "dist"
     THEN /\ Len(dist) < Buffer /\ dist' = Append(dist, <<q[3], req[q][1]>>)
          /\ req' = [req EXCEPT ![q][2] = "pend"] /\ UNCHANGED pend
     ELSE /\ Len(pend[q]) <= Buffer /\ pend' = [pend EXCEPT ![q] = Append(@, req[q][1])]
          /\ req' = [req EXCEPT ![q] = <<>>] /\ UNCHANGED dist
  /\ UNCHANGED <<feed, chan, mux, proc, col, in, out, resp, distributor, ret, session, user>>

(* scheduleDeliveries waits for the vector and passes it on.                *)
ScheduleDelivery(q) ==
  /\ ~quit /\ pend[q] # <<>> /\ resp[q[3]][Head(pend[q])] = "done" /\ Len(out[q]) < Buffer
  /\ out' = [out EXCEPT ![q] = Append(@, Data[q[3]][Head(pend[q])])]
  /\ pend' = [pend EXCEPT ![q] = Tail(@)]
  /\ UNCHANGED <<feed, chan, mux, proc, col, in, req, resp, dist, distributor, ret, session, user>>

(* The second goroutine of subMatch: it reads the sinks in slot order, and  *)
(* forgets a section without a match.                                       *)
Collect(k) ==
  /\ ~quit
  /\ IF col[k] = <<>>
     THEN /\ proc[k] # <<>>
          /\ col' = [col EXCEPT ![k] = <<Head(proc[k]), <<>>>>]
          /\ proc' = [proc EXCEPT ![k] = Tail(@)] /\ UNCHANGED <<out, chan>>
     ELSE LET got == col[k][2] IN
          IF Len(got) < Len(Slots(k))
          THEN LET q == Slots(k)[Len(got) + 1] IN
               /\ out[q] # <<>>
               /\ col' = [col EXCEPT ![k][2] = Append(@, Head(out[q]))]
               /\ out' = [out EXCEPT ![q] = Tail(@)] /\ UNCHANGED <<proc, chan>>
          ELSE LET vector(q) == got[CHOOSE i \in DOMAIN got : Slots(k)[i] = q]
                   hits == {o \in col[k][1].hits : \E c \in Filters[k] : \A b \in c : o \in vector(<<k, c, b>>)}
               IN /\ col' = [col EXCEPT ![k] = <<>>] /\ UNCHANGED <<out, proc>>
                  /\ IF hits = {} THEN UNCHANGED chan
                     ELSE /\ Len(chan[k + 1]) < Buffer
                          /\ chan' = [chan EXCEPT ![k + 1] = Append(@, [sec |-> col[k][1].sec, hits |-> hits])]
  /\ UNCHANGED <<feed, mux, in, req, pend, resp, dist, distributor, ret, session, user>>
-----------------------------------------------------------------------------
(* The distributor.  assign gives the bit to a retriever that is waiting,   *)
(* and notes it otherwise.  (Once killed it is about to return, and what it *)
(* would still hand out matters to nobody.)                                 *)
Assign(bit, waiting, free, count) ==
  \/ \E r \in Retriever : /\ waiting[r].at = "want" /\ ~kill
                          /\ ret' = [waiting EXCEPT ![r] = [at |-> "alloc", bit |-> bit, secs |-> {}, good |-> {}]]
                          /\ allocs' = count + 1 /\ open' = free
  \/ ret' = waiting /\ allocs' = count /\ open' = free \cup {bit}
Keep(waiting, free, count) == ret' = waiting /\ allocs' = count /\ open' = free

Distribute ==
  /\ alive /\ dist # <<>>
  /\ LET bit == Head(dist)[1] IN
     /\ asked' = [asked EXCEPT ![bit] = @ \cup {Head(dist)[2]}]
     /\ IF asked[bit] = {} THEN Assign(bit, ret, open, allocs) ELSE Keep(ret, open, allocs)
  /\ dist' = Tail(dist)
  /\ UNCHANGED <<pipe, resp, drain, alive, session, user>>

(* A retriever arrives while bits wait: it gets the lowest section.         *)
Grant(r) ==
  /\ alive /\ ~kill /\ open # {} /\ ret[r].at = "want"
  /\ \E bit \in open :
       /\ \A b \in open : Min(asked[bit]) <= Min(asked[b])
       /\ ret' = [ret EXCEPT ![r] = [at |-> "alloc", bit |-> bit, secs |-> {}, good |-> {}]]
       /\ open' = open \ {bit} /\ allocs' = allocs + 1
  /\ UNCHANGED <<pipe, resp, dist, asked, drain, alive, session, user>>

(* AllocateSections with room for count.                                    *)
Lowest(S, count) == {s \in S : Cardinality({u \in S : u <= s}) <= count}
AllocateSections(r, count, next) ==
  LET bit == ret[r].bit
      taken == Lowest(asked[bit], count)
      mine == [ret EXCEPT ![r].at = next, ![r].secs = taken]
  IN /\ alive
     /\ asked' = [asked EXCEPT ![bit] = @ \ taken]
     /\ IF asked[bit] \ taken # {} THEN Assign(bit, mine, open, allocs) ELSE Keep(mine, open, allocs)
     /\ UNCHANGED <<pipe, resp, dist, drain, alive, session, user>>
(* Once the session ends, calls may return without having reached it.       *)
Refused(r, next) ==
  /\ quit /\ ret' = [ret EXCEPT ![r].at = next]
  /\ UNCHANGED <<pipe, resp, dist, distributor, session, user>>

Allocate(r) ==
  /\ ret[r].at = "alloc"
  /\ \/ AllocateSections(r, Batch, "serve")
     \/ Refused(r, "serve")
     \/ quit /\ (AllocateSections(r, 0, "last") \/ Refused(r, "last"))

(* The service answers, and what it cannot read is an error; or the session *)
(* ends first, and nothing is delivered.                                    *)
Serve(r) ==
  /\ ret[r].at = "serve"
  /\ \/ \E good \in SUBSET ret[r].secs :
          /\ good = ret[r].secs \/ MayFail
          /\ ret' = [ret EXCEPT ![r].good = good, ![r].at = IF good = ret[r].secs THEN "deliver" ELSE "error"]
     \/ quit /\ ret' = [ret EXCEPT ![r].at = "last"]
  /\ UNCHANGED <<pipe, resp, dist, distributor, session, user>>

(* A faulty report: the session is closed before its error is stored.       *)
ReportErrorLate(r) ==
  \/ /\ ret[r].at = "error" /\ quit' = TRUE /\ ret' = [ret EXCEPT ![r].at = "close"]
     /\ UNCHANGED <<pipe, resp, dist, distributor, kill, err, user>>
  \/ /\ ret[r].at = "close" /\ err' = TRUE /\ ret' = [ret EXCEPT ![r].at = "closing"]
     /\ UNCHANGED <<pipe, resp, dist, distributor, quit, kill, user>>
ReportError(r) ==
  \/ /\ ret[r].at = "error" /\ err' = TRUE /\ ret' = [ret EXCEPT ![r].at = "close"]
     /\ UNCHANGED <<pipe, resp, dist, distributor, quit, kill, user>>
  \/ /\ ret[r].at = "close" /\ quit' = TRUE /\ ret' = [ret EXCEPT ![r].at = "closing"]
     /\ UNCHANGED <<pipe, resp, dist, distributor, kill, err, user>>
(* Close waits for every goroutine of the session.                          *)
Closed(r) ==
  /\ ret[r].at = "closing" /\ ~alive
  /\ ret' = [ret EXCEPT ![r].at = "deliver"]
  /\ UNCHANGED <<pipe, resp, dist, distributor, session, user>>

DeliverSections(r) ==
  LET bit == ret[r].bit
      missing == ret[r].secs \ ret[r].good
      then == IF ret[r].at = "last" THEN "gone" ELSE "want"
      mine == [ret EXCEPT ![r] = [at |-> then, bit |-> bit, secs |-> {}, good |-> {}]]
      queue == asked[bit] \cup missing
      over == allocs' = 0 /\ drain
  IN /\ ret[r].at \in {"deliver", "last"}
     /\ \/ /\ alive
           /\ resp' = [resp EXCEPT ![bit] = [s \in DOMAIN @ |-> IF s \in ret[r].good /\ @[s] = "wait" THEN "done" ELSE @[s]]]
           /\ asked' = [asked EXCEPT ![bit] = queue]
           /\ IF missing # {} /\ asked[bit] = {} THEN Assign(bit, mine, open, allocs - 1)
              ELSE Keep(mine, open, allocs - 1)
           /\ alive' = ~over /\ UNCHANGED <<drain>>
        \/ /\ kill /\ ret' = mine /\ UNCHANGED <<resp, distributor>>
     /\ UNCHANGED <<pipe, dist, session, user>>

Leave(r) ==
  /\ ret[r].at = "want" /\ quit
  /\ ret' = [ret EXCEPT ![r].at = "gone"]
  /\ UNCHANGED <<pipe, resp, dist, distributor, session, user>>

Shutdown ==
  /\ alive
  /\ \/ quit /\ ~drain /\ (IF allocs = 0 THEN alive' = FALSE /\ UNCHANGED drain ELSE drain' = TRUE /\ UNCHANGED alive)
     \/ kill /\ alive' = FALSE /\ UNCHANGED drain
  /\ UNCHANGED <<pipe, resp, dist, asked, open, allocs, ret, session, user>>

KillTimer ==
  /\ quit /\ ~kill /\ kill' = TRUE
  /\ UNCHANGED <<pipe, resp, dist, distributor, ret, quit, err, user>>
-----------------------------------------------------------------------------
(* Start's goroutine and indexedLogs.                                       *)
Over ==
  /\ feed \notin Section /\ \A k \in 1..F : chan[k] = <<>> /\ mux[k] = <<>> /\ proc[k] = <<>> /\ col[k] = <<>>

ReadMatch ==
  /\ logs = "indexed"
  /\ \/ /\ reader = <<>> /\ chan[F + 1] # <<>>
        /\ LET m == Head(chan[F + 1])
               numbers == {m.sec * SectionSize + o : o \in m.hits}
           IN reader' = SetToSortSeq({n \in numbers : FirstBlock <= n /\ n <= EndIndexed}, <)
        /\ chan' = [chan EXCEPT ![F + 1] = Tail(@)] /\ UNCHANGED found
     \/ /\ reader # <<>>
        /\ found' = Append(found, Head(reader)) /\ reader' = Tail(reader) /\ UNCHANGED chan
  /\ UNCHANGED <<feed, mux, proc, col, in, req, pend, out, resp, dist, distributor, ret, session, logs>>

(* The results end, with the last section or with the session.              *)
IndexedEnd ==
  /\ logs = "indexed" /\ (quit \/ (Over /\ chan[F + 1] = <<>> /\ reader = <<>>))
  /\ logs' = (IF err THEN "failed" ELSE "rest") /\ quit' = TRUE
  /\ UNCHANGED <<pipe, resp, dist, distributor, ret, kill, err, reader, found>>

(* The context is cancelled.                                                *)
Cancel ==
  /\ logs = "indexed"
  /\ logs' = "failed" /\ quit' = TRUE
  /\ UNCHANGED <<pipe, resp, dist, distributor, ret, kill, err, reader, found>>

UnindexedLogs ==
  /\ logs = "rest" /\ ~alive
  /\ found' = found \o SetToSortSeq({n \in (EndIndexed + 1)..LastBlock : Matches(n)}, <)
  /\ logs' = "done"
  /\ UNCHANGED <<pipe, resp, dist, distributor, ret, session, reader>>

Init ==
  /\ feed = FirstBlock \div SectionSize /\ chan = [k \in 1..(F + 1) |-> <<>>]
  /\ mux = [k \in 1..F |-> <<>>] /\ proc = [k \in 1..F |-> <<>>] /\ col = [k \in 1..F |-> <<>>]
  /\ in = [q \in Slot |-> <<>>] /\ req = [q \in Slot |-> <<>>]
  /\ pend = [q \in Slot |-> <<>>] /\ out = [q \in Slot |-> <<>>]
  /\ resp = [b \in Bit |-> [s \in Section |-> "none"]]
  /\ dist = <<>> /\ asked = [b \in Bit |-> {}] /\ open = {} /\ allocs = 0
  /\ drain = FALSE /\ alive = TRUE
  /\ ret = [r \in Retriever |-> [at |-> "want", bit |-> CHOOSE b \in Bit : TRUE, secs |-> {}, good |-> {}]]
  /\ quit = FALSE /\ kill = FALSE /\ err = FALSE
  /\ reader = <<>> /\ found = <<>> /\ logs = "indexed"

Work ==
  \/ Feed \/ Distribute \/ Shutdown \/ KillTimer \/ ReadMatch \/ IndexedEnd \/ UnindexedLogs
  \/ \E k \in 1..F : TakeSection(k) \/ Spread(k) \/ Collect(k)
  \/ \E q \in Slot : ScheduleRequest(q) \/ Forward(q) \/ ScheduleDelivery(q)
  \/ \E r \in Retriever : Grant(r) \/ Allocate(r) \/ Serve(r) \/ ReportError(r) \/ Closed(r) \/ DeliverSections(r) \/ Leave(r)
Next == Work \/ Cancel

Spec == Init /\ [][Next]_bloomVars
-----------------------------------------------------------------------------
(* Matches come once and in order, and a search that ends without an error  *)
(* has found every block in its range, indexed or not.                      *)
LogsComplete ==
  /\ IsPrefix(found, Expected)
  /\ logs = "done" => found = Expected

(* While the session runs no section is lost: one that was asked for is on  *)
(* its way to the distributor, waits there or is with one retriever.        *)
EachSectionPlaced ==
  ~quit => \A b \in Bit : \A s \in Section : resp[b][s] = "wait" =>
    Cardinality({q \in Slot : q[3] = b /\ req[q] = <<s, "dist">>})
    + Cardinality({i \in DOMAIN dist : dist[i] = <<b, s>>})
    + (IF s \in asked[b] THEN 1 ELSE 0)
    + Cardinality({r \in Retriever : ret[r].bit = b /\ s \in ret[r].secs}) = 1

(* Every bit with sections waiting is noted or promised to a retriever, a   *)
(* noted bit has a section (its first is read unchecked), and allocs counts *)
(* the promises, so that a graceful end waits for exactly these.            *)
BitsWatched ==
  /\ \A b \in open : asked[b] # {}
  /\ ~quit => \A b \in Bit : asked[b] # {} => b \in open \/ \E r \in Retriever : ret[r].at = "alloc" /\ ret[r].bit = b
  /\ alive /\ ~kill => allocs = Cardinality({r \in Retriever : ret[r].at \notin {"want", "gone"}})

(* The goroutines never wait for each other in a circle.                    *)
NeverStuck == logs \in {"done", "failed"} \/ ENABLED Work

BloomSound == LogsComplete /\ EachSectionPlaced /\ BitsWatched /\ NeverStuck
=============================================================================
