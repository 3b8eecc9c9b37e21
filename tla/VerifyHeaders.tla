---------------------------- MODULE VerifyHeaders ---------------------------
(* consensus/xdnoc/dnpoc.go: VerifyHeaders checks a batch of headers with   *)
(* several workers and delivers the verdicts in order, and the importer     *)
(* that reads them and aborts at the first bad one (insertChain).           *)
EXTENDS Integers, Sequences, FiniteSets

CONSTANTS Header,            \* the batch: what verifyHeaderWorker tells of each header
          Worker

N == Len(Header)
Unchecked == "unchecked"

VARIABLES
  next, out, checked,   \* the dispatcher's in, out and checked
  inputs,     \* whether it still offers input, has run out, or has returned
  busy,       \* the header each worker verifies; 0 while it is idle
  errors,     \* the slice the workers write
  ready,      \* workers that wait to report on done
  done,       \* that channel, with room for one report of each worker
  results,    \* errorsOut, all ever sent on it
  read,       \* how many of them the importer has read
  abort

headerVars == <<next, out, checked, inputs, busy, errors, ready, done, results, read, abort>>

(* verifyHeaderWorker: the parent is known or in the batch, a known header  *)
(* is accepted as it is, and only others are verified.                      *)
Verdict(i) ==
  LET h == Header[i] IN
  CASE ~h.linked -> "unknown ancestor"
    [] h.linked /\ h.known -> "ok"
    [] OTHER -> IF h.valid THEN "ok" ELSE "invalid"

Dispatch(w) ==
  /\ inputs = "open" /\ busy[w] = 0
  /\ busy' = [busy EXCEPT ![w] = next] /\ next' = next + 1
  /\ inputs' = IF next' > N THEN "sent" ELSE "open"
  /\ UNCHANGED <<out, checked, errors, ready, done, results, read, abort>>
Verify(w) ==
  /\ busy[w] # 0 /\ w \notin ready
  /\ errors' = [errors EXCEPT ![busy[w]] = Verdict(busy[w])] /\ ready' = ready \cup {w}
  /\ UNCHANGED <<next, out, checked, inputs, busy, done, results, read, abort>>
Report(w) ==
  /\ w \in ready /\ Len(done) < Cardinality(Worker)
  /\ done' = Append(done, busy[w]) /\ busy' = [busy EXCEPT ![w] = 0] /\ ready' = ready \ {w}
  /\ UNCHANGED <<next, out, checked, inputs, errors, results, read, abort>>

(* The dispatcher collects a report and sends every verdict that is next.   *)
(* A faulty one sends the verdict of the report.                            *)
DeliveredReport(upto, index) == [k \in 1..(upto - out) |-> errors[index]]
Delivered(upto, index) == [k \in 1..(upto - out) |-> errors[out + k - 1]]
Collect ==
  /\ inputs # "closed" /\ done # <<>>
  /\ LET index == Head(done)
         seen == checked \cup {index}
     IN \E upto \in out..(N + 1) :
          /\ upto \notin seen /\ \A j \in out..(upto - 1) : j \in seen
          /\ checked' = seen /\ out' = upto
          /\ results' = results \o Delivered(upto, index)
          /\ inputs' = IF upto = N + 1 THEN "closed" ELSE inputs
  /\ done' = Tail(done)
  /\ UNCHANGED <<next, busy, errors, ready, read, abort>>
Aborts ==
  /\ abort /\ inputs # "closed" /\ inputs' = "closed"
  /\ UNCHANGED <<next, out, checked, busy, errors, ready, done, results, read, abort>>

(* insertChain reads one verdict for each block and stops at a bad one.     *)
Read ==
  /\ ~abort /\ read < Len(results)
  /\ read' = read + 1 /\ abort' = (results[read + 1] # "ok" \/ read + 1 = N)
  /\ UNCHANGED <<next, out, checked, inputs, busy, errors, ready, done, results>>

(* The process is stopping, or a block is banned.                           *)
Interrupted ==
  /\ ~abort /\ abort' = TRUE
  /\ UNCHANGED <<next, out, checked, inputs, busy, errors, ready, done, results, read>>

Init ==
  /\ next = 1 /\ out = 1 /\ checked = {} /\ inputs = "open" /\ busy = [w \in Worker |-> 0]
  /\ errors = [i \in 1..N |-> Unchecked] /\ ready = {} /\ done = <<>> /\ results = <<>>
  /\ read = 0 /\ abort = FALSE
Next == Collect \/ Aborts \/ Read \/ Interrupted \/ \E w \in Worker : Dispatch(w) \/ Verify(w) \/ Report(w)
Spec == Init /\ [][Next]_headerVars
-----------------------------------------------------------------------------
(* However the workers finish, the verdicts come in the order of the        *)
(* headers, and none before its header was verified.                        *)
VerdictsInOrder == \A i \in DOMAIN results : results[i] = Verdict(i)

(* The importer gets a verdict for every header up to the first bad one: it *)
(* never waits while nothing is on its way.                                 *)
VerdictComes ==
  ~abort /\ read = Len(results) =>
    done # <<>> \/ (\E w \in Worker : busy[w] # 0) \/ inputs = "open"

(* The pipeline as a whole.                                                 *)
PipelineSound == VerdictsInOrder /\ VerdictComes
=============================================================================
