---------------------------- MODULE FilterSystem ----------------------------
(* xdn/filters: the EventSystem, whose loop installs and uninstalls filters *)
(* and broadcasts events to them over unbuffered channels, and the API that *)
(* creates, polls, uninstalls and times them out.                           *)
EXTENDS Integers, Sequences, FiniteSets, FiniteSetsExt, SequencesExt

CONSTANTS Filter,
          typ,               \* the kind of each filter
          Polled,            \* the filters clients poll; the others are pushed
          Cap,               \* room in the channel of each kind of event
          MaxEvents          \* bound on the events explored

Kinds == {"logs", "pending", "txs", "blocks"}
Nobody == "nobody"

VARIABLES
  queue,      \* txCh, logsCh, chainEvCh and the mux subscription
  index,      \* eventLoop's filterIndex
  event, targets,  \* the event that is broadcast, and to whom still
  client,     \* what the goroutine of each filter does
  item,       \* the event it has received and not yet stored
  uninst,     \* Unsubscribe of each filter: no, trying or done
  mu,         \* filtersMu: who holds it over several steps
  filters, expired,  \* api.filters, and the deadlines that have fired
  scan, victim,      \* timeoutLoop: what it still looks at, and unsubscribes
  store, polled,     \* what a filter has collected, and what clients took
  due         \* the events a filter was to get

filterVars == <<queue, index, event, targets, client, item, uninst, mu, filters, expired, scan, victim,
                store, polled, due>>
api == <<mu, filters, expired, scan, victim>>
data == <<store, polled, due>>

Indexes(f) == IF typ[f] = "minedAndPending" THEN {"logs", "pending"} ELSE {typ[f]}
Events == FoldSet(LAMBDA k, n : n + queue[k].next - 1, 0, Kinds)
-----------------------------------------------------------------------------
(* An event is posted.                                                      *)
Post(k) ==
  /\ Events < MaxEvents /\ Len(queue[k].list) < Cap
  /\ queue' = [queue EXCEPT ![k] = [next |-> @.next + 1, list |-> Append(@.list, @.next)]]
  /\ UNCHANGED <<index, event, targets, client, item, uninst, api, data>>

(* eventLoop reads it, and broadcast goes through the filters of its kind.  *)
TakeEvent(k) ==
  /\ event = <<>> /\ queue[k].list # <<>>
  /\ event' = <<k, Head(queue[k].list)>> /\ targets' = index[k]
  /\ due' = [f \in Filter |-> IF f \in index[k] THEN Append(due[f], <<k, Head(queue[k].list)>>) ELSE due[f]]
  /\ queue' = [queue EXCEPT ![k].list = Tail(@)]
  /\ UNCHANGED <<index, client, item, uninst, api, store, polled>>

(* The filter's goroutine receives it; a pushed one notifies at once.       *)
Receive(f) ==
  /\ f \in targets /\ client[f] = "read"
  /\ targets' = targets \ {f}
  /\ IF f \in Polled
     THEN client' = [client EXCEPT ![f] = "store"] /\ item' = [item EXCEPT ![f] = event] /\ UNCHANGED polled
     ELSE polled' = [polled EXCEPT ![f] = Append(@, event)] /\ UNCHANGED <<client, item>>
  /\ UNCHANGED <<queue, index, event, uninst, api, store, due>>

(* Unsubscribe consumes events while it waits for the loop.                 *)
Drain(f) ==
  /\ f \in targets /\ uninst[f] = "trying"
  /\ targets' = targets \ {f}
  /\ UNCHANGED <<queue, index, event, client, item, uninst, api, data>>

EndBroadcast ==
  /\ event # <<>> /\ targets = {} /\ event' = <<>>
  /\ UNCHANGED <<queue, index, targets, client, item, uninst, api, data>>

Install(f) ==
  /\ client[f] = "none" /\ event = <<>>
  /\ index' = [k \in Kinds |-> IF k \in Indexes(f) THEN index[k] \cup {f} ELSE index[k]]
  /\ client' = [client EXCEPT ![f] = IF f \in Polled THEN "register" ELSE "read"]
  /\ UNCHANGED <<queue, event, targets, item, uninst, api, data>>

(* A faulty removal: a filter of two kinds keeps its place in one.          *)
UnindexFirst(f) == [index EXCEPT ![CHOOSE k \in Indexes(f) : TRUE] = @ \ {f}]
Unindex(f) == [k \in Kinds |-> index[k] \ {f}]
Uninstall(f) ==
  /\ uninst[f] = "trying" /\ event = <<>>
  /\ index' = Unindex(f) /\ uninst' = [uninst EXCEPT ![f] = "done"]
  /\ UNCHANGED <<queue, event, targets, client, item, api, data>>
-----------------------------------------------------------------------------
(* The goroutines of the filters.                                           *)
Register(f) ==
  /\ client[f] = "register" /\ mu = Nobody
  /\ filters' = filters \cup {f} /\ client' = [client EXCEPT ![f] = "read"]
  /\ UNCHANGED <<queue, index, event, targets, item, uninst, mu, expired, scan, victim, data>>

Store(f) ==
  /\ client[f] = "store" /\ mu = Nobody
  /\ store' = [store EXCEPT ![f] = IF f \in filters THEN Append(@, item[f]) ELSE @]
  /\ item' = [item EXCEPT ![f] = <<>>] /\ client' = [client EXCEPT ![f] = "read"]
  /\ UNCHANGED <<queue, index, event, targets, uninst, api, polled, due>>

(* The error channel is closed: the filter is forgotten.                    *)
Gone(f) ==
  /\ client[f] = "read" /\ uninst[f] = "done" /\ (f \in Polled => mu = Nobody)
  /\ filters' = filters \ {f} /\ client' = [client EXCEPT ![f] = "gone"]
  /\ UNCHANGED <<queue, index, event, targets, item, uninst, mu, expired, scan, victim, data>>

(* The client of a pushed filter goes away; its goroutine unsubscribes.     *)
Dropped(f) ==
  /\ f \notin Polled /\ client[f] = "read" /\ uninst[f] = "no"
  /\ client' = [client EXCEPT ![f] = "gone"] /\ uninst' = [uninst EXCEPT ![f] = "trying"]
  /\ UNCHANGED <<queue, index, event, targets, item, api, data>>

(* GetFilterChanges.                                                        *)
GetFilterChanges(f) ==
  /\ f \in filters /\ mu = Nobody /\ (store[f] # <<>> \/ f \in expired)
  /\ polled' = [polled EXCEPT ![f] = @ \o store[f]] /\ store' = [store EXCEPT ![f] = <<>>]
  /\ expired' = expired \ {f}
  /\ UNCHANGED <<queue, index, event, targets, client, item, uninst, mu, filters, scan, victim, due>>

UninstallFilter(f) ==
  /\ f \in filters /\ mu = Nobody /\ uninst[f] = "no"
  /\ filters' = filters \ {f} /\ uninst' = [uninst EXCEPT ![f] = "trying"]
  /\ UNCHANGED <<queue, index, event, targets, client, item, mu, expired, scan, victim, data>>

Expire(f) ==
  /\ f \in filters \ expired /\ expired' = expired \cup {f}
  /\ UNCHANGED <<queue, index, event, targets, client, item, uninst, mu, filters, scan, victim, data>>

(* timeoutLoop keeps the lock while it unsubscribes.                        *)
TimeoutTick ==
  /\ mu = Nobody /\ expired \cap filters # {}
  /\ mu' = "timeoutLoop" /\ scan' = filters
  /\ UNCHANGED <<queue, index, event, targets, client, item, uninst, filters, expired, victim, data>>

TimeoutScan ==
  /\ mu = "timeoutLoop" /\ victim = Nobody
  /\ IF scan = {} THEN mu' = Nobody /\ UNCHANGED <<uninst, victim, expired, scan>>
     ELSE \E f \in scan :
            /\ scan' = scan \ {f} /\ UNCHANGED mu /\ expired' = expired \ {f}
            /\ IF f \in expired
               THEN victim' = f /\ uninst' = [uninst EXCEPT ![f] = "trying"]
               ELSE UNCHANGED <<victim, uninst>>
  /\ UNCHANGED <<queue, index, event, targets, client, item, filters, data>>

TimeoutDone ==
  /\ victim # Nobody /\ uninst[victim] = "done"
  /\ filters' = filters \ {victim} /\ victim' = Nobody
  /\ UNCHANGED <<queue, index, event, targets, client, item, uninst, mu, expired, scan, data>>
-----------------------------------------------------------------------------
Init ==
  /\ queue = [k \in Kinds |-> [next |-> 1, list |-> <<>>]] /\ index = [k \in Kinds |-> {}]
  /\ event = <<>> /\ targets = {} /\ mu = Nobody /\ filters = {} /\ expired = {} /\ scan = {} /\ victim = Nobody
  /\ client = [f \in Filter |-> "none"] /\ item = [f \in Filter |-> <<>>] /\ uninst = [f \in Filter |-> "no"]
  /\ store = [f \in Filter |-> <<>>] /\ polled = [f \in Filter |-> <<>>] /\ due = [f \in Filter |-> <<>>]

Work ==
  \/ EndBroadcast \/ TimeoutScan \/ TimeoutDone
  \/ \E f \in Filter : Receive(f) \/ Drain(f) \/ Uninstall(f) \/ Register(f) \/ Store(f) \/ Gone(f)
Next ==
  \/ \E k \in Kinds : Post(k) \/ TakeEvent(k)
  \/ \E f \in Filter : Install(f) \/ Dropped(f) \/ GetFilterChanges(f) \/ UninstallFilter(f) \/ Expire(f)
  \/ TimeoutTick \/ Work
Spec == Init /\ [][Next]_filterVars
-----------------------------------------------------------------------------
(* A filter that is not being removed misses no event and sees none twice:  *)
(* what clients took, what is stored and what its goroutine holds are the   *)
(* events broadcast since it was installed, in order.                       *)
NoneMissed ==
  \A f \in Filter : uninst[f] = "no" =>
    polled[f] \o store[f] \o (IF item[f] = <<>> THEN <<>> ELSE <<item[f]>>)
              \o (IF f \in targets THEN <<event>> ELSE <<>>) = due[f]

(* The loop only sends to filters that somebody listens for: Unsubscribe    *)
(* has not returned ("the manager won't use the event channel").            *)
TargetsListen ==
  /\ \A f \in targets : uninst[f] # "done"
  /\ \A f \in Filter : uninst[f] = "done" => \A k \in Kinds : f \notin index[k]

(* Whoever unsubscribes gets through, unless the timeout loop holds the     *)
(* lock of the filters meanwhile.                                           *)
UnsubscribeUnlocked == (\E f \in Filter : uninst[f] = "trying") /\ mu = Nobody => ENABLED Work

FilterSound == NoneMissed /\ TargetsListen /\ UnsubscribeUnlocked

(* Unsubscribe "prevents the eventLoop broadcast method to deadlock": while *)
(* it runs, the system can move.                                            *)
UnsubscribeReturns == (\E f \in Filter : uninst[f] = "trying") => ENABLED Work
=============================================================================
