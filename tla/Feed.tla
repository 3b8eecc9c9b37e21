------------------------------- MODULE Feed ---------------------------------
(* event/feed.go and the SubscriptionScope of event/subscription.go: values *)
(* are sent to every subscribed channel while subscribers come, are slow,   *)
(* and leave.                                                               *)
EXTENDS Integers, Sequences, FiniteSets, SequencesExt

CONSTANTS Sender, Sub,
          Cap,               \* the buffer of a subscribed channel
          MaxSends           \* bound on the calls of Send explored

VARIABLES
  lock,       \* sendLock: who holds it, or "free"
  inbox, sendCases,
  active,     \* len(cases): sendCases[1..active] still wait for the value
  send,       \* per sender: where Send is, and its value
  buf,        \* what each channel holds
  got,        \* what each subscriber has read
  life,       \* per subscription: none, on, leaving, removing or off
  tracked, scope,  \* the subscriptions of the scope, and whether it is open
  values      \* how many values were sent

feedVars == <<lock, inbox, sendCases, active, send, buf, got, life, tracked, scope, values>>

Delete(list, c) == SelectSeq(list, LAMBDA d : d # c)
Idle == [at |-> "idle", value |-> 0, sent |-> {}]

(* Subscribe, tracked by the scope; a closed scope hands out nothing.       *)
Subscribe(c) ==
  /\ life[c] = "none" /\ scope = "open"
  /\ life' = [life EXCEPT ![c] = "on"] /\ inbox' = Append(inbox, c) /\ tracked' = tracked \cup {c}
  /\ UNCHANGED <<lock, sendCases, active, send, buf, got, scope, values>>

(* Unsubscribe is done once, by the subscriber or by the scope.             *)
Unsubscribe(c) ==
  /\ life[c] = "on" /\ life' = [life EXCEPT ![c] = "leaving"]
  /\ UNCHANGED <<lock, inbox, sendCases, active, send, buf, got, tracked, scope, values>>

RemoveFromInbox(c) ==
  /\ life[c] = "leaving"
  /\ life' = [life EXCEPT ![c] = IF c \in ToSet(inbox) THEN "off" ELSE "removing"]
  /\ inbox' = Delete(inbox, c)
  /\ UNCHANGED <<lock, sendCases, active, send, buf, got, tracked, scope, values>>

RemoveIdle(c) ==
  /\ life[c] = "removing" /\ lock = "free"
  /\ sendCases' = Delete(sendCases, c) /\ life' = [life EXCEPT ![c] = "off"]
  /\ UNCHANGED <<lock, inbox, active, send, buf, got, tracked, scope, values>>

(* Send takes the channel from removeSub while it waits.                    *)
Find(c) == CHOOSE i \in DOMAIN sendCases : sendCases[i] = c
ActiveKept(c) == active            \* a faulty removal that forgets the slice
ActiveAfter(c) == IF Find(c) <= active THEN active - 1 ELSE active
RemoveDuring(s, c) ==
  /\ life[c] = "removing" /\ send[s].at = "select" /\ active > 0
  /\ sendCases' = Delete(sendCases, c) /\ active' = ActiveAfter(c)
  /\ life' = [life EXCEPT ![c] = "off"]
  /\ UNCHANGED <<lock, inbox, send, buf, got, tracked, scope, values>>

(* The scope's Unsubscribe wrapper forgets a subscription that is over.     *)
Forget(c) ==
  /\ life[c] = "off" /\ c \in tracked /\ scope # "closing"
  /\ tracked' = tracked \ {c}
  /\ UNCHANGED <<lock, inbox, sendCases, active, send, buf, got, life, scope, values>>

(* Close holds the scope's lock while it unsubscribes what is tracked.      *)
Close ==
  /\ scope = "open" /\ scope' = "closing"
  /\ UNCHANGED <<lock, inbox, sendCases, active, send, buf, got, life, tracked, values>>
Closing ==
  /\ scope = "closing"
  /\ IF \A c \in tracked : life[c] = "off"
     THEN tracked' = {} /\ scope' = "closed" /\ UNCHANGED life
     ELSE /\ \E c \in tracked : life[c] = "on" /\ life' = [life EXCEPT ![c] = "leaving"]
          /\ UNCHANGED <<tracked, scope>>
  /\ UNCHANGED <<lock, inbox, sendCases, active, send, buf, got, values>>

(* Send.                                                                    *)
Begin(s) ==
  /\ send[s].at = "idle" /\ lock = "free" /\ values < MaxSends
  /\ lock' = s /\ values' = values + 1
  /\ send' = [send EXCEPT ![s] = [at |-> "merge", value |-> values + 1, sent |-> {}]]
  /\ UNCHANGED <<inbox, sendCases, active, buf, got, life, tracked, scope>>

Merge(s) ==
  /\ send[s].at = "merge"
  /\ sendCases' = sendCases \o inbox /\ inbox' = <<>> /\ active' = Len(sendCases) + Len(inbox)
  /\ send' = [send EXCEPT ![s].at = "select"]
  /\ UNCHANGED <<lock, buf, got, life, tracked, scope, values>>

(* A channel with room gets the value and is moved behind the active ones.  *)
Deliver(s) ==
  /\ send[s].at = "select"
  /\ \E i \in 1..active :
       LET c == sendCases[i] IN
       /\ Len(buf[c]) < Cap
       /\ buf' = [buf EXCEPT ![c] = Append(@, send[s].value)]
       /\ send' = [send EXCEPT ![s].sent = @ \cup {c}]
       /\ sendCases' = [sendCases EXCEPT ![i] = sendCases[active], ![active] = c]
  /\ active' = active - 1
  /\ UNCHANGED <<lock, inbox, got, life, tracked, scope, values>>

End(s) ==
  /\ send[s].at = "select" /\ active = 0
  /\ lock' = "free" /\ send' = [send EXCEPT ![s] = Idle]
  /\ UNCHANGED <<inbox, sendCases, active, buf, got, life, tracked, scope, values>>

Receive(c) ==
  /\ buf[c] # <<>> /\ life[c] = "on"
  /\ got' = [got EXCEPT ![c] = Append(@, Head(buf[c]))] /\ buf' = [buf EXCEPT ![c] = Tail(@)]
  /\ UNCHANGED <<lock, inbox, sendCases, active, send, life, tracked, scope, values>>

Init ==
  /\ lock = "free" /\ inbox = <<>> /\ sendCases = <<>> /\ active = 0 /\ values = 0
  /\ send = [s \in Sender |-> Idle] /\ tracked = {} /\ scope = "open"
  /\ buf = [c \in Sub |-> <<>>] /\ got = [c \in Sub |-> <<>>] /\ life = [c \in Sub |-> "none"]

Sending == \E s \in Sender : Merge(s) \/ Deliver(s) \/ End(s)
Removing == \E c \in Sub : RemoveFromInbox(c) \/ RemoveIdle(c) \/ \E s \in Sender : RemoveDuring(s, c)
Next ==
  \/ \E c \in Sub : Subscribe(c) \/ Unsubscribe(c) \/ Forget(c) \/ Receive(c)
  \/ Close \/ Closing \/ \E s \in Sender : Begin(s)
  \/ Sending \/ Removing
Spec == Init /\ [][Next]_feedVars
-----------------------------------------------------------------------------
(* A subscriber sees values once and in the order of the sends, and none is *)
(* skipped between the first and the last it sees.                          *)
SeenInOrder ==
  \A c \in Sub : LET seen == got[c] \o buf[c] IN
    \A i \in 2..Len(seen) : seen[i] = seen[i - 1] + 1

(* The select cases: each subscribed channel is in one of the two lists,    *)
(* the value has gone to those behind the active part and to no other, and  *)
(* a channel that is removed is there to be found.                          *)
CasesExact ==
  /\ \A c \in Sub : Cardinality({i \in DOMAIN sendCases : sendCases[i] = c}
                                \cup {0 - i : i \in {j \in DOMAIN inbox : inbox[j] = c}})
                    = IF life[c] \in {"on", "leaving", "removing"} THEN 1 ELSE 0
  /\ \A c \in Sub : life[c] = "removing" => c \in ToSet(sendCases)
  /\ \A s \in Sender : send[s].at = "select" =>
       /\ active <= Len(sendCases)
       /\ \A i \in DOMAIN sendCases : sendCases[i] \in send[s].sent <=> i > active

(* Leaving never waits for another subscriber to read.                      *)
LeavesFreely ==
  \A c \in Sub : life[c] \in {"leaving", "removing"} => ENABLED (Removing \/ \E s \in Sender : Merge(s) \/ End(s))

FeedSound == SeenInOrder /\ CasesExact /\ LeavesFreely
=============================================================================
