------------------------------ MODULE PocSeal -------------------------------
(* Sealing and verifying with consensus/xdnoc/dnpoc.go: Seal and its search *)
(* goroutine over the plot files, the base target of the next block, and    *)
(* VerifySeal with the times of verifyHeader on the other side.             *)
(*                                                                          *)
(* quality[h][n] is the target nonce n has at height h: the hash chain from *)
(* generation signature to target is a function of the two.                 *)
EXTENDS Integers, Sequences, FiniteSets, FiniteSetsExt, SequencesExt

CONSTANTS Plots,             \* the plot files, each the nonces it holds in order
          MinNonce, MaxNonce,    \* what the account is authorised for
          quality, Others,       \* Others: the nonces other miners have
          InitBaseTarget,
          Window, Period,        \* 4 blocks and 60 seconds
          MaxDeadLine,           \* 9999999999, the deadline before any is found
          MaxTime, MaxHeight,
          MayFail                \* whether the plot configuration may be unreadable

VARIABLES
  now,        \* the clock, in seconds
  chain,      \* the sealed headers: base target, deadline, time, nonce
  search,     \* off, scan, wait, offer, or dead without an answer
  pos,        \* the files still to be read, and the place in the first
  best,       \* minDeadLine and minNonce
  found       \* the header that is offered

sealVars == <<now, chain, search, pos, best, found>>

Header(b, d, t, n) == [baseTarget |-> b, deadLine |-> d, time |-> t, nonce |-> n]
Parent == chain[Len(chain)]
Height == Len(chain)             \* the number of the block that is sealed
None == [deadLine |-> MaxDeadLine, nonce |-> 0]
-----------------------------------------------------------------------------
(* calcBaseTarget, from the Window headers before the block.                *)
Mean(f(_), number) == FoldSet(LAMBDA i, s : s + f(chain[i]), 0, (number - Window + 1)..number) \div Window
Clamp(aver, diff) ==
  LET target == (aver * diff) \div Period
      low == (aver * 9) \div 10
      high == (aver * 11) \div 10
  IN IF target < low THEN low ELSE IF target > high THEN high ELSE target
CalcBaseTarget(number) ==
  IF number <= Window + 1 THEN InitBaseTarget
  ELSE LET aver == Mean(LAMBDA h : h.baseTarget, number)
           diff == Mean(LAMBDA h : h.deadLine, number)
       IN Clamp(aver, diff)

CalcDeadLine(number, n, baseTarget) == quality[number][n] \div baseTarget

Authorised(n) == n >= MinNonce /\ n <= MaxNonce

(* VerifySeal and the times verifyHeader compares, for block number; base   *)
(* target and generation signature are taken as the header has them.        *)
VerifySeal(number, h, parent) ==
  /\ h.time <= now /\ h.time > parent.time
  /\ h.deadLine = CalcDeadLine(number, h.nonce, h.baseTarget)
  /\ h.deadLine + parent.time < h.time
-----------------------------------------------------------------------------
Tick == now < MaxTime /\ now' = now + 1 /\ UNCHANGED <<chain, search, pos, best, found>>

(* Seal starts its search, which reads its authorisation and the plot list  *)
(* and returns without an answer if it cannot.                              *)
Seal ==
  /\ search = "off" /\ Height < MaxHeight
  /\ best' = None /\ pos' = <<Plots, 1>>
  /\ search' \in IF MayFail THEN {"scan", "dead"} ELSE {"scan"}
  /\ UNCHANGED <<now, chain, found>>

BetterOf(n) ==
  LET d == CalcDeadLine(Height, n, CalcBaseTarget(Height))
  IN IF Authorised(n) /\ d < best.deadLine THEN [deadLine |-> d, nonce |-> n] ELSE best

(* The best nonce is offered as soon as its deadline has passed.            *)
Passed(b) == b.deadLine + Parent.time < now
Offers(b) ==
  /\ search' = "offer"
  /\ found' = Header(CalcBaseTarget(Height), b.deadLine, now, b.nonce)

(* The search looks at the next nonce; behind the last file it waits.       *)
Scan ==
  /\ search = "scan" /\ pos[1] # <<>>
  /\ LET file == pos[1][1]
         n == file[pos[2]]
     IN /\ best' = BetterOf(n)
        /\ pos' = IF pos[2] = Len(file) THEN <<Tail(pos[1]), 1>> ELSE <<pos[1], pos[2] + 1>>
        /\ IF Authorised(n) /\ Passed(best') THEN Offers(best') ELSE UNCHANGED <<search, found>>
  /\ UNCHANGED <<now, chain>>
ScanOver ==
  /\ search = "scan" /\ pos[1] = <<>> /\ search' = "wait"
  /\ UNCHANGED <<now, chain, pos, best, found>>
WaitOver ==
  /\ search = "wait" /\ Passed(best) /\ Offers(best)
  /\ UNCHANGED <<now, chain, pos, best>>

(* Seal receives the block and the worker puts it on the chain.             *)
Sealed ==
  /\ search = "offer" /\ search' = "off" /\ chain' = Append(chain, found)
  /\ UNCHANGED <<now, pos, best, found>>

(* The agent stops the search: what goes on of it has nobody to tell.  A    *)
(* new head it did not seal itself then becomes the parent.                 *)
Stop ==
  /\ search # "off" /\ search' = "off"
  /\ UNCHANGED <<now, chain, pos, best, found>>
Imported(h) ==
  /\ search = "off" /\ Height < MaxHeight /\ VerifySeal(Height, h, Parent)
  /\ chain' = Append(chain, h)
  /\ UNCHANGED <<now, search, pos, best, found>>

Init ==
  /\ now = 1 /\ chain = <<Header(InitBaseTarget, 0, 0, 0)>>
  /\ search = "off" /\ pos = <<Plots, 1>> /\ best = None /\ found = chain[1]
Next ==
  \/ Tick \/ Seal \/ Scan \/ ScanOver \/ WaitOver \/ Sealed \/ Stop
  \/ \E n \in Others : LET b == CalcBaseTarget(Height) IN Imported(Header(b, CalcDeadLine(Height, n, b), now, n))
Spec == Init /\ [][Next]_sealVars
-----------------------------------------------------------------------------
Usable == {n \in UNION {ToSet(Plots[i]) : i \in DOMAIN Plots} : Authorised(n)}

(* A block the engine seals passes its own verification, on this node and   *)
(* on any whose clock is not behind, with a nonce that was authorised.      *)
SealsVerify ==
  search = "offer" => /\ VerifySeal(Height, found, Parent)
                      /\ found.nonce \in Usable

(* A search that has read every file waits for the best nonce there is.     *)
WaitsForBest ==
  search = "wait" => \A n \in Usable : best.deadLine <= CalcDeadLine(Height, n, CalcBaseTarget(Height))

(* The base target never moves by more than a tenth of the mean it is based *)
(* on, and does not fall to zero (deadlines divide by it) while the mean is *)
(* above one.                                                               *)
TargetStable ==
  Height > Window + 1 =>
    LET aver == Mean(LAMBDA h : h.baseTarget, Height)
        target == CalcBaseTarget(Height)
    IN /\ 10 * target <= 11 * aver /\ 10 * target >= 9 * aver - 9
       /\ aver > 1 => target >= 1

(* Sealing as a whole.                                                      *)
SealSound == SealsVerify /\ WaitsForBest /\ TargetStable
=============================================================================
