----------------------------- MODULE DialProofs -----------------------------
(***************************************************************************)
(* Proofs about Dial, for every number of addresses.                       *)
(***************************************************************************)
EXTENDS Dial, FiniteSetTheorems, TLAPS

(***************************************************************************)
(* The inductive invariant.                                                *)
(***************************************************************************)

TypeOK ==
    /\ addrs \in 0 .. MaxAddrs
    /\ pc \in {"resolve", "loop", "returned"}
    /\ result \in {"none", "conn", "err"}
    /\ winner \in 0 .. MaxAddrs
    /\ next \in 1 .. MaxAddrs + 1
    /\ inFlight \in Nat
    /\ dials \in [Addrs -> DialStates]
    /\ timer \in {"armed", "fired", "stopped"}
    /\ timerC \in BOOLEAN /\ ctxDone \in BOOLEAN /\ dialDone \in BOOLEAN
    /\ drain \in Nat
    /\ conns \subseteq Addrs

\* Until dialContext returns it has neither result nor winner, and there is
\* nobody to drain results; a failed call has no winner.
NotReturned ==
    /\ pc = "resolve" => addrs = 0 /\ next = 1
    /\ pc # "returned" => result = "none" /\ winner = 0 /\ drain = 0
    /\ result # "conn" => winner = 0

\* An open connection is waiting to be received, or it is the one returned.
ConnsAccounted ==
    /\ \A i \in Addrs : dials[i] = "ok" => i \in conns
    /\ \A i \in conns : dials[i] = "ok" \/ i = winner
    /\ result = "conn" => winner \in conns /\ dials[winner] = "ended"

IndInv ==
    /\ TypeOK
    /\ NextInRange
    /\ NotReturned
    /\ ReceiverForEveryDial
    /\ ConnsAccounted
    /\ FailureIsExhaustive

(***************************************************************************)
(* Lemmas about the set of running attempts.                               *)
(***************************************************************************)

LEMMA RunningFinite == IsFiniteSet(Running) /\ Cardinality(Running) \in Nat
<1>1. IsFiniteSet(Addrs)
  BY MaxAddrsAssumption, FS_Interval DEF Addrs
<1>2. Running \subseteq Addrs
  BY DEF Running
<1> QED
  BY <1>1, <1>2, FS_Subset, FS_CardinalityType

\* The result of attempt i is received ...
LEMMA RunningReceive ==
    ASSUME TypeOK, NEW i \in Addrs, dials[i] \in Results,
           dials' = [dials EXCEPT ![i] = "ended"]
    PROVE  /\ Running' = Running \ {i}
           /\ Cardinality(Running') = Cardinality(Running) - 1
           /\ Cardinality(Running) > 0
<1>1. i \in Running /\ Running' = Running \ {i}
  BY DEF TypeOK, Running, Results
<1>2. Cardinality(Running') = Cardinality(Running) - 1
  BY <1>1, RunningFinite, FS_RemoveElement
<1>3. Cardinality(Running) # 0
  BY <1>1, RunningFinite, FS_EmptySet
<1> QED
  BY <1>1, <1>2, <1>3, RunningFinite

\* ... an attempt is launched ...
LEMMA RunningLaunch ==
    ASSUME TypeOK, NEW n \in Addrs, dials[n] = "idle",
           dials' = [dials EXCEPT ![n] = "dialing"]
    PROVE  Cardinality(Running') = Cardinality(Running) + 1
<1>1. n \notin Running /\ Running' = Running \cup {n}
  BY DEF TypeOK, Running
<1> QED
  BY <1>1, RunningFinite, FS_AddElement

\* ... or both at once, as after a failure.
LEMMA RunningReplace ==
    ASSUME TypeOK, NEW i \in Addrs, NEW n \in Addrs, dials[i] \in Results, dials[n] = "idle",
           dials' = [dials EXCEPT ![i] = "ended", ![n] = "dialing"]
    PROVE  Cardinality(Running') = Cardinality(Running)
<1>1. i \in Running /\ n \notin Running /\ i # n
  BY DEF Running, Results
<1>2. Running' = (Running \ {i}) \cup {n}
  BY <1>1 DEF TypeOK, Running
<1>3. /\ IsFiniteSet(Running \ {i})
      /\ Cardinality(Running \ {i}) = Cardinality(Running) - 1
  BY <1>1, RunningFinite, FS_RemoveElement
<1>4. Cardinality(Running') = Cardinality(Running \ {i}) + 1
  BY <1>1, <1>2, <1>3, FS_AddElement
<1> QED
  BY <1>3, <1>4, RunningFinite

\* An attempt that has not been launched is idle, one that was launched is not.
LEMMA Launched ==
    ASSUME TypeOK, NextInRange, NEW i \in Addrs, dials[i] # "idle"
    PROVE  i < next
BY DEF NextInRange

(***************************************************************************)
(* The invariant is inductive.                                             *)
(***************************************************************************)

\* Initially nothing is launched.
LEMMA InitIndInv == Init => IndInv
<1> SUFFICES ASSUME Init PROVE IndInv
  OBVIOUS
<1>1. addrs \in 0 .. MaxAddrs /\ winner \in 0 .. MaxAddrs /\ next \in 1 .. MaxAddrs + 1
  BY MaxAddrsAssumption DEF Init
<1>2. TypeOK
  BY <1>1 DEF Init, TypeOK, DialStates
<1>3. NextInRange
  BY MaxAddrsAssumption DEF Init, NextInRange, Addrs
<1>4. Running = {}
  BY DEF Init, Running
<1>5. ReceiverForEveryDial
  BY <1>4, FS_EmptySet DEF Init, ReceiverForEveryDial
<1>6. NotReturned /\ ConnsAccounted /\ FailureIsExhaustive
  BY DEF Init, NotReturned, ConnsAccounted, FailureIsExhaustive
<1> QED
  BY <1>2, <1>3, <1>5, <1>6 DEF IndInv

\* The first attempt is launched, or there is nothing to dial.
LEMMA ResolutionStep == IndInv /\ Resolution => IndInv'
<1> SUFFICES ASSUME IndInv, Resolution PROVE IndInv'
  OBVIOUS
<1> USE MaxAddrsAssumption DEF Addrs
<1>0. TypeOK /\ NextInRange /\ NotReturned /\ ReceiverForEveryDial /\ ConnsAccounted
  BY DEF IndInv
<1>1. CASE ResolveFails
  <2>1. TypeOK' /\ NextInRange' /\ NotReturned' /\ ConnsAccounted'
    BY <1>0, <1>1 DEF ResolveFails, TypeOK, NextInRange, NotReturned, ConnsAccounted
  <2>2. Running' = Running
    BY <1>1 DEF ResolveFails, Running
  <2>3. ReceiverForEveryDial'
    BY <1>0, <1>1, <2>2 DEF ResolveFails, ReceiverForEveryDial
  <2>4. Running = {} /\ conns = {}
    BY <1>0, <1>1 DEF ResolveFails, Running, NextInRange, NotReturned, ConnsAccounted, TypeOK
  <2>5. FailureIsExhaustive'
    BY <1>0, <1>1, <2>2, <2>4 DEF ResolveFails, FailureIsExhaustive, NotReturned
  <2> QED
    BY <2>1, <2>3, <2>5 DEF IndInv
<1>2. ASSUME NEW n \in Addrs, Resolved(n) PROVE IndInv'
  <2>0. pc = "resolve" /\ next = 1 /\ dials[1] = "idle"
    BY <1>0, <1>2 DEF Resolved, NotReturned, NextInRange
  <2>1. TypeOK'
    BY <1>0, <1>2 DEF Resolved, TypeOK, DialStates
  <2>2. NextInRange'
    <3>1. timerC' <=> (n > 1)
      BY <1>2, Zenon DEF Resolved
    <3>2. next' = 2 /\ addrs' = n
      BY <1>2 DEF Resolved
    <3>3. \A i \in Addrs : (dials'[i] # "idle") <=> (i < 2)
      BY <1>0, <1>2, <2>0 DEF Resolved, NextInRange, TypeOK
    <3> QED
      BY <3>1, <3>2, <3>3 DEF NextInRange
  <2>3. NotReturned' /\ ConnsAccounted'
    BY <1>0, <1>2, <2>0 DEF Resolved, NotReturned, ConnsAccounted, TypeOK
  <2>4. Cardinality(Running') = Cardinality(Running) + 1
    <3>1. 1 \in Addrs /\ dials' = [dials EXCEPT ![1] = "dialing"]
      BY <1>2 DEF Resolved
    <3> QED
      BY <1>0, <2>0, <3>1, RunningLaunch
  <2>5. Cardinality(Running) = 0
    BY <1>0, <2>0 DEF ReceiverForEveryDial, NotReturned
  <2>6. ReceiverForEveryDial'
    BY <1>2, <2>4, <2>5 DEF Resolved, ReceiverForEveryDial
  <2>7. FailureIsExhaustive'
    BY <1>0, <1>2, <2>0 DEF Resolved, FailureIsExhaustive, NotReturned
  <2> QED
    BY <2>1, <2>2, <2>3, <2>6, <2>7 DEF IndInv
<1> QED
  BY <1>1, <1>2 DEF Resolution

\* An attempt ends; nobody has received its result yet.
LEMMA DialEndsStep ==
    ASSUME IndInv, NEW i \in Addrs, NEW r \in Results, DialEnds(i, r)
    PROVE  IndInv'
<1>0. TypeOK /\ NextInRange /\ NotReturned /\ ReceiverForEveryDial /\ ConnsAccounted
      /\ FailureIsExhaustive
  BY DEF IndInv
<1>1. TypeOK'
  BY <1>0 DEF DialEnds, TypeOK, DialStates
<1>2. NextInRange'
  BY <1>0 DEF DialEnds, NextInRange, TypeOK, Results
<1>3. NotReturned'
  BY <1>0 DEF DialEnds, NotReturned
<1>4. i \in Running /\ Running' = Running
  BY <1>0 DEF DialEnds, Running, TypeOK, Results
<1>5. ReceiverForEveryDial'
  BY <1>0, <1>4 DEF DialEnds, ReceiverForEveryDial
<1>6. ConnsAccounted'
  BY <1>0 DEF DialEnds, ConnsAccounted, TypeOK
<1>7. FailureIsExhaustive'
  BY <1>0, <1>4 DEF DialEnds, FailureIsExhaustive
<1> QED
  BY <1>1, <1>2, <1>3, <1>5, <1>6, <1>7 DEF IndInv

\* The loop takes a connection and returns it.
LEMMA ReceiveConnStep ==
    ASSUME IndInv, NEW i \in Addrs, ReceiveConn(i)
    PROVE  IndInv'
<1>0. TypeOK /\ NextInRange /\ NotReturned /\ ReceiverForEveryDial /\ ConnsAccounted
  BY DEF IndInv
<1>1. /\ Cardinality(Running') = Cardinality(Running) - 1
      /\ Cardinality(Running) > 0 /\ Cardinality(Running) = inFlight
  BY <1>0, RunningReceive DEF ReceiveConn, Results, ReceiverForEveryDial
<1>2. TypeOK'
  BY <1>0, <1>1 DEF ReceiveConn, Return, TypeOK, DialStates, Addrs
<1>3. NextInRange'
  BY <1>0 DEF ReceiveConn, Return, NextInRange, TypeOK
<1>4. NotReturned'
  BY <1>0 DEF ReceiveConn, Return, NotReturned
<1>5. ReceiverForEveryDial'
  BY <1>1 DEF ReceiveConn, Return, ReceiverForEveryDial
<1>6. winner = 0 /\ 0 \notin Addrs
  BY <1>0 DEF ReceiveConn, NotReturned, Addrs
<1>7. ConnsAccounted'
  BY <1>0, <1>6 DEF ReceiveConn, Return, ConnsAccounted, TypeOK
<1>8. FailureIsExhaustive'
  BY DEF ReceiveConn, Return, FailureIsExhaustive
<1> QED
  BY <1>2, <1>3, <1>4, <1>5, <1>7, <1>8 DEF IndInv

\* The loop takes a failure and launches the next address in its place.
LEMMA ReceiveFailureStep ==
    ASSUME IndInv, NEW i \in Addrs, ReceiveFailure(i)
    PROVE  IndInv'
<1> USE MaxAddrsAssumption
<1>0. TypeOK /\ NextInRange /\ NotReturned /\ ReceiverForEveryDial /\ ConnsAccounted
  BY DEF IndInv
<1>1. next \in Addrs /\ next + 1 <= addrs + 1 /\ addrs <= MaxAddrs
  BY <1>0 DEF ReceiveFailure, TypeOK, Addrs
<1>2. dials[next] = "idle" /\ i # next
  BY <1>0, <1>1 DEF ReceiveFailure, NextInRange, TypeOK
<1>3. TypeOK'
  BY <1>0, <1>1 DEF ReceiveFailure, TypeOK, DialStates
<1>4. NextInRange'
  <2>1. \A j \in Addrs : (dials'[j] # "idle") <=> (j < next + 1)
    BY <1>0, <1>1, <1>2 DEF ReceiveFailure, NextInRange, TypeOK, Addrs
  <2>2. timerC' <=> (next + 1 <= addrs)
    BY Zenon DEF ReceiveFailure
  <2>3. next' = next + 1 /\ addrs' = addrs /\ next \in Nat /\ addrs \in Nat
    BY <1>0, <1>1 DEF ReceiveFailure, TypeOK
  <2> QED
    BY <1>1, <2>1, <2>2, <2>3 DEF NextInRange
<1>5. NotReturned'
  BY <1>0 DEF ReceiveFailure, NotReturned
<1>6. Cardinality(Running') = Cardinality(Running)
  BY <1>0, <1>1, <1>2, RunningReplace DEF ReceiveFailure, Results
<1>7. ReceiverForEveryDial'
  BY <1>0, <1>6 DEF ReceiveFailure, ReceiverForEveryDial
<1>8. ConnsAccounted'
  BY <1>0, <1>1, <1>2 DEF ReceiveFailure, ConnsAccounted, TypeOK, NotReturned
<1>9. FailureIsExhaustive'
  BY <1>0 DEF ReceiveFailure, FailureIsExhaustive, NotReturned
<1> QED
  BY <1>3, <1>4, <1>5, <1>7, <1>8, <1>9 DEF IndInv

\* The loop takes a failure and has no address left.  If it was the last attempt
\* in flight, none is running and no connection is open.
LEMMA ReceiveLastFailureStep ==
    ASSUME IndInv, NEW i \in Addrs, ReceiveLastFailure(i)
    PROVE  IndInv'
<1>0. TypeOK /\ NextInRange /\ NotReturned /\ ReceiverForEveryDial /\ ConnsAccounted
  BY DEF IndInv
<1>1. /\ Cardinality(Running') = Cardinality(Running) - 1
      /\ Cardinality(Running) > 0 /\ Cardinality(Running) = inFlight
  BY <1>0, RunningReceive DEF ReceiveLastFailure, Results, ReceiverForEveryDial
<1>2. TypeOK'
  <2>1. inFlight' \in Nat /\ drain' \in Nat /\ winner' \in 0 .. MaxAddrs
    BY <1>0, <1>1, MaxAddrsAssumption DEF ReceiveLastFailure, Return, TypeOK
  <2>2. dialDone' \in BOOLEAN /\ timer' \in {"armed", "fired", "stopped"}
    BY <1>0 DEF ReceiveLastFailure, Return, TypeOK
  <2>3. pc' \in {"resolve", "loop", "returned"} /\ result' \in {"none", "conn", "err"}
    BY <1>0 DEF ReceiveLastFailure, Return, TypeOK
  <2>4. /\ UNCHANGED <<addrs, next, timerC, ctxDone, conns>>
        /\ dials' \in [Addrs -> DialStates]
    BY <1>0 DEF ReceiveLastFailure, TypeOK, DialStates
  <2> QED
    BY <1>0, <2>1, <2>2, <2>3, <2>4 DEF TypeOK
<1>3. NextInRange'
  BY <1>0 DEF ReceiveLastFailure, Return, NextInRange, TypeOK
<1>4. NotReturned'
  BY <1>0 DEF ReceiveLastFailure, Return, NotReturned
<1>5. ReceiverForEveryDial'
  BY <1>0, <1>1 DEF ReceiveLastFailure, Return, ReceiverForEveryDial, NotReturned
<1>6. winner = 0 /\ winner' = 0 /\ 0 \notin Addrs
  BY <1>0 DEF ReceiveLastFailure, Return, NotReturned, Addrs
<1>7. ConnsAccounted'
  BY <1>0, <1>6 DEF ReceiveLastFailure, Return, ConnsAccounted, TypeOK, NotReturned
<1>8. FailureIsExhaustive'
  <2>1. CASE inFlight = 1
    <3>1. Cardinality(Running') = 0
      BY <1>1, <2>1
    <3>2. IsFiniteSet(Running')
      BY <1>0, RunningReceive, RunningFinite, FS_Subset DEF ReceiveLastFailure, Results
    <3>3. Running' = {}
      BY <3>1, <3>2, FS_EmptySet
    <3>4. conns' = {}
      BY <1>6, <1>7, <1>2, <3>3 DEF ConnsAccounted, Running, TypeOK
    <3> QED
      BY <3>3, <3>4 DEF ReceiveLastFailure, FailureIsExhaustive
  <2>2. CASE inFlight # 1
    BY <1>0, <2>2 DEF ReceiveLastFailure, FailureIsExhaustive, NotReturned
  <2> QED
    BY <2>1, <2>2
<1> QED
  BY <1>2, <1>3, <1>4, <1>5, <1>7, <1>8 DEF IndInv

\* The timer lets the loop launch the next address, of which there is one.
LEMMA FallbackTickStep ==
    ASSUME IndInv, FallbackTick
    PROVE  IndInv'
<1> USE MaxAddrsAssumption
<1>0. TypeOK /\ NextInRange /\ NotReturned /\ ReceiverForEveryDial /\ ConnsAccounted
  BY DEF IndInv
<1>1. next \in Addrs /\ next <= addrs /\ addrs <= MaxAddrs
  BY <1>0 DEF FallbackTick, NextInRange, TypeOK, Addrs
<1>2. dials[next] = "idle"
  BY <1>0, <1>1 DEF NextInRange, TypeOK
<1>3. TypeOK'
  BY <1>0, <1>1 DEF FallbackTick, TypeOK, DialStates
<1>4. NextInRange'
  <2>1. \A j \in Addrs : (dials'[j] # "idle") <=> (j < next + 1)
    BY <1>0, <1>1, <1>2 DEF FallbackTick, NextInRange, TypeOK, Addrs
  <2>2. timerC' <=> (next + 1 <= addrs)
    BY Zenon DEF FallbackTick
  <2>3. next' = next + 1 /\ addrs' = addrs /\ next \in Nat /\ addrs \in Nat
    BY <1>0, <1>1 DEF FallbackTick, TypeOK
  <2> QED
    BY <1>1, <2>1, <2>2, <2>3 DEF NextInRange
<1>5. NotReturned'
  BY <1>0 DEF FallbackTick, NotReturned
<1>6. Cardinality(Running') = Cardinality(Running) + 1
  BY <1>0, <1>1, <1>2, RunningLaunch DEF FallbackTick
<1>7. ReceiverForEveryDial'
  BY <1>0, <1>6 DEF FallbackTick, ReceiverForEveryDial
<1>8. ConnsAccounted'
  BY <1>0, <1>1, <1>2 DEF FallbackTick, ConnsAccounted, TypeOK, NotReturned
<1>9. FailureIsExhaustive'
  BY <1>0 DEF FallbackTick, FailureIsExhaustive, NotReturned
<1> QED
  BY <1>3, <1>4, <1>5, <1>7, <1>8, <1>9 DEF IndInv

\* The context ends: what is in flight is left to drainDialResults.
LEMMA ReturnOnCtxStep ==
    ASSUME IndInv, ReturnOnCtx
    PROVE  IndInv'
<1>0. TypeOK /\ NextInRange /\ NotReturned /\ ReceiverForEveryDial /\ ConnsAccounted
  BY DEF IndInv
<1>1. TypeOK' /\ NextInRange' /\ NotReturned'
  BY <1>0 DEF ReturnOnCtx, Return, TypeOK, NextInRange, NotReturned
<1>2. ReceiverForEveryDial'
  BY <1>0 DEF ReturnOnCtx, Return, ReceiverForEveryDial, Running
<1>3. ConnsAccounted' /\ FailureIsExhaustive'
  BY <1>0 DEF ReturnOnCtx, Return, ConnsAccounted, FailureIsExhaustive, NotReturned
<1> QED
  BY <1>1, <1>2, <1>3 DEF IndInv

\* drainDialResults receives a late result and closes its connection.
LEMMA DrainStep ==
    ASSUME IndInv, NEW i \in Addrs, Drain(i)
    PROVE  IndInv'
<1>0. TypeOK /\ NextInRange /\ NotReturned /\ ReceiverForEveryDial /\ ConnsAccounted
      /\ FailureIsExhaustive
  BY DEF IndInv
<1>1. pc = "returned" /\ i \in Running
  BY <1>0 DEF Drain, NotReturned, TypeOK, Running, Results
<1>2. Cardinality(Running') = Cardinality(Running) - 1
  BY <1>0, RunningReceive DEF Drain
<1>3. TypeOK'
  BY <1>0 DEF Drain, TypeOK, DialStates
<1>4. NextInRange'
  BY <1>0 DEF Drain, NextInRange, TypeOK, Results
<1>5. NotReturned'
  BY <1>0, <1>1 DEF Drain, NotReturned
<1>6. ReceiverForEveryDial'
  BY <1>0, <1>1, <1>2 DEF Drain, ReceiverForEveryDial
<1>7. result = "conn" => i # winner
  BY <1>0 DEF Drain, ConnsAccounted, Results
<1>8. ConnsAccounted'
  BY <1>0, <1>7 DEF Drain, ConnsAccounted, TypeOK
<1>9. FailureIsExhaustive'
  BY <1>0, <1>1 DEF Drain, FailureIsExhaustive
<1> QED
  BY <1>3, <1>4, <1>5, <1>6, <1>8, <1>9 DEF IndInv

\* The other steps do not touch what the invariant speaks of, but for ctxDone,
\* which is only ever set.
LEMMA OtherStep ==
    ASSUME IndInv, CtxDone \/ TimerFires \/ UNCHANGED vars
    PROVE  IndInv'
<1>1. /\ UNCHANGED <<addrs, pc, result, winner, next, inFlight, dials, timerC, drain, conns>>
      /\ timer' \in {timer, "fired"} /\ ctxDone' \in {ctxDone, TRUE} /\ dialDone' \in {dialDone, TRUE}
  BY DEF CtxDone, TimerFires, vars
<1>2. TypeOK' /\ NextInRange' /\ NotReturned' /\ ConnsAccounted'
  BY <1>1 DEF IndInv, TypeOK, NextInRange, NotReturned, ConnsAccounted
<1>3. Running' = Running
  BY <1>1 DEF Running
<1>4. ctxDone => ctxDone'
  BY <1>1, Zenon
<1>5. ReceiverForEveryDial'
  BY <1>1, <1>3 DEF IndInv, ReceiverForEveryDial
<1>6. FailureIsExhaustive'
  BY <1>1, <1>3, <1>4 DEF IndInv, FailureIsExhaustive
<1> QED
  BY <1>2, <1>5, <1>6 DEF IndInv

(***************************************************************************)
(* The theorems.                                                           *)
(***************************************************************************)

\* The inductive invariant holds in every reachable state.
THEOREM InductiveInvariant == Spec => []IndInv
<1>1. Init => IndInv
  BY InitIndInv
<1>2. IndInv /\ [Next]_vars => IndInv'
  BY ResolutionStep, DialEndsStep, ReceiveConnStep, ReceiveFailureStep,
     ReceiveLastFailureStep, FallbackTickStep, ReturnOnCtxStep, DrainStep, OtherStep
     DEF Next, Loop, Terminating
<1> QED
  BY <1>1, <1>2, PTL DEF Spec

\* The result of every attempt is received by the loop or by drainDialResults,
\* and neither waits for more results than come.
THEOREM NoDialForgotten == Spec => []ReceiverForEveryDial
<1>1. IndInv => ReceiverForEveryDial
  BY DEF IndInv
<1> QED
  BY <1>1, InductiveInvariant, PTL

\* resolvedDestinations[next] is never out of range, and addresses are launched
\* in order and each once.
THEOREM IndexInRange == Spec => []NextInRange
<1>1. IndInv => NextInRange
  BY DEF IndInv
<1> QED
  BY <1>1, InductiveInvariant, PTL

\* dialContext fails only if its context ended or every address failed.
THEOREM FailsOnlyExhausted == Spec => []FailureIsExhaustive
<1>1. IndInv => FailureIsExhaustive
  BY DEF IndInv
<1> QED
  BY <1>1, InductiveInvariant, PTL

\* The connection returned stays open, and every other one is closed by the time
\* the drain is over.
THEOREM LosersClosed == Spec => []OnlyWinnerSurvives
<1>1. IndInv => OnlyWinnerSurvives
  <2> SUFFICES ASSUME IndInv PROVE OnlyWinnerSurvives
    OBVIOUS
  <2>1. result = "conn" => winner \in conns
    BY DEF IndInv, ConnsAccounted
  <2>2. ASSUME Running = {} PROVE conns \subseteq {winner}
    BY <2>2 DEF IndInv, ConnsAccounted, Running, TypeOK
  <2> QED
    BY <2>1, <2>2 DEF OnlyWinnerSurvives
<1> QED
  BY <1>1, InductiveInvariant, PTL

=============================================================================
