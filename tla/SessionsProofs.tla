--------------------------- MODULE SessionsProofs ---------------------------
(***************************************************************************)
(* Proofs about Sessions, for every finite set of connections and every    *)
(* value of max_concurrent and idle_timeout, and about the idle timer that *)
(* closes a session's connection (IdleTimeout), for every timeout and      *)
(* every number of expire goroutines that may pile up behind the lock.     *)
(***************************************************************************)
EXTENDS Sessions, IdleTimeout, FiniteSetTheorems, TLAPS

(***************************************************************************)
(* Lemmas about the set of slot holders.                                   *)
(***************************************************************************)

\* The set of sessions that hold a slot is finite.
LEMMA HoldersFinite ==
    /\ IsFiniteSet(Holders)
    /\ Cardinality(Holders) \in Nat
<1>1. Holders \subseteq Conns
  BY DEF Holders
<1>2. IsFiniteSet(Holders)
  BY <1>1, ConnsAssumption, FS_Subset
<1> QED
  BY <1>2, FS_CardinalityType

\* A step of one goroutine between two phases of the same kind leaves the set
\* of slot holders alone.
LEMMA HoldersSame ==
    ASSUME TypeOK, NEW c \in Conns, NEW p \in Phases, NEW q \in Phases,
           Step(c, p, q), (p \in HolderPhases) <=> (q \in HolderPhases)
    PROVE  Holders' = Holders
BY DEF TypeOK, Step, Holders

\* An admission adds one session to the holders of a slot ...
LEMMA HoldersAdd ==
    ASSUME TypeOK, NEW c \in Conns, NEW p \in Phases, NEW q \in Phases,
           Step(c, p, q), p \notin HolderPhases, q \in HolderPhases
    PROVE  Cardinality(Holders') = Cardinality(Holders) + 1
<1>1. c \notin Holders /\ Holders' = Holders \cup {c}
  BY DEF TypeOK, Step, Holders
<1> QED
  BY <1>1, HoldersFinite, FS_AddElement

\* ... and a release takes one away.
LEMMA HoldersRemove ==
    ASSUME TypeOK, NEW c \in Conns, NEW p \in Phases, NEW q \in Phases,
           Step(c, p, q), p \in HolderPhases, q \notin HolderPhases
    PROVE  /\ Cardinality(Holders') = Cardinality(Holders) - 1
           /\ Cardinality(Holders) > 0
<1>1. c \in Holders /\ Holders' = Holders \ {c}
  BY DEF TypeOK, Step, Holders
<1>2. Cardinality(Holders') = Cardinality(Holders) - 1
  BY <1>1, HoldersFinite, FS_RemoveElement
<1>3. Cardinality(Holders) # 0
  BY <1>1, HoldersFinite, FS_EmptySet
<1> QED
  BY <1>2, <1>3, HoldersFinite

(***************************************************************************)
(* The inductive invariant.                                                *)
(***************************************************************************)

\* Initially nothing is admitted, registered or torn down.
LEMMA InitIndInv == Init => IndInv
<1> SUFFICES ASSUME Init PROVE IndInv
  OBVIOUS
<1>1. TypeOK
  BY DEF Init, TypeOK, Phases
<1>2. Holders = {}
  BY DEF Init, Holders, HolderPhases
<1>3. SlotAccounting
  BY <1>2, FS_EmptySet DEF Init, SlotAccounting
<1>4. BelowLimit /\ RegistryPhases /\ TeardownPhases
  BY MaxConcurrentAssumption DEF Init, BelowLimit, RegistryPhases, TeardownPhases
<1> QED
  BY <1>1, <1>3, <1>4 DEF IndInv

\* Every step keeps the types; release() only runs while its own slot is
\* counted, so the counter stays a natural number.
LEMMA TypeStep == IndInv /\ [Next]_vars => TypeOK'
<1> SUFFICES ASSUME IndInv, [Next]_vars PROVE TypeOK'
  OBVIOUS
<1> USE MaxConcurrentAssumption DEF IndInv, TypeOK, Step, Phases
<1>1. ASSUME NEW c \in Conns, Internal(c) PROVE TypeOK'
  <2>2. CASE AcquireLoad(c)
    BY <2>2 DEF AcquireLoad
  <2>3. CASE AcquireCAS(c)
    BY <2>3 DEF AcquireCAS
  <2>4. CASE AcquireRetry(c)
    BY <2>4 DEF AcquireRetry
  <2>5. CASE Refuse(c)
    BY <2>5 DEF Refuse
  <2>6. CASE Arm(c)
    BY <2>6 DEF Arm
  <2>7. CASE Register(c)
    BY <2>7 DEF Register
  <2>8. CASE CloseConn(c)
    BY <2>8 DEF CloseConn
  <2>9. CASE Unregister(c)
    BY <2>9 DEF Unregister
  <2>10. CASE Cancel(c)
    BY <2>10 DEF Cancel
  <2>11. CASE Release(c)
    <3>1. Cardinality(Holders) > 0
      BY <2>11, HoldersRemove DEF Release, HolderPhases
    <3>2. active' \in Nat
      BY <2>11, <3>1, HoldersFinite DEF Release, SlotAccounting
    <3> QED
      BY <2>11, <3>2 DEF Release
  <2> QED
    BY <1>1, <2>2, <2>3, <2>4, <2>5, <2>6, <2>7, <2>8, <2>9, <2>10, <2>11
       DEF Internal
<1>2. ASSUME NEW c \in Conns, Detect(c) \/ ServiceReturns(c) \/ IdleExpire(c)
      PROVE  TypeOK'
  BY <1>2 DEF Detect, ServiceReturns, IdleExpire
<1>3. CASE CleanupStep
  BY <1>3 DEF CleanupStep, CleanupSnapshot, CleanupClose, CleanupReturn
<1>4. CASE UNCHANGED vars
  BY <1>4 DEF vars
<1> QED
  BY <1>1, <1>2, <1>3, <1>4 DEF Next, Terminating

\* Every step keeps the counter equal to the number of slot holders: the CAS
\* adds one to both, release() takes one from both, no other step changes either.
LEMMA AccountingStep == IndInv /\ [Next]_vars => SlotAccounting'
<1> SUFFICES ASSUME IndInv, [Next]_vars PROVE SlotAccounting'
  OBVIOUS
<1> USE MaxConcurrentAssumption, HoldersFinite DEF IndInv, SlotAccounting
<1>0. TypeOK /\ SlotAccounting
  BY DEF IndInv
<1>1. ASSUME NEW c \in Conns, AcquireLoad(c), MaxConcurrent = 0 PROVE SlotAccounting'
  BY <1>1 DEF AcquireLoad
<1>2. ASSUME NEW c \in Conns, AcquireCAS(c) PROVE SlotAccounting'
  <2>1. Cardinality(Holders') = Cardinality(Holders) + 1
    BY <1>0, <1>2, HoldersAdd DEF AcquireCAS, HolderPhases, Phases
  <2>2. MaxConcurrent > 0
    BY <1>2 DEF AcquireCAS, Step, BelowLimit
  <2> QED
    BY <1>2, <2>1, <2>2 DEF AcquireCAS
<1>3. ASSUME NEW c \in Conns, Release(c) PROVE SlotAccounting'
  <2>1. Cardinality(Holders') = Cardinality(Holders) - 1
    BY <1>0, <1>3, HoldersRemove DEF Release, HolderPhases, Phases
  <2> QED
    BY <1>3, <2>1 DEF Release
<1>4. ASSUME NEW c \in Conns,
             \/ AcquireLoad(c) /\ MaxConcurrent > 0
             \/ AcquireRetry(c) \/ Refuse(c) \/ Arm(c)
             \/ Register(c) \/ CloseConn(c) \/ Unregister(c) \/ Cancel(c)
             \/ Detect(c) \/ ServiceReturns(c)
      PROVE  SlotAccounting'
  <2>1. active' = active
    BY <1>4 DEF AcquireLoad, AcquireRetry, Refuse, Arm, Register, CloseConn,
                Unregister, Cancel, Detect, ServiceReturns
  <2>2. PICK p \in Phases, q \in Phases :
            Step(c, p, q) /\ ((p \in HolderPhases) <=> (q \in HolderPhases))
    BY <1>4 DEF AcquireLoad, AcquireRetry, Refuse, Arm, Register, CloseConn,
                Unregister, Cancel, Detect, ServiceReturns, Phases, HolderPhases
  <2>3. Holders' = Holders
    BY <1>0, <2>2, HoldersSame
  <2> QED
    BY <2>1, <2>3
<1>5. CASE (\E c \in Conns : IdleExpire(c)) \/ CleanupStep \/ UNCHANGED vars
  <2>1. active' = active /\ pc' = pc
    BY <1>5 DEF IdleExpire, CleanupStep, CleanupSnapshot, CleanupClose,
                CleanupReturn, vars
  <2> QED
    BY <2>1 DEF Holders
<1> QED
  BY <1>1, <1>2, <1>3, <1>4, <1>5 DEF Next, Internal, Terminating

\* Every step keeps the counter within the limit: the CAS succeeds only if the
\* counter still has the value that was found to be below the limit.
LEMMA LimitStep == IndInv /\ [Next]_vars => BelowLimit'
<1> SUFFICES ASSUME IndInv, [Next]_vars PROVE BelowLimit'
  OBVIOUS
<1> USE MaxConcurrentAssumption DEF IndInv, TypeOK, BelowLimit, Step
<1>1. ASSUME NEW c \in Conns, Internal(c) PROVE BelowLimit'
  <2>1. CASE AcquireLoad(c)
    BY <2>1 DEF AcquireLoad
  <2>2. CASE AcquireCAS(c)
    BY <2>2 DEF AcquireCAS
  <2>3. CASE Release(c)
    BY <2>3 DEF Release
  <2>4. CASE \/ AcquireRetry(c) \/ Refuse(c) \/ Arm(c)
             \/ Register(c) \/ CloseConn(c) \/ Unregister(c) \/ Cancel(c)
    BY <2>4 DEF AcquireRetry, Refuse, Arm, Register, CloseConn,
                Unregister, Cancel
  <2> QED
    BY <1>1, <2>1, <2>2, <2>3, <2>4 DEF Internal
<1>2. ASSUME NEW c \in Conns, Detect(c) \/ ServiceReturns(c) \/ IdleExpire(c)
      PROVE  BelowLimit'
  BY <1>2 DEF Detect, ServiceReturns, IdleExpire
<1>3. CASE CleanupStep
  BY <1>3 DEF CleanupStep, CleanupSnapshot, CleanupClose, CleanupReturn
<1>4. CASE UNCHANGED vars
  BY <1>4 DEF vars
<1> QED
  BY <1>1, <1>2, <1>3, <1>4 DEF Next, Terminating

\* Every step keeps the registry equal to the sessions between their
\* registration and their deferred unregisterSession.
LEMMA RegistryStep == IndInv /\ [Next]_vars => RegistryPhases'
<1> SUFFICES ASSUME IndInv, [Next]_vars PROVE RegistryPhases'
  OBVIOUS
<1> USE DEF IndInv, TypeOK, RegistryPhases, Step
<1>1. ASSUME NEW c \in Conns, Internal(c) PROVE RegistryPhases'
  <2>1. CASE Register(c)
    BY <2>1 DEF Register
  <2>2. CASE Unregister(c)
    BY <2>2 DEF Unregister
  <2>3. CASE CloseConn(c)
    BY <2>3 DEF CloseConn
  <2>4. CASE AcquireCAS(c) \/ AcquireRetry(c) \/ AcquireLoad(c)
    BY <2>4 DEF AcquireCAS, AcquireRetry, AcquireLoad
  <2>5. CASE Refuse(c) \/ Arm(c) \/ Cancel(c) \/ Release(c)
    BY <2>5 DEF Refuse, Arm, Cancel, Release
  <2> QED
    BY <1>1, <2>1, <2>2, <2>3, <2>4, <2>5 DEF Internal
<1>2. ASSUME NEW c \in Conns, Detect(c) \/ ServiceReturns(c) \/ IdleExpire(c)
      PROVE  RegistryPhases'
  BY <1>2 DEF Detect, ServiceReturns, IdleExpire
<1>3. CASE CleanupStep
  BY <1>3 DEF CleanupStep, CleanupSnapshot, CleanupClose, CleanupReturn
<1>4. CASE UNCHANGED vars
  BY <1>4 DEF vars
<1> QED
  BY <1>1, <1>2, <1>3, <1>4 DEF Next, Terminating

\* Every step keeps the teardown in order; closing and cancelling twice, as
\* Cleanup and the idle timer may, does no harm.
LEMMA TeardownStep == IndInv /\ [Next]_vars => TeardownPhases'
<1> SUFFICES ASSUME IndInv, [Next]_vars PROVE TeardownPhases'
  OBVIOUS
<1> USE DEF IndInv, TypeOK, TeardownPhases, Step
<1>1. ASSUME NEW c \in Conns, Internal(c) PROVE TeardownPhases'
  <2>1. CASE Refuse(c) \/ CloseConn(c)
    BY <2>1 DEF Refuse, CloseConn
  <2>2. CASE Cancel(c)
    BY <2>2 DEF Cancel
  <2>3. CASE Unregister(c) \/ Release(c)
    BY <2>3 DEF Unregister, Release
  <2>4. CASE \/ AcquireCAS(c) \/ AcquireRetry(c)
             \/ AcquireLoad(c) \/ Arm(c) \/ Register(c)
    BY <2>4 DEF AcquireCAS, AcquireRetry, AcquireLoad, Arm, Register
  <2> QED
    BY <1>1, <2>1, <2>2, <2>3, <2>4 DEF Internal
<1>2. ASSUME NEW c \in Conns, Detect(c) \/ ServiceReturns(c) \/ IdleExpire(c)
      PROVE  TeardownPhases'
  BY <1>2 DEF Detect, ServiceReturns, IdleExpire
<1>3. CASE CleanupStep
  BY <1>3 DEF CleanupStep, CleanupSnapshot, CleanupClose, CleanupReturn
<1>4. CASE UNCHANGED vars
  BY <1>4 DEF vars
<1> QED
  BY <1>1, <1>2, <1>3, <1>4 DEF Next, Terminating

(***************************************************************************)
(* The theorems.                                                           *)
(***************************************************************************)

\* The inductive invariant holds in every reachable state: the bookkeeping of
\* acquire, release, the registry and the teardown is exact at every step.
THEOREM InductiveInvariant == Spec => []IndInv
<1>1. Init => IndInv
  BY InitIndInv
<1>2. IndInv /\ [Next]_vars => IndInv'
  BY TypeStep, AccountingStep, LimitStep, RegistryStep, TeardownStep DEF IndInv
<1> QED
  BY <1>1, <1>2, PTL DEF Spec

\* Type correctness; lw.active is never negative.
THEOREM TypeCorrect == Spec => []TypeOK
<1>1. IndInv => TypeOK
  BY DEF IndInv
<1> QED
  BY <1>1, InductiveInvariant, PTL

\* No interleaving of acquire() and release() loses or doubles a slot.
THEOREM SlotsExact == Spec => []SlotAccounting
<1>1. IndInv => SlotAccounting
  BY DEF IndInv
<1> QED
  BY <1>1, InductiveInvariant, PTL

\* The registered sessions hold slots, and there are never more of them than
\* max_concurrent.
THEOREM RegistryBounded == Spec => []RegistryWithinLimit
<1>1. IndInv => RegistryWithinLimit
  <2> SUFFICES ASSUME IndInv PROVE RegistryWithinLimit
    OBVIOUS
  <2>1. sessions \subseteq Holders
    BY DEF IndInv, RegistryPhases, Holders, HolderPhases
  <2>2. Cardinality(sessions) <= Cardinality(Holders) /\ Cardinality(sessions) \in Nat
    BY <2>1, HoldersFinite, FS_Subset, FS_CardinalityType
  <2>3. MaxConcurrent > 0 => Cardinality(Holders) <= MaxConcurrent
    BY MaxConcurrentAssumption DEF IndInv, SlotAccounting, BelowLimit
  <2> QED
    BY <2>1, <2>2, <2>3, HoldersFinite, MaxConcurrentAssumption DEF RegistryWithinLimit
<1> QED
  BY <1>1, InductiveInvariant, PTL

\* A refused connection or an ended session leaves nothing behind.
THEOREM TeardownLeavesNothing == Spec => []TeardownComplete
<1>1. IndInv => TeardownComplete
  BY DEF IndInv, RegistryPhases, TeardownPhases, TeardownComplete
<1> QED
  BY <1>1, InductiveInvariant, PTL

(***************************************************************************)
(* Sessions implements BoundedPool.                                        *)
(***************************************************************************)

\* The abstract set of places taken is the set of slot holders.
LEMMA PoolHeld == Pool!Held = Holders
<1>1. \A c \in Conns : (poolState[c] = "held") <=> (pc[c] \in HolderPhases)
  BY DEF poolState, PoolStateOf
<1> QED
  BY <1>1 DEF Pool!Held, Holders

\* The instance counts as FiniteSets does.
LEMMA PoolCount == Pool!Cardinality(Holders) = Cardinality(Holders)
BY DEF Pool!Cardinality, Cardinality, Pool!IsFiniteSet, IsFiniteSet

\* No connection has asked for a slot yet.
LEMMA PoolInitial == Init => Pool!PoolInit
BY DEF Init, Pool!PoolInit, poolState, PoolStateOf, HolderPhases

\* The abstract state changes with the phase of one connection only.
LEMMA PoolStateStep ==
    ASSUME TypeOK, NEW c \in Conns, NEW p \in Phases, NEW q \in Phases, Step(c, p, q)
    PROVE  /\ poolState[c] = PoolStateOf(p)
           /\ poolState' = [poolState EXCEPT ![c] = PoolStateOf(q)]
BY DEF TypeOK, Step, poolState

\* Every step of the sessions is a step of the pool or leaves it unchanged.
LEMMA PoolStep == IndInv /\ [Next]_vars => [Pool!PoolNext]_poolState
<1> SUFFICES ASSUME IndInv, [Next]_vars PROVE [Pool!PoolNext]_poolState
  OBVIOUS
<1> USE MaxConcurrentAssumption
<1>0. TypeOK /\ SlotAccounting /\ BelowLimit
  BY DEF IndInv
<1>1. ASSUME NEW c \in Conns,
             \/ AcquireLoad(c) /\ MaxConcurrent = 0
             \/ AcquireCAS(c)
      PROVE  Pool!Acquire(c)
  <2>1. PICK p \in {"load", "cas"} : Step(c, p, "spawned")
    BY <1>1 DEF AcquireLoad, AcquireCAS
  <2>2. poolState[c] = "idle" /\ poolState' = [poolState EXCEPT ![c] = "held"]
    BY <1>0, <2>1, PoolStateStep DEF Phases, PoolStateOf, HolderPhases
  <2>3. MaxConcurrent = 0 \/ Cardinality(Holders) < MaxConcurrent
    BY <1>0, <1>1, HoldersFinite
       DEF AcquireLoad, AcquireCAS, Step, SlotAccounting, BelowLimit, TypeOK
  <2> QED
    BY <2>2, <2>3, PoolHeld, PoolCount DEF Pool!Acquire
<1>2. ASSUME NEW c \in Conns, AcquireLoad(c), MaxConcurrent > 0, active >= MaxConcurrent
      PROVE  Pool!Refuse(c)
  <2>1. Step(c, "load", "refuse")
    BY <1>2 DEF AcquireLoad
  <2>2. poolState[c] = "idle" /\ poolState' = [poolState EXCEPT ![c] = "refused"]
    BY <1>0, <2>1, PoolStateStep DEF Phases, PoolStateOf, HolderPhases
  <2>3. MaxConcurrent > 0 /\ Cardinality(Holders) >= MaxConcurrent
    BY <1>0, <1>2, HoldersFinite DEF AcquireLoad, SlotAccounting
  <2> QED
    BY <2>2, <2>3, PoolHeld, PoolCount DEF Pool!Refuse
<1>3. ASSUME NEW c \in Conns, Release(c) PROVE Pool!Release(c)
  <2>1. poolState[c] = "held" /\ poolState' = [poolState EXCEPT ![c] = "released"]
    BY <1>0, <1>3, PoolStateStep DEF Release, Phases, PoolStateOf, HolderPhases
  <2> QED
    BY <2>1 DEF Pool!Release
<1>4. ASSUME NEW c \in Conns,
             \/ AcquireLoad(c) /\ MaxConcurrent > 0 /\ ~(active >= MaxConcurrent)
             \/ AcquireRetry(c) \/ Detect(c)
      PROVE  UNCHANGED poolState
  <2>1. PICK p \in {"probing", "load", "cas"}, q \in {"load", "cas"} : Step(c, p, q)
    BY <1>4 DEF AcquireLoad, AcquireRetry, Detect
  <2> QED
    BY <1>0, <2>1 DEF TypeOK, Step, poolState, PoolStateOf, HolderPhases
<1>5. ASSUME NEW c \in Conns, Refuse(c) PROVE UNCHANGED poolState
  BY <1>0, <1>5 DEF Refuse, TypeOK, Step, poolState, PoolStateOf, HolderPhases
<1>6. ASSUME NEW c \in Conns,
             \/ Arm(c) \/ Register(c) \/ ServiceReturns(c) \/ CloseConn(c)
             \/ Unregister(c) \/ Cancel(c)
      PROVE  UNCHANGED poolState
  <2>1. PICK p \in HolderPhases, q \in HolderPhases : Step(c, p, q)
    BY <1>6 DEF Arm, Register, ServiceReturns, CloseConn, Unregister, Cancel,
                HolderPhases
  <2> QED
    BY <1>0, <2>1 DEF TypeOK, Step, poolState, PoolStateOf
<1>7. CASE (\E c \in Conns : IdleExpire(c)) \/ CleanupStep \/ UNCHANGED vars
  <2>1. pc' = pc
    BY <1>7 DEF IdleExpire, CleanupStep, CleanupSnapshot, CleanupClose,
                CleanupReturn, vars
  <2> QED
    BY <2>1 DEF poolState
<1> QED
  BY <1>1, <1>2, <1>3, <1>4, <1>5, <1>6, <1>7
     DEF Next, Internal, Terminating, Pool!PoolNext

\* max_concurrent as implemented by the load/CAS loop of acquire() and by
\* release() is a bounded pool: admission and refusal are both exact.
THEOREM SessionsImplementPool == Spec => ImplementsPool
<1>1. Init => Pool!PoolInit
  BY PoolInitial
<1>2. IndInv /\ [Next]_vars => [Pool!PoolNext]_poolState
  BY PoolStep
<1> QED
  BY <1>1, <1>2, InductiveInvariant, PTL DEF Spec, ImplementsPool, Pool!PoolSpec

(***************************************************************************)
(* The idle timer of a session's connection.                               *)
(***************************************************************************)

\* Type correctness is inductive.
LEMMA TimerTypeStep == TimerTypeOK /\ [TimerNext]_timerVars => TimerTypeOK'
<1> SUFFICES ASSUME TimerTypeOK, [TimerNext]_timerVars PROVE TimerTypeOK'
  OBVIOUS
<1> USE TimeoutAssumption, MaxExpiringAssumption DEF TimerTypeOK, Off
<1>1. CASE Tick
  BY <1>1 DEF Tick, Least
<1>2. CASE GoQuiet
  BY <1>2 DEF GoQuiet
<1>3. ASSUME NEW o \in IO, MoveBytes(o) \/ Touch(o) PROVE TimerTypeOK'
  BY <1>3 DEF MoveBytes, Touch
<1>4. CASE TimerFires
  BY <1>4 DEF TimerFires
<1>5. CASE Expire
  <2>1. expiring' \in 0 .. MaxExpiring
    BY <1>5 DEF Expire
  <2>2. CASE closed
    BY <1>5, <2>1, <2>2 DEF Expire
  <2>3. CASE ~closed /\ idle < Timeout
    <3>1. timer' \in 0 .. Timeout + 1
      BY <1>5, <2>3 DEF Expire
    <3> QED
      BY <1>5, <2>1, <2>3, <3>1 DEF Expire
  <2>4. CASE ~closed /\ ~(idle < Timeout)
    <3>1. /\ closed' = TRUE /\ closing' = closing + 1 /\ timer' = timer
          /\ UNCHANGED <<idle, sinceIO, io, closes, quiet>>
      BY <1>5, <2>4 DEF Expire
    <3>2. closing' \in Nat
      BY <3>1
    <3> QED
      BY <2>1, <3>1, <3>2
  <2> QED
    BY <2>2, <2>3, <2>4
<1>6. CASE Close
  <2>1. timer' \in 0 .. Timeout + 1 /\ closing' \in Nat
    BY <1>6 DEF Close
  <2> QED
    BY <1>6, <2>1 DEF Close
<1>7. CASE CloseInner
  BY <1>7 DEF CloseInner
<1>8. CASE UNCHANGED timerVars
  BY <1>8 DEF timerVars
<1> QED
  BY <1>1, <1>2, <1>3, <1>4, <1>5, <1>6, <1>7, <1>8 DEF TimerNext

\* No step loses the timeout: touch and expire set the timer to what is left
\* of it, and a tick takes the same from the timer as it adds to the idle time.
LEMMA PendingStep == TimerTypeOK /\ TimeoutPending /\ [TimerNext]_timerVars => TimeoutPending'
<1> SUFFICES ASSUME TimerTypeOK, TimeoutPending, [TimerNext]_timerVars PROVE TimeoutPending'
  OBVIOUS
<1> USE TimeoutAssumption, MaxExpiringAssumption DEF TimerTypeOK, TimeoutPending, Off
<1>1. CASE Tick
  BY <1>1 DEF Tick, Least
<1>2. CASE GoQuiet
  BY <1>2 DEF GoQuiet
<1>3. ASSUME NEW o \in IO, MoveBytes(o) \/ Touch(o) PROVE TimeoutPending'
  BY <1>3 DEF MoveBytes, Touch
<1>4. CASE TimerFires
  BY <1>4 DEF TimerFires
<1>5. CASE Expire
  BY <1>5 DEF Expire
<1>6. CASE Close \/ CloseInner
  BY <1>6 DEF Close, CloseInner
<1>7. CASE UNCHANGED timerVars
  BY <1>7 DEF timerVars
<1> QED
  BY <1>1, <1>2, <1>3, <1>4, <1>5, <1>6, <1>7 DEF TimerNext

\* Only the one who sets the field closed goes on to close the connection.
LEMMA OnceStep == TimerTypeOK /\ ClosedOnce /\ [TimerNext]_timerVars => ClosedOnce'
<1> SUFFICES ASSUME TimerTypeOK, ClosedOnce, [TimerNext]_timerVars PROVE ClosedOnce'
  OBVIOUS
<1> USE DEF TimerTypeOK, ClosedOnce
<1>1. CASE Tick \/ GoQuiet \/ TimerFires
  BY <1>1 DEF Tick, GoQuiet, TimerFires
<1>2. ASSUME NEW o \in IO, MoveBytes(o) \/ Touch(o) PROVE ClosedOnce'
  BY <1>2 DEF MoveBytes, Touch
<1>3. CASE Expire
  BY <1>3 DEF Expire
<1>4. CASE Close \/ CloseInner
  BY <1>4 DEF Close, CloseInner
<1>5. CASE UNCHANGED timerVars
  BY <1>5 DEF timerVars
<1> QED
  BY <1>1, <1>2, <1>3, <1>4, <1>5 DEF TimerNext

\* The bytes that a touch has accounted for are not younger than lastActivity:
\* either a touch is outstanding, or nothing moved since lastActivity was set.
IdleCoversIO == (\E o \in IO : io[o] = "returned") \/ idle <= sinceIO

\* Every step keeps lastActivity in step with the bytes moved; a touch that
\* finds the connection closed leaves lastActivity behind, which is harmless.
LEMMA CoverStep ==
    TimerTypeOK /\ (closed \/ IdleCoversIO) /\ [TimerNext]_timerVars => (closed \/ IdleCoversIO)'
<1> SUFFICES ASSUME TimerTypeOK, closed \/ IdleCoversIO, [TimerNext]_timerVars
             PROVE  (closed \/ IdleCoversIO)'
  OBVIOUS
<1> USE TimeoutAssumption DEF TimerTypeOK, IdleCoversIO
<1>1. CASE Tick
  BY <1>1 DEF Tick, Least
<1>2. ASSUME NEW o \in IO, MoveBytes(o) PROVE (closed \/ IdleCoversIO)'
  BY <1>2 DEF MoveBytes
<1>3. ASSUME NEW o \in IO, Touch(o) PROVE (closed \/ IdleCoversIO)'
  BY <1>3 DEF Touch
<1>4. CASE GoQuiet \/ TimerFires
  BY <1>4 DEF GoQuiet, TimerFires
<1>5. CASE Expire
  BY <1>5 DEF Expire
<1>6. CASE Close \/ CloseInner
  BY <1>6 DEF Close, CloseInner
<1>7. CASE UNCHANGED timerVars
  BY <1>7 DEF timerVars
<1> QED
  BY <1>1, <1>2, <1>3, <1>4, <1>5, <1>6, <1>7 DEF TimerNext

\* newIdleTimeoutConn establishes all of it.
LEMMA TimerInitHolds ==
    TimerInit => TimerTypeOK /\ TimeoutPending /\ ClosedOnce /\ (closed \/ IdleCoversIO)
<1> SUFFICES ASSUME TimerInit
             PROVE  TimerTypeOK /\ TimeoutPending /\ ClosedOnce /\ (closed \/ IdleCoversIO)
  OBVIOUS
<1> USE TimeoutAssumption, MaxExpiringAssumption DEF TimerInit
<1>1. TimerTypeOK
  <2>1. timer \in 0 .. Off /\ idle \in 0 .. Timeout /\ sinceIO \in 0 .. Timeout
    BY DEF Off
  <2>2. expiring \in 0 .. MaxExpiring /\ closing \in Nat /\ closes \in Nat
    OBVIOUS
  <2> QED
    BY <2>1, <2>2 DEF TimerTypeOK
<1>2. TimeoutPending
  BY DEF TimeoutPending, Off
<1>3. ClosedOnce
  BY DEF ClosedOnce
<1>4. IdleCoversIO
  BY DEF IdleCoversIO
<1> QED
  BY <1>1, <1>2, <1>3, <1>4

\* Type correctness.
THEOREM TimerTypeCorrect == TimerSpec => []TimerTypeOK
BY TimerInitHolds, TimerTypeStep, PTL DEF TimerSpec

\* The idle timeout of an open connection is always pending.
THEOREM TimeoutNeverLost == TimerSpec => []TimeoutPending
BY TimerInitHolds, TimerTypeCorrect, PendingStep, PTL DEF TimerSpec

\* The inner connection is closed at most once.
THEOREM InnerClosedOnce == TimerSpec => []ClosedOnce
BY TimerInitHolds, TimerTypeCorrect, OnceStep, PTL DEF TimerSpec

\* expire closes only a connection that was idle for the whole timeout, or one
\* whose last bytes have their touch still waiting for the lock.
THEOREM ExpiresOnlyIdle == TimerSpec => ExpireOnlyWhenIdle
<1>1. TimerSpec => [](closed \/ IdleCoversIO)
  BY TimerInitHolds, TimerTypeCorrect, CoverStep, PTL DEF TimerSpec
<1>2. TimerTypeOK /\ (closed \/ IdleCoversIO) /\ [TimerNext]_timerVars =>
        [(closed' # closed /\ expiring' < expiring) =>
            sinceIO = Timeout \/ \E o \in IO : io[o] = "returned"]_timerVars
  <2> SUFFICES ASSUME TimerTypeOK, closed \/ IdleCoversIO, [TimerNext]_timerVars,
                      closed' # closed, expiring' < expiring
               PROVE  sinceIO = Timeout \/ \E o \in IO : io[o] = "returned"
    OBVIOUS
  <2>1. CASE Expire
    BY <2>1, TimeoutAssumption DEF Expire, TimerTypeOK, IdleCoversIO
  <2>2. CASE Tick \/ GoQuiet \/ TimerFires \/ Close \/ CloseInner
    BY <2>2, MaxExpiringAssumption
       DEF Tick, GoQuiet, TimerFires, Close, CloseInner, TimerTypeOK
  <2>3. CASE (\E o \in IO : MoveBytes(o) \/ Touch(o)) \/ UNCHANGED timerVars
    BY <2>3 DEF MoveBytes, Touch, timerVars
  <2> QED
    BY <2>1, <2>2, <2>3 DEF TimerNext
<1> QED
  BY <1>1, <1>2, TimerTypeCorrect, PTL DEF TimerSpec, ExpireOnlyWhenIdle

=============================================================================
