---------------------------- MODULE StreamsProofs ---------------------------
(***************************************************************************)
(* Proofs about Streams, for every finite set of streams, every set of     *)
(* sessions and every value of the two limits, 0 ("unlimited") included.   *)
(***************************************************************************)
EXTENDS Streams, FiniteSetTheorems, TLAPS

(***************************************************************************)
(* The inductive invariant.                                                *)
(***************************************************************************)

GlobalPhases == {"open", "listen", "report", "relay", "fail", "relGlobal"}
SessionPhases == GlobalPhases \cup {"load", "cas", "rollback", "relSession"}

\* The global counter is within its limit, and what a stream has loaded explains
\* where it is: below the limit before the compare-and-swap, at it when it was
\* refused; a stream that has not asked has loaded nothing.
Admission ==
    /\ MaxConcurrentStreams > 0 => activeStreams <= MaxConcurrentStreams
    /\ \A s \in Streams :
          /\ pc[s] = "new" => loaded[s] = 0
          /\ pc[s] = "cas" => MaxConcurrentStreams > 0 /\ loaded[s] < MaxConcurrentStreams
          /\ pc[s] = "rollback" => MaxConcurrentStreams > 0 /\ loaded[s] >= MaxConcurrentStreams

\* The limit of a session holds for its streams, also once its entry is gone.
SessionLimit ==
    MaxStreamsPerSession > 0 =>
        \A x \in Sess : Cardinality(SessionHolders(x)) <= MaxStreamsPerSession

\* An open outbound belongs to a stream that is about to answer its peer or
\* whose relay was started, so that closeAll will close it; a stream that is over
\* has closed its inbound.
ConnectionPhases ==
    \A s \in Streams :
        /\ s \in outOpen =>
              \/ pc[s] = "report"
              \/ /\ pc[s] \in {"relay", "relGlobal", "relSession", "closing"}
                 /\ gor[s]["watch"] # "none"
        /\ s \in inOpen => pc[s] \notin {"closed", "refused"}

IndInv ==
    /\ TypeOK
    /\ GlobalAccounting
    /\ SessionAccounting
    /\ Admission
    /\ SessionLimit
    /\ ConnectionPhases

(***************************************************************************)
(* Lemmas about the sets of slot holders.                                  *)
(***************************************************************************)

LEMMA GlobalHoldersDef == GlobalHolders = {s \in Streams : pc[s] \in GlobalPhases}
BY DEF GlobalHolders, GlobalPhases

LEMMA SessionHoldersDef ==
    ASSUME NEW x
    PROVE  SessionHolders(x) = {s \in Streams : SessionOf[s] = x /\ pc[s] \in SessionPhases}
BY DEF SessionHolders, SessionPhases, GlobalPhases

\* Both sets are finite.
LEMMA HoldersFinite ==
    /\ IsFiniteSet(GlobalHolders) /\ Cardinality(GlobalHolders) \in Nat
    /\ \A x : IsFiniteSet(SessionHolders(x)) /\ Cardinality(SessionHolders(x)) \in Nat
<1>1. GlobalHolders \subseteq Streams /\ \A x : SessionHolders(x) \subseteq Streams
  BY DEF GlobalHolders, SessionHolders
<1>2. IsFiniteSet(GlobalHolders) /\ \A x : IsFiniteSet(SessionHolders(x))
  BY <1>1, StreamsAssumption, FS_Subset
<1> QED
  BY <1>2, FS_CardinalityType

\* A stream that moves between two phases of the same kind changes neither set
\* of holders that this kind is about.
LEMMA GlobalSame ==
    ASSUME TypeOK, NEW s \in Streams, NEW p \in Phases, NEW q \in Phases,
           Step(s, p, q), (p \in GlobalPhases) <=> (q \in GlobalPhases)
    PROVE  GlobalHolders' = GlobalHolders
<1>1. GlobalHolders' = {t \in Streams : pc'[t] \in GlobalPhases}
  BY DEF GlobalHolders, GlobalPhases
<1> QED
  BY <1>1, GlobalHoldersDef DEF TypeOK, Step

LEMMA SessionSame ==
    ASSUME TypeOK, NEW s \in Streams, NEW p \in Phases, NEW q \in Phases,
           Step(s, p, q), (p \in SessionPhases) <=> (q \in SessionPhases)
    PROVE  \A x : SessionHolders(x)' = SessionHolders(x)
<1> SUFFICES ASSUME NEW x PROVE SessionHolders(x)' = SessionHolders(x)
  OBVIOUS
<1>1. SessionHolders(x)' = {t \in Streams : SessionOf[t] = x /\ pc'[t] \in SessionPhases}
  BY DEF SessionHolders, SessionPhases, GlobalPhases
<1> QED
  BY <1>1, SessionHoldersDef DEF TypeOK, Step

\* A stream that is admitted by the global limit adds one holder ...
LEMMA GlobalAdd ==
    ASSUME TypeOK, NEW s \in Streams, NEW p \in Phases, NEW q \in Phases,
           Step(s, p, q), p \notin GlobalPhases, q \in GlobalPhases
    PROVE  Cardinality(GlobalHolders') = Cardinality(GlobalHolders) + 1
<1>1. GlobalHolders' = {t \in Streams : pc'[t] \in GlobalPhases}
  BY DEF GlobalHolders, GlobalPhases
<1>2. s \notin GlobalHolders /\ GlobalHolders' = GlobalHolders \cup {s}
  BY <1>1, GlobalHoldersDef DEF TypeOK, Step
<1> QED
  BY <1>2, HoldersFinite, FS_AddElement

\* ... and its release takes one away.
LEMMA GlobalRemove ==
    ASSUME TypeOK, NEW s \in Streams, NEW p \in Phases, NEW q \in Phases,
           Step(s, p, q), p \in GlobalPhases, q \notin GlobalPhases
    PROVE  /\ Cardinality(GlobalHolders') = Cardinality(GlobalHolders) - 1
           /\ Cardinality(GlobalHolders) > 0
<1>1. GlobalHolders' = {t \in Streams : pc'[t] \in GlobalPhases}
  BY DEF GlobalHolders, GlobalPhases
<1>2. s \in GlobalHolders /\ GlobalHolders' = GlobalHolders \ {s}
  BY <1>1, GlobalHoldersDef DEF TypeOK, Step
<1>3. Cardinality(GlobalHolders') = Cardinality(GlobalHolders) - 1
  BY <1>2, HoldersFinite, FS_RemoveElement
<1>4. Cardinality(GlobalHolders) # 0
  BY <1>2, HoldersFinite, FS_EmptySet
<1> QED
  BY <1>3, <1>4, HoldersFinite

\* The same for the streams of a session; those of the others stay as they are.
LEMMA SessionAdd ==
    ASSUME TypeOK, NEW s \in Streams, NEW p \in Phases, NEW q \in Phases,
           Step(s, p, q), p \notin SessionPhases, q \in SessionPhases
    PROVE  /\ Cardinality(SessionHolders(SessionOf[s])') =
                 Cardinality(SessionHolders(SessionOf[s])) + 1
           /\ \A x : x # SessionOf[s] => SessionHolders(x)' = SessionHolders(x)
<1>1. \A x : SessionHolders(x)' = {t \in Streams : SessionOf[t] = x /\ pc'[t] \in SessionPhases}
  BY DEF SessionHolders, SessionPhases, GlobalPhases
<1>2. /\ s \notin SessionHolders(SessionOf[s])
      /\ SessionHolders(SessionOf[s])' = SessionHolders(SessionOf[s]) \cup {s}
  BY <1>1, SessionHoldersDef DEF TypeOK, Step
<1>3. \A x : x # SessionOf[s] => SessionHolders(x)' = SessionHolders(x)
  BY <1>1, SessionHoldersDef DEF TypeOK, Step
<1> QED
  BY <1>2, <1>3, HoldersFinite, FS_AddElement

LEMMA SessionRemove ==
    ASSUME TypeOK, NEW s \in Streams, NEW p \in Phases, NEW q \in Phases,
           Step(s, p, q), p \in SessionPhases, q \notin SessionPhases
    PROVE  /\ Cardinality(SessionHolders(SessionOf[s])') =
                 Cardinality(SessionHolders(SessionOf[s])) - 1
           /\ Cardinality(SessionHolders(SessionOf[s])) > 0
           /\ \A x : x # SessionOf[s] => SessionHolders(x)' = SessionHolders(x)
<1>1. \A x : SessionHolders(x)' = {t \in Streams : SessionOf[t] = x /\ pc'[t] \in SessionPhases}
  BY DEF SessionHolders, SessionPhases, GlobalPhases
<1>2. /\ s \in SessionHolders(SessionOf[s])
      /\ SessionHolders(SessionOf[s])' = SessionHolders(SessionOf[s]) \ {s}
  BY <1>1, SessionHoldersDef DEF TypeOK, Step
<1>3. \A x : x # SessionOf[s] => SessionHolders(x)' = SessionHolders(x)
  BY <1>1, SessionHoldersDef DEF TypeOK, Step
<1>4. Cardinality(SessionHolders(SessionOf[s])') =
         Cardinality(SessionHolders(SessionOf[s])) - 1
  BY <1>2, HoldersFinite, FS_RemoveElement
<1>5. Cardinality(SessionHolders(SessionOf[s])) # 0
  BY <1>2, HoldersFinite, FS_EmptySet
<1> QED
  BY <1>3, <1>4, <1>5, HoldersFinite

(***************************************************************************)
(* The steps, sorted by what they do to the slots.                         *)
(***************************************************************************)

\* Steps of a stream that neither take nor give back a slot.
Quiet(s) ==
    \/ AcquireSession(s) /\ ~SessionAdmits(SessionOf[s])
    \/ AcquireLoad(s) /\ MaxConcurrentStreams > 0
    \/ AcquireCAS(s) /\ activeStreams # loaded[s]
    \/ Refuse(s) \/ Opening(s) \/ ReportOK(s) \/ ReportFails(s)
    \/ WatchCancel(s) \/ WatchDone(s)
    \/ \E g \in Goroutines : CopyEnds(s, g) \/ LeaveClose(s, g)
    \/ Close(s)

\* The stream gets a slot of the global limit.
TakesGlobal(s) ==
    \/ AcquireLoad(s) /\ MaxConcurrentStreams = 0
    \/ AcquireCAS(s) /\ activeStreams = loaded[s]

\* The stream gets a slot of its session.
TakesSession(s) == AcquireSession(s) /\ SessionAdmits(SessionOf[s])

\* The stream gives the slot of its session back.
DropsSession(s) == Rollback(s) \/ ReleaseSession(s)

\* Every step is of one of these kinds.
LEMMA StepKinds ==
    ASSUME [Next]_vars
    PROVE  \/ \E s \in Streams : \/ Quiet(s) \/ TakesGlobal(s) \/ TakesSession(s)
                                 \/ DropsSession(s) \/ ReleaseGlobal(s)
           \/ \E x \in Sess : SessionUnregister(x) \/ SessionCancel(x)
           \/ UNCHANGED vars
<1>1. ASSUME NEW s \in Streams, AcquireLoad(s)
      PROVE  Quiet(s) \/ TakesGlobal(s)
  BY <1>1, LimitsAssumption DEF Quiet, TakesGlobal
<1>2. ASSUME NEW s \in Streams, AcquireCAS(s) \/ AcquireSession(s)
      PROVE  Quiet(s) \/ TakesGlobal(s) \/ TakesSession(s)
  BY <1>2 DEF Quiet, TakesGlobal, TakesSession
<1>3. ASSUME NEW s \in Streams,
             \/ Internal(s) /\ ~AcquireLoad(s) /\ ~AcquireCAS(s)
             \/ Opening(s)
             \/ \E g \in {"up", "down"} : CopyEnds(s, g)
      PROVE  Quiet(s) \/ DropsSession(s) \/ ReleaseGlobal(s)
  BY <1>3 DEF Internal, Quiet, DropsSession, Goroutines
<1> QED
  BY <1>1, <1>2, <1>3 DEF Next, Terminating

\* Where a quiet step leads.
LEMMA QuietMoves ==
    ASSUME TypeOK, NEW s \in Streams, Quiet(s)
    PROVE  /\ \/ pc' = pc
              \/ \E p, q \in Phases :
                    /\ Step(s, p, q)
                    /\ (p \in GlobalPhases) <=> (q \in GlobalPhases)
                    /\ (p \in SessionPhases) <=> (q \in SessionPhases)
           /\ UNCHANGED <<activeStreams, registered, sessStreams, ctxDone>>
<1> USE DEF Phases, GlobalPhases, SessionPhases
<1>1. CASE \/ AcquireSession(s) /\ ~SessionAdmits(SessionOf[s])
           \/ AcquireLoad(s) /\ MaxConcurrentStreams > 0
           \/ AcquireCAS(s) /\ activeStreams # loaded[s]
           \/ Refuse(s)
  BY <1>1, LimitsAssumption DEF AcquireSession, AcquireLoad, AcquireCAS, Refuse
<1>2. CASE Opening(s) \/ ReportOK(s) \/ ReportFails(s) \/ Close(s)
  BY <1>2 DEF Opening, DialOK, DialFails, RequestOK, RequestFails, ListenOK, ListenFails,
              OpenUnchanged, ReportOK, ReportFails, Close
<1>3. ASSUME NEW g \in Goroutines, EnterClose(s, g)
      PROVE  /\ pc' = pc \/ Step(s, "relay", "relGlobal")
             /\ UNCHANGED <<activeStreams, registered, sessStreams, ctxDone>>
  BY <1>3 DEF EnterClose, Step
<1>4. CASE WatchCancel(s) \/ \E g \in Goroutines : CopyEnds(s, g)
  BY <1>3, <1>4 DEF WatchCancel, CopyEnds, Goroutines
<1>5. CASE WatchDone(s) \/ \E g \in Goroutines : LeaveClose(s, g)
  BY <1>5 DEF WatchDone, LeaveClose
<1> QED
  BY <1>1, <1>2, <1>4, <1>5 DEF Quiet

\* A quiet step leaves both sets of holders alone.
LEMMA QuietHolders ==
    ASSUME TypeOK, NEW s \in Streams, Quiet(s)
    PROVE  GlobalHolders' = GlobalHolders /\ \A x : SessionHolders(x)' = SessionHolders(x)
<1>1. CASE pc' = pc
  BY <1>1 DEF GlobalHolders, SessionHolders
<1>2. ASSUME NEW p \in Phases, NEW q \in Phases, Step(s, p, q),
             (p \in GlobalPhases) <=> (q \in GlobalPhases),
             (p \in SessionPhases) <=> (q \in SessionPhases)
      PROVE  GlobalHolders' = GlobalHolders /\ \A x : SessionHolders(x)' = SessionHolders(x)
  BY <1>2, GlobalSame, SessionSame
<1> QED
  BY <1>1, <1>2, QuietMoves

\* What the other kinds of step do to the holders.
LEMMA TakesGlobalHolders ==
    ASSUME TypeOK, NEW s \in Streams, TakesGlobal(s)
    PROVE  /\ Cardinality(GlobalHolders') = Cardinality(GlobalHolders) + 1
           /\ \A x : SessionHolders(x)' = SessionHolders(x)
           /\ UNCHANGED <<registered, sessStreams>>
<1>1. PICK p \in {"load", "cas"} : Step(s, p, "open")
  BY DEF TakesGlobal, AcquireLoad, AcquireCAS
<1>2. UNCHANGED <<registered, sessStreams>>
  BY DEF TakesGlobal, AcquireLoad, AcquireCAS
<1> QED
  BY <1>1, <1>2, GlobalAdd, SessionSame DEF Phases, GlobalPhases, SessionPhases

LEMMA TakesSessionHolders ==
    ASSUME TypeOK, NEW s \in Streams, TakesSession(s)
    PROVE  /\ GlobalHolders' = GlobalHolders
           /\ Cardinality(SessionHolders(SessionOf[s])') =
                 Cardinality(SessionHolders(SessionOf[s])) + 1
           /\ \A x : x # SessionOf[s] => SessionHolders(x)' = SessionHolders(x)
<1>1. Step(s, "new", "load")
  BY DEF TakesSession, AcquireSession
<1> QED
  BY <1>1, GlobalSame, SessionAdd DEF Phases, GlobalPhases, SessionPhases

LEMMA DropsSessionHolders ==
    ASSUME TypeOK, NEW s \in Streams, DropsSession(s)
    PROVE  /\ GlobalHolders' = GlobalHolders
           /\ Cardinality(SessionHolders(SessionOf[s])') =
                 Cardinality(SessionHolders(SessionOf[s])) - 1
           /\ Cardinality(SessionHolders(SessionOf[s])) > 0
           /\ \A x : x # SessionOf[s] => SessionHolders(x)' = SessionHolders(x)
<1>1. \/ Step(s, "rollback", "refuse")
      \/ Step(s, "relSession", "closing")
  BY DEF DropsSession, Rollback, ReleaseSession
<1> QED
  BY <1>1, GlobalSame, SessionRemove DEF Phases, GlobalPhases, SessionPhases

LEMMA ReleaseGlobalHolders ==
    ASSUME TypeOK, NEW s \in Streams, ReleaseGlobal(s)
    PROVE  /\ Cardinality(GlobalHolders') = Cardinality(GlobalHolders) - 1
           /\ Cardinality(GlobalHolders) > 0
           /\ \A x : SessionHolders(x)' = SessionHolders(x)
<1>1. PICK p \in {"relGlobal", "fail"} : Step(s, p, "relSession")
  BY DEF ReleaseGlobal, Step
<1> QED
  BY <1>1, GlobalRemove, SessionSame DEF Phases, GlobalPhases, SessionPhases

(***************************************************************************)
(* The invariant is inductive.                                             *)
(***************************************************************************)

\* Initially no slot is taken and every inbound connection is open.
LEMMA InitIndInv == Init => IndInv
<1> SUFFICES ASSUME Init PROVE IndInv
  OBVIOUS
<1>1. TypeOK
  BY DEF Init, TypeOK, Phases
<1>2. GlobalHolders = {} /\ \A x : SessionHolders(x) = {}
  BY DEF Init, GlobalHolders, SessionHolders
<1>3. GlobalAccounting
  BY <1>2, FS_EmptySet DEF Init, GlobalAccounting
<1>4. SessionAccounting
  BY <1>2, FS_EmptySet DEF Init, SessionAccounting
<1>5. Admission
  BY LimitsAssumption DEF Init, Admission
<1>6. SessionLimit
  BY <1>2, FS_EmptySet, LimitsAssumption DEF SessionLimit
<1>7. ConnectionPhases
  BY DEF Init, ConnectionPhases
<1> QED
  BY <1>1, <1>3, <1>4, <1>5, <1>6, <1>7 DEF IndInv

\* Every step keeps the types: a counter is only decremented by a stream that
\* is counted in it.
LEMMA TypeStep == IndInv /\ [Next]_vars => TypeOK'
<1> SUFFICES ASSUME IndInv, [Next]_vars PROVE TypeOK'
  OBVIOUS
<1>0. TypeOK /\ GlobalAccounting
  BY DEF IndInv
<1> USE StreamsAssumption, LimitsAssumption DEF TypeOK
<1>1. ASSUME NEW s \in Streams, Quiet(s) PROVE TypeOK'
  <2>1. /\ activeStreams' \in Nat /\ registered' \subseteq Sess /\ ctxDone' \subseteq Sess
        /\ sessStreams' \in [Sess -> Nat] /\ pc' \in [Streams -> Phases]
    BY <1>0, <1>1, QuietMoves DEF Step
  <2>2. loaded' \in [Streams -> Nat]
    BY <1>0, <1>1 DEF Quiet, AcquireSession, AcquireLoad, AcquireCAS, Refuse, Opening,
       DialOK, DialFails, RequestOK, RequestFails, ListenOK, ListenFails, OpenUnchanged,
       ReportOK, ReportFails, WatchCancel, WatchDone, CopyEnds, LeaveClose, EnterClose, Close
  <2>3. inOpen' \subseteq Streams /\ outOpen' \subseteq Streams
    BY <1>0, <1>1 DEF Quiet, AcquireSession, AcquireLoad, AcquireCAS, Refuse, Opening,
       DialOK, DialFails, RequestOK, RequestFails, ListenOK, ListenFails, OpenUnchanged,
       ReportOK, ReportFails, WatchCancel, WatchDone, CopyEnds, LeaveClose, EnterClose, Close
  <2>4. ASSUME NEW g \in Goroutines, NEW v \in {"none", "run", "closing", "out"},
               gor' = [gor EXCEPT ![s][g] = v]
        PROVE  gor' \in [Streams -> [Goroutines -> {"none", "run", "closing", "out"}]]
    BY <1>0, <2>4
  <2>5. CASE WatchCancel(s) \/ WatchDone(s) \/ \E g \in Goroutines : CopyEnds(s, g) \/ LeaveClose(s, g)
    <3>1. \E g \in Goroutines, v \in {"none", "run", "closing", "out"} : gor' = [gor EXCEPT ![s][g] = v]
      BY <2>5 DEF WatchCancel, WatchDone, CopyEnds, LeaveClose, EnterClose, Goroutines
    <3> QED
      BY <3>1, <2>4, <2>1, <2>2, <2>3
  <2>6. CASE ReportOK(s)
    BY <1>0, <2>1, <2>2, <2>3, <2>6 DEF ReportOK
  <2>7. CASE UNCHANGED gor
    BY <1>0, <2>1, <2>2, <2>3, <2>7
  <2> QED
    BY <1>1, <2>5, <2>6, <2>7
       DEF Quiet, AcquireSession, AcquireLoad, AcquireCAS, Refuse, Opening,
       DialOK, DialFails, RequestOK, RequestFails, ListenOK, ListenFails, OpenUnchanged,
       ReportFails, Close
<1>2. ASSUME NEW s \in Streams, TakesGlobal(s) PROVE TypeOK'
  BY <1>0, <1>2 DEF TakesGlobal, AcquireLoad, AcquireCAS, Step, Phases
<1>3. ASSUME NEW s \in Streams, TakesSession(s) PROVE TypeOK'
  BY <1>0, <1>3 DEF TakesSession, AcquireSession, Step, Phases
<1>4. ASSUME NEW s \in Streams, DropsSession(s) PROVE TypeOK'
  <2>1. sessStreams' \in [Sess -> Nat]
    BY <1>0, <1>4 DEF DropsSession, Rollback, ReleaseSession, DropSessionSlot
  <2> QED
    BY <1>0, <1>4, <2>1 DEF DropsSession, Rollback, ReleaseSession, Step, Phases
<1>5. ASSUME NEW s \in Streams, ReleaseGlobal(s) PROVE TypeOK'
  <2>0. Cardinality(GlobalHolders) \in Nat /\ Cardinality(GlobalHolders) > 0
    BY <1>0, <1>5, ReleaseGlobalHolders, HoldersFinite
  <2>1. activeStreams' \in Nat
    BY <1>0, <1>5, <2>0 DEF ReleaseGlobal, GlobalAccounting
  <2> QED
    BY <1>0, <1>5, <2>1 DEF ReleaseGlobal, Phases
<1>6. ASSUME NEW x \in Sess, SessionUnregister(x) \/ SessionCancel(x) PROVE TypeOK'
  BY <1>0, <1>6 DEF SessionUnregister, SessionCancel
<1>7. CASE UNCHANGED vars
  BY <1>0, <1>7 DEF vars
<1> QED
  BY <1>1, <1>2, <1>3, <1>4, <1>5, <1>6, <1>7, StepKinds

\* Every step keeps lw.activeStreams the number of streams that hold a slot of
\* the global limit.
LEMMA GlobalStep == IndInv /\ [Next]_vars => GlobalAccounting'
<1> SUFFICES ASSUME IndInv, [Next]_vars PROVE GlobalAccounting'
  OBVIOUS
<1>0. TypeOK /\ GlobalAccounting /\ Admission
  BY DEF IndInv
<1> USE LimitsAssumption, HoldersFinite DEF GlobalAccounting
<1>1. ASSUME NEW s \in Streams, Quiet(s) PROVE GlobalAccounting'
  BY <1>0, <1>1, QuietMoves, QuietHolders
<1>2. ASSUME NEW s \in Streams, TakesGlobal(s) PROVE GlobalAccounting'
  <2>1. Cardinality(GlobalHolders') = Cardinality(GlobalHolders) + 1
    BY <1>0, <1>2, TakesGlobalHolders
  <2>2. CASE MaxConcurrentStreams = 0
    <3>1. pc[s] # "cas"
      BY <1>0, <2>2 DEF Admission
    <3> QED
      BY <1>0, <1>2, <2>2, <3>1 DEF TakesGlobal, AcquireLoad, AcquireCAS, Step
  <2>3. CASE MaxConcurrentStreams > 0
    BY <1>0, <1>2, <2>1, <2>3 DEF TakesGlobal, AcquireCAS
  <2> QED
    BY <2>2, <2>3
<1>3. ASSUME NEW s \in Streams, TakesSession(s) PROVE GlobalAccounting'
  BY <1>0, <1>3, TakesSessionHolders DEF TakesSession, AcquireSession
<1>4. ASSUME NEW s \in Streams, DropsSession(s) PROVE GlobalAccounting'
  BY <1>0, <1>4, DropsSessionHolders DEF DropsSession, Rollback, ReleaseSession
<1>5. ASSUME NEW s \in Streams, ReleaseGlobal(s) PROVE GlobalAccounting'
  <2>1. Cardinality(GlobalHolders') = Cardinality(GlobalHolders) - 1
    BY <1>0, <1>5, ReleaseGlobalHolders
  <2> QED
    BY <1>0, <1>5, <2>1 DEF ReleaseGlobal
<1>6. CASE UNCHANGED <<pc, activeStreams>>
  BY <1>0, <1>6 DEF GlobalHolders
<1> QED
  BY <1>1, <1>2, <1>3, <1>4, <1>5, <1>6, StepKinds DEF SessionUnregister, SessionCancel, vars

\* Every step keeps the counter of a registered session the number of its
\* streams that hold a slot; an entry that disappears takes its counter along,
\* and a stream that outlives it finds no entry to decrement.
LEMMA SessionStep == IndInv /\ [Next]_vars => SessionAccounting'
<1> SUFFICES ASSUME IndInv, [Next]_vars PROVE SessionAccounting'
  OBVIOUS
<1>0. TypeOK /\ SessionAccounting
  BY DEF IndInv
<1> USE StreamsAssumption, HoldersFinite DEF SessionAccounting, TypeOK
<1>1. ASSUME NEW s \in Streams, Quiet(s) PROVE SessionAccounting'
  BY <1>0, <1>1, QuietMoves, QuietHolders
<1>2. ASSUME NEW s \in Streams, TakesGlobal(s) PROVE SessionAccounting'
  BY <1>0, <1>2, TakesGlobalHolders
<1>3. ASSUME NEW s \in Streams, TakesSession(s) PROVE SessionAccounting'
  <2>1. /\ sessStreams' = [sessStreams EXCEPT ![SessionOf[s]] = @ + 1]
        /\ registered' = registered
    BY <1>3 DEF TakesSession, AcquireSession
  <2>2. SessionOf[s] \in Sess
    BY <1>0
  <2> QED
    BY <1>0, <1>3, <2>1, <2>2, TakesSessionHolders
<1>4. ASSUME NEW s \in Streams, DropsSession(s) PROVE SessionAccounting'
  <2>1. /\ sessStreams' = [sessStreams EXCEPT ![SessionOf[s]] =
                              IF SessionOf[s] \in registered /\ @ > 0 THEN @ - 1 ELSE @]
        /\ registered' = registered
    BY <1>4 DEF DropsSession, Rollback, ReleaseSession, DropSessionSlot
  <2>2. SessionOf[s] \in Sess
    BY <1>0
  <2> QED
    BY <1>0, <1>4, <2>1, <2>2, DropsSessionHolders
<1>5. ASSUME NEW s \in Streams, ReleaseGlobal(s) PROVE SessionAccounting'
  BY <1>0, <1>5, ReleaseGlobalHolders DEF ReleaseGlobal
<1>6. ASSUME NEW x \in Sess, SessionUnregister(x) PROVE SessionAccounting'
  BY <1>0, <1>6 DEF SessionUnregister, SessionHolders
<1>7. CASE UNCHANGED <<pc, registered, sessStreams>>
  BY <1>0, <1>7 DEF SessionHolders
<1> QED
  BY <1>1, <1>2, <1>3, <1>4, <1>5, <1>6, <1>7, StepKinds DEF SessionCancel, vars

\* Every step keeps the streams of a session within its limit.
LEMMA SessionLimitStep == IndInv /\ [Next]_vars => SessionLimit'
<1> SUFFICES ASSUME IndInv, [Next]_vars, MaxStreamsPerSession > 0, NEW x \in Sess
             PROVE  Cardinality(SessionHolders(x)') <= MaxStreamsPerSession
  BY DEF SessionLimit
<1>0. TypeOK /\ SessionAccounting /\ Cardinality(SessionHolders(x)) <= MaxStreamsPerSession
  BY DEF IndInv, SessionLimit
<1> USE LimitsAssumption, HoldersFinite
<1>1. ASSUME NEW s \in Streams, TakesSession(s)
      PROVE  Cardinality(SessionHolders(x)') <= MaxStreamsPerSession
  <2>1. /\ SessionOf[s] \in registered
        /\ sessStreams[SessionOf[s]] < MaxStreamsPerSession
    BY <1>1 DEF TakesSession, SessionAdmits
  <2>2. Cardinality(SessionHolders(SessionOf[s])) < MaxStreamsPerSession
    BY <1>0, <2>1 DEF SessionAccounting
  <2> QED
    BY <1>0, <1>1, <2>2, TakesSessionHolders
<1>2. ASSUME NEW s \in Streams, DropsSession(s)
      PROVE  Cardinality(SessionHolders(x)') <= MaxStreamsPerSession
  BY <1>0, <1>2, DropsSessionHolders
<1>3. ASSUME NEW s \in Streams, Quiet(s) \/ TakesGlobal(s) \/ ReleaseGlobal(s)
      PROVE  Cardinality(SessionHolders(x)') <= MaxStreamsPerSession
  BY <1>0, <1>3, QuietHolders, TakesGlobalHolders, ReleaseGlobalHolders
<1>4. CASE UNCHANGED pc
  BY <1>0, <1>4 DEF SessionHolders
<1> QED
  BY <1>1, <1>2, <1>3, <1>4, StepKinds DEF SessionUnregister, SessionCancel, vars

\* Every step keeps the global counter within its limit: the compare-and-swap
\* succeeds only if the counter still has the value found to be below it.
LEMMA AdmissionStep == IndInv /\ [Next]_vars => Admission'
<1> SUFFICES ASSUME IndInv, [Next]_vars PROVE Admission'
  OBVIOUS
<1>0. TypeOK /\ Admission
  BY DEF IndInv
<1> USE LimitsAssumption DEF Admission, TypeOK, Step
<1>1. ASSUME NEW s \in Streams, AcquireLoad(s) PROVE Admission'
  BY <1>0, <1>1 DEF AcquireLoad
<1>2. ASSUME NEW s \in Streams, AcquireCAS(s) PROVE Admission'
  BY <1>0, <1>2 DEF AcquireCAS
<1>3. ASSUME NEW s \in Streams, ReleaseGlobal(s) PROVE Admission'
  BY <1>0, <1>3 DEF ReleaseGlobal
<1>4. ASSUME NEW s \in Streams, UNCHANGED <<activeStreams, loaded>>,
             \/ UNCHANGED pc
             \/ \E q \in Phases \ {"new", "cas", "rollback"} : pc' = [pc EXCEPT ![s] = q]
      PROVE  Admission'
  BY <1>0, <1>4
<1>5. ASSUME NEW s \in Streams, AcquireSession(s) \/ Rollback(s) \/ Refuse(s) \/ Opening(s)
      PROVE  Admission'
  BY <1>4, <1>5 DEF AcquireSession, Rollback, Refuse, Opening, DialOK, DialFails, RequestOK,
     RequestFails, ListenOK, ListenFails, OpenUnchanged, Phases
<1>6. ASSUME NEW s \in Streams,
             \/ ReportOK(s) \/ ReportFails(s) \/ WatchCancel(s) \/ WatchDone(s)
             \/ \E g \in Goroutines : CopyEnds(s, g) \/ LeaveClose(s, g)
             \/ ReleaseSession(s) \/ Close(s)
      PROVE  Admission'
  <2>1. /\ UNCHANGED <<activeStreams, loaded>>
        /\ \/ UNCHANGED pc
           \/ \E q \in Phases \ {"new", "cas", "rollback"} : pc' = [pc EXCEPT ![s] = q]
    BY <1>6 DEF ReportOK, ReportFails, WatchCancel, WatchDone, CopyEnds, LeaveClose,
       EnterClose, ReleaseSession, Close, Phases
  <2> QED
    BY <1>4, <2>1
<1>7. CASE UNCHANGED <<pc, activeStreams, loaded>>
  BY <1>0, <1>7
<1> QED
  BY <1>1, <1>2, <1>3, <1>5, <1>6, <1>7
     DEF Next, Internal, Goroutines, Terminating, SessionUnregister, SessionCancel, vars

\* Every step keeps an open outbound in the hands of somebody who closes it.
LEMMA ConnectionStep == IndInv /\ [Next]_vars => ConnectionPhases'
<1> SUFFICES ASSUME IndInv, [Next]_vars PROVE ConnectionPhases'
  OBVIOUS
<1>0. TypeOK /\ ConnectionPhases
  BY DEF IndInv
<1> USE DEF ConnectionPhases, TypeOK, Step
<1>1. ASSUME NEW s \in Streams, DialOK(s) \/ ListenOK(s) PROVE ConnectionPhases'
  BY <1>0, <1>1 DEF DialOK, ListenOK, OpenUnchanged
<1>2. ASSUME NEW s \in Streams, ReportOK(s) PROVE ConnectionPhases'
  <2>1. gor'[s]["watch"] = "run" /\ \A t \in Streams \ {s} : gor'[t] = gor[t]
    BY <1>0, <1>2 DEF ReportOK, Goroutines
  <2> QED
    BY <1>0, <1>2, <2>1 DEF ReportOK
<1>3. ASSUME NEW s \in Streams, ReportFails(s) PROVE ConnectionPhases'
  BY <1>0, <1>3 DEF ReportFails
<1>4. ASSUME NEW s \in Streams, NEW g \in Goroutines, NEW v \in {"closing", "out"},
             gor' = [gor EXCEPT ![s][g] = v], UNCHANGED <<inOpen, outOpen>>,
             \/ UNCHANGED pc
             \/ pc[s] = "relay" /\ pc' = [pc EXCEPT ![s] = "relGlobal"]
      PROVE  ConnectionPhases'
  <2>1. \A t \in Streams : gor[t]["watch"] # "none" => gor'[t]["watch"] # "none"
    BY <1>0, <1>4 DEF Goroutines
  <2> QED
    BY <1>0, <1>4, <2>1
<1>5. ASSUME NEW s \in Streams,
             \/ WatchCancel(s) \/ WatchDone(s)
             \/ \E g \in Goroutines : CopyEnds(s, g) \/ LeaveClose(s, g)
      PROVE  ConnectionPhases'
  <2>1. \E g \in Goroutines, v \in {"closing", "out"} :
           /\ gor' = [gor EXCEPT ![s][g] = v] /\ UNCHANGED <<inOpen, outOpen>>
           /\ \/ UNCHANGED pc
              \/ pc[s] = "relay" /\ pc' = [pc EXCEPT ![s] = "relGlobal"]
    BY <1>5 DEF WatchCancel, WatchDone, CopyEnds, LeaveClose, EnterClose, Goroutines
  <2> QED
    BY <1>4, <2>1
<1>6. ASSUME NEW s \in Streams, Close(s) PROVE ConnectionPhases'
  BY <1>0, <1>6 DEF Close
<1>7. ASSUME NEW s \in Streams, Refuse(s) PROVE ConnectionPhases'
  BY <1>0, <1>7 DEF Refuse
<1>8. ASSUME NEW s \in Streams, ReleaseGlobal(s) \/ ReleaseSession(s) PROVE ConnectionPhases'
  BY <1>0, <1>8 DEF ReleaseGlobal, ReleaseSession
<1>9. ASSUME NEW s \in Streams,
             \/ AcquireSession(s) \/ AcquireLoad(s) \/ AcquireCAS(s) \/ Rollback(s)
             \/ DialFails(s) \/ RequestOK(s) \/ RequestFails(s) \/ ListenFails(s)
      PROVE  ConnectionPhases'
  <2>1. PICK p \in {"new", "load", "cas", "rollback", "open", "listen"},
             q \in Phases \ {"closed", "refused"} : Step(s, p, q)
    BY <1>9 DEF AcquireSession, AcquireLoad, AcquireCAS, Rollback, DialFails, RequestOK,
                RequestFails, ListenFails, Phases
  <2>2. UNCHANGED <<inOpen, outOpen, gor>>
    BY <1>9 DEF AcquireSession, AcquireLoad, AcquireCAS, Rollback, DialFails, RequestOK,
                RequestFails, ListenFails, OpenUnchanged
  <2> QED
    BY <1>0, <2>1, <2>2
<1>10. CASE UNCHANGED <<pc, inOpen, outOpen, gor>>
  BY <1>0, <1>10
<1> QED
  BY <1>1, <1>2, <1>3, <1>5, <1>6, <1>7, <1>8, <1>9, <1>10
     DEF Next, Internal, Opening, Goroutines, Terminating, SessionUnregister, SessionCancel, vars

(***************************************************************************)
(* The theorems.                                                           *)
(***************************************************************************)

\* The inductive invariant holds in every reachable state.
THEOREM InductiveInvariant == Spec => []IndInv
<1>1. Init => IndInv
  BY InitIndInv
<1>2. IndInv /\ [Next]_vars => IndInv'
  BY TypeStep, GlobalStep, SessionStep, AdmissionStep, SessionLimitStep, ConnectionStep
     DEF IndInv
<1> QED
  BY <1>1, <1>2, PTL DEF Spec

\* The slots of both limits are exact and within their limits, whichever
\* goroutine releases and whenever a session's entry disappears.
THEOREM SlotsExact == Spec => []StreamSlots
<1>1. IndInv => StreamSlots
  <2> SUFFICES ASSUME IndInv PROVE StreamSlots
    OBVIOUS
  <2>1. MaxConcurrentStreams > 0 => Cardinality(GlobalHolders) <= MaxConcurrentStreams
    BY LimitsAssumption DEF IndInv, GlobalAccounting, Admission
  <2> QED
    BY <2>1 DEF IndInv, StreamSlots, StreamLimits, SessionLimit
<1> QED
  BY <1>1, InductiveInvariant, PTL

\* A stream that is over, on whatever path, has closed both its connections.
THEOREM NothingLeaks == Spec => []NoConnectionLeak
<1>1. IndInv => NoConnectionLeak
  BY DEF IndInv, ConnectionPhases, NoConnectionLeak
<1> QED
  BY <1>1, InductiveInvariant, PTL

(***************************************************************************)
(* The global limit implements BoundedPool.                                *)
(***************************************************************************)

poolState == [s \in Streams |-> PoolState(s)]

\* The instance counts as FiniteSets does, and the abstract set of places taken
\* is the set of holders of the global limit.
LEMMA PoolHeld ==
    /\ StreamPool!Held = GlobalHolders
    /\ StreamPool!Cardinality(GlobalHolders) = Cardinality(GlobalHolders)
<1>1. \A s \in Streams : (PoolState(s) = "held") <=> (s \in GlobalHolders)
  BY DEF PoolState
<1>2. StreamPool!Held = GlobalHolders
  BY <1>1 DEF StreamPool!Held, GlobalHolders
<1>3. StreamPool!Cardinality(GlobalHolders) = Cardinality(GlobalHolders)
  BY DEF StreamPool!Cardinality, Cardinality, StreamPool!IsFiniteSet, IsFiniteSet
<1> QED
  BY <1>2, <1>3

\* What the pool sees of a stream, in terms of its phase and what it loaded.
PoolStateOf(p, n) ==
    IF p \in GlobalPhases THEN "held"
    ELSE IF p \in {"relSession", "closing", "closed"} THEN "released"
    ELSE IF /\ p \in {"rollback", "refuse", "refused"}
            /\ MaxConcurrentStreams > 0 /\ n >= MaxConcurrentStreams
         THEN "refused"
    ELSE "idle"

LEMMA PoolStateDef ==
    /\ poolState = [s \in Streams |-> PoolStateOf(pc[s], loaded[s])]
    /\ poolState' = [s \in Streams |-> PoolStateOf(pc'[s], loaded'[s])]
BY DEF poolState, PoolState, PoolStateOf, GlobalHolders, GlobalPhases

\* A step of stream s that does not change what it loaded.
LEMMA PoolStateStep ==
    ASSUME TypeOK, NEW s \in Streams, NEW p \in Phases, NEW q \in Phases, Step(s, p, q),
           UNCHANGED loaded
    PROVE  /\ poolState[s] = PoolStateOf(p, loaded[s])
           /\ poolState' = [poolState EXCEPT ![s] = PoolStateOf(q, loaded[s])]
BY PoolStateDef DEF TypeOK, Step

\* Every step of the streams is a step of the pool or leaves it unchanged: the
\* compare-and-swap admits, a load that finds the limit reached refuses,
\* releaseStream releases, and nothing else is visible.
LEMMA PoolStep == IndInv /\ [Next]_vars => [StreamPool!PoolNext]_poolState
<1> SUFFICES ASSUME IndInv, [Next]_vars PROVE [StreamPool!PoolNext]_poolState
  OBVIOUS
<1> USE LimitsAssumption
<1>0. TypeOK /\ GlobalAccounting /\ Admission
  BY DEF IndInv
<1>1. ASSUME NEW s \in Streams, TakesGlobal(s) PROVE StreamPool!Acquire(s)
  <2>1. PICK p \in {"load", "cas"} : Step(s, p, "open")
    BY <1>1 DEF TakesGlobal, AcquireLoad, AcquireCAS
  <2>2. UNCHANGED loaded
    BY <1>0, <1>1 DEF TakesGlobal, AcquireLoad, AcquireCAS, TypeOK
  <2>3. poolState[s] = "idle" /\ poolState' = [poolState EXCEPT ![s] = "held"]
    BY <1>0, <2>1, <2>2, PoolStateStep DEF Phases, PoolStateOf, GlobalPhases
  <2>4. MaxConcurrentStreams = 0 \/ Cardinality(GlobalHolders) < MaxConcurrentStreams
    BY <1>0, <1>1, HoldersFinite
       DEF TakesGlobal, AcquireLoad, AcquireCAS, Step, GlobalAccounting, Admission, TypeOK
  <2> QED
    BY <2>3, <2>4, PoolHeld DEF StreamPool!Acquire, poolState
<1>2. ASSUME NEW s \in Streams, AcquireLoad(s), MaxConcurrentStreams > 0,
             activeStreams >= MaxConcurrentStreams
      PROVE  StreamPool!Refuse(s)
  <2>0. MaxConcurrentStreams # 0
    BY <1>2
  <2>1. Step(s, "load", "rollback") /\ loaded' = [loaded EXCEPT ![s] = activeStreams]
    BY <1>2, <2>0 DEF AcquireLoad, Step
  <2>2. poolState[s] = "idle" /\ poolState' = [poolState EXCEPT ![s] = "refused"]
    BY <1>0, <1>2, <2>1, PoolStateDef DEF TypeOK, Step, PoolStateOf, GlobalPhases
  <2>3. Cardinality(GlobalHolders) >= MaxConcurrentStreams
    BY <1>0, <1>2, HoldersFinite DEF GlobalAccounting
  <2> QED
    BY <1>2, <2>2, <2>3, PoolHeld DEF StreamPool!Refuse, poolState
<1>3. ASSUME NEW s \in Streams, ReleaseGlobal(s) PROVE StreamPool!Release(s)
  <2>1. PICK p \in {"relGlobal", "fail"} : Step(s, p, "relSession")
    BY <1>3 DEF ReleaseGlobal, Step
  <2>2. poolState[s] = "held" /\ poolState' = [poolState EXCEPT ![s] = "released"]
    BY <1>0, <1>3, <2>1, PoolStateStep DEF ReleaseGlobal, Phases, PoolStateOf, GlobalPhases
  <2> QED
    BY <2>2 DEF StreamPool!Release, poolState
<1>4. ASSUME NEW s \in Streams, AcquireLoad(s), MaxConcurrentStreams > 0,
             ~(activeStreams >= MaxConcurrentStreams)
      PROVE  UNCHANGED poolState
  <2>1. Step(s, "load", "cas") /\ \A t \in Streams \ {s} : loaded'[t] = loaded[t]
    BY <1>0, <1>4 DEF AcquireLoad, TypeOK
  <2> QED
    BY <1>0, <2>1, PoolStateDef DEF TypeOK, Step, PoolStateOf, GlobalPhases
<1>5. ASSUME NEW s \in Streams, AcquireSession(s) PROVE UNCHANGED poolState
  <2>1. PICK q \in {"load", "refuse"} : Step(s, "new", q)
    BY <1>5 DEF AcquireSession
  <2>2. UNCHANGED loaded /\ loaded[s] = 0
    BY <1>0, <1>5, <2>1 DEF AcquireSession, Admission, Step
  <2> QED
    BY <1>0, <2>1, <2>2, PoolStateDef DEF TypeOK, Step, PoolStateOf, GlobalPhases
<1>6. ASSUME NEW s \in Streams, UNCHANGED loaded,
             \/ UNCHANGED pc
             \/ \E p, q \in GlobalPhases : Step(s, p, q)
             \/ \E p, q \in {"relSession", "closing", "closed"} : Step(s, p, q)
             \/ \E p, q \in {"rollback", "refuse", "refused"} : Step(s, p, q)
             \/ \E p, q \in {"load", "cas"} : Step(s, p, q)
      PROVE  UNCHANGED poolState
  BY <1>0, <1>6, PoolStateDef DEF TypeOK, Step, PoolStateOf, GlobalPhases
<1>7. ASSUME NEW s \in Streams,
             \/ AcquireCAS(s) /\ activeStreams # loaded[s]
             \/ Rollback(s) \/ Refuse(s) \/ ReleaseSession(s) \/ Close(s)
      PROVE  UNCHANGED poolState
  BY <1>6, <1>7 DEF AcquireCAS, Rollback, Refuse, ReleaseSession, Close
<1>8. ASSUME NEW s \in Streams, Opening(s) \/ ReportOK(s) \/ ReportFails(s)
      PROVE  UNCHANGED poolState
  <2>1. UNCHANGED loaded /\ \E p, q \in GlobalPhases : Step(s, p, q)
    BY <1>8 DEF Opening, DialOK, DialFails, RequestOK, RequestFails, ListenOK, ListenFails,
       OpenUnchanged, ReportOK, ReportFails, GlobalPhases
  <2> QED
    BY <1>6, <2>1
<1>9. ASSUME NEW s \in Streams,
             \/ WatchCancel(s) \/ WatchDone(s)
             \/ \E g \in Goroutines : CopyEnds(s, g) \/ LeaveClose(s, g)
      PROVE  UNCHANGED poolState
  <2>1. UNCHANGED loaded /\ (UNCHANGED pc \/ Step(s, "relay", "relGlobal"))
    BY <1>9 DEF WatchCancel, WatchDone, CopyEnds, LeaveClose, EnterClose, Step
  <2> QED
    BY <1>6, <2>1 DEF GlobalPhases
<1>10. CASE UNCHANGED <<pc, loaded>>
  BY <1>10, PoolStateDef
<1>11. ASSUME NEW s \in Streams, AcquireLoad(s) \/ AcquireCAS(s)
       PROVE  \/ StreamPool!Acquire(s) \/ StreamPool!Refuse(s) \/ UNCHANGED poolState
  BY <1>1, <1>2, <1>4, <1>7, <1>11, <1>0 DEF TakesGlobal, TypeOK
<1> QED
  BY <1>3, <1>5, <1>7, <1>8, <1>9, <1>10, <1>11
     DEF Next, Internal, Goroutines, Terminating, SessionUnregister, SessionCancel, vars,
         StreamPool!PoolNext

\* max_concurrent_streams as implemented by acquireStream and releaseStream is
\* a bounded pool: admission and refusal are both exact.
THEOREM StreamsImplementPool == Spec => ImplementsStreamPool
<1>1. Init => StreamPool!PoolInit
  <2> SUFFICES ASSUME Init PROVE StreamPool!PoolInit
    OBVIOUS
  <2>1. \A s \in Streams : PoolState(s) = "idle"
    BY DEF Init, PoolState, GlobalHolders
  <2> QED
    BY <2>1 DEF StreamPool!PoolInit
<1>2. IndInv /\ [Next]_vars => [StreamPool!PoolNext]_poolState
  BY PoolStep
<1> QED
  BY <1>1, <1>2, InductiveInvariant, PTL
     DEF Spec, ImplementsStreamPool, StreamPool!PoolSpec, poolState

=============================================================================
