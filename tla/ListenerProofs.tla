--------------------------- MODULE ListenerProofs ---------------------------
(***************************************************************************)
(* Proofs about Listener, for every finite set of connections, every       *)
(* max_pending_probes and every choice of the options.                     *)
(***************************************************************************)
EXTENDS Listener, FiniteSetTheorems, TLAPS

\* A connection that is still queued has no goroutine: what makes the slot
\* accounting inductive, since accepting it adds a new holder.
QueuedHoldNothing == \A c \in Conns : phase[c] = "queued" => c \notin holding

\* done and the terminal error are set together, and Accept() has only ever
\* returned that error.
StoppedForAReason ==
    /\ done <=> terminalErr # "none"
    /\ accepter \in Errors => accepter = terminalErr

\* The inductive invariant.
IndInv == SlotAccounting /\ QueuedHoldNothing /\ StoppedForAReason /\ ShadowTracksWebsite

\* The goroutines that hold a slot are finitely many.
LEMMA HoldingFinite ==
    ASSUME TypeOK
    PROVE  IsFiniteSet(holding) /\ Cardinality(holding) \in Nat
BY ConnsAssumption, FS_Subset, FS_CardinalityType DEF TypeOK

\* A goroutine that is started, or ends, changes their number by one.
LEMMA HoldingAdd ==
    ASSUME TypeOK, NEW c \in Conns, c \notin holding
    PROVE  Cardinality(holding \cup {c}) = Cardinality(holding) + 1
BY HoldingFinite, FS_AddElement

LEMMA HoldingRemove ==
    ASSUME TypeOK, NEW c \in holding
    PROVE  /\ Cardinality(holding \ {c}) = Cardinality(holding) - 1
           /\ Cardinality(holding) > 0
<1>1. Cardinality(holding \ {c}) = Cardinality(holding) - 1
  BY HoldingFinite, FS_RemoveElement
<1>2. Cardinality(holding) # 0
  BY HoldingFinite, FS_EmptySet
<1> QED
  BY <1>1, <1>2, HoldingFinite

\* Initially no slot is taken and nothing is stopped.
LEMMA InitIndInv == Init => IndInv
<1> SUFFICES ASSUME Init PROVE IndInv
  OBVIOUS
<1>0. slots \in 0 .. MaxPending
  BY MaxPendingAssumption DEF Init
<1>1. TypeOK
  BY <1>0 DEF Init, TypeOK, Phases
<1>2. SlotAccounting
  BY <1>1, FS_EmptySet DEF Init, SlotAccounting, Undecided
<1>3. QueuedHoldNothing /\ ShadowTracksWebsite
  BY ConnsAssumption DEF Init, QueuedHoldNothing, ShadowTracksWebsite
<1>4. StoppedForAReason
  BY DEF Init, StoppedForAReason, Errors
<1> QED
  BY <1>2, <1>3, <1>4 DEF IndInv

\* The steps of one connection that neither take nor return a slot.
Routing(c) ==
    \/ Probing(c) \/ Prepare(c) \/ Admitted(c) \/ Refused(c) \/ DropOnDone(c)
    \/ WebsiteClosed(c)

\* Every step keeps the tokens of probeSlots equal to the goroutines at work
\* plus the accept loop's own: it hands its token to the goroutine it starts, or
\* gives it back on an error.
LEMMA SlotStep == IndInv /\ [Next]_vars => SlotAccounting'
<1> SUFFICES ASSUME IndInv, [Next]_vars PROVE SlotAccounting'
  OBVIOUS
<1> USE MaxPendingAssumption DEF TypeOK, Errors
<1>0. TypeOK /\ SlotAccounting /\ QueuedHoldNothing
  BY DEF IndInv, SlotAccounting
<1>f. Cardinality(holding) \in Nat
  BY <1>0, HoldingFinite
<1>1. ASSUME NEW c \in Conns, ListenerAccept(c) PROVE SlotAccounting'
  <2>1. c \notin holding
    BY <1>0, <1>1 DEF ListenerAccept, Move, QueuedHoldNothing
  <2>2. Cardinality(holding') = Cardinality(holding) + 1
    BY <1>0, <1>1, <2>1, HoldingAdd DEF ListenerAccept
  <2>3. TypeOK'
    BY <1>0, <1>1 DEF ListenerAccept, Move, Phases
  <2>4. slots' = Cardinality(holding') + (IF loop' = "accept" THEN 1 ELSE 0)
    BY <1>0, <1>1, <1>f, <2>2 DEF ListenerAccept, SlotAccounting
  <2>5. {d \in Conns : phase'[d] \in Undecided} \subseteq holding'
    BY <1>0, <1>1 DEF ListenerAccept, Move, SlotAccounting
  <2> QED
    BY <2>3, <2>4, <2>5 DEF SlotAccounting
<1>2. ASSUME NEW c \in Conns, ReleaseSlot(c) PROVE SlotAccounting'
  <2>1. Cardinality(holding') = Cardinality(holding) - 1 /\ Cardinality(holding) > 0
    BY <1>0, <1>2, HoldingRemove DEF ReleaseSlot
  <2>2. TypeOK'
    BY <1>0, <1>2, <1>f, <2>1 DEF ReleaseSlot, SlotAccounting
  <2>3. slots' = Cardinality(holding') + (IF loop' = "accept" THEN 1 ELSE 0)
    BY <1>0, <1>2, <1>f, <2>1 DEF ReleaseSlot, SlotAccounting
  <2>4. {d \in Conns : phase'[d] \in Undecided} \subseteq holding'
    BY <1>0, <1>2 DEF ReleaseSlot, SlotAccounting
  <2> QED
    BY <2>2, <2>3, <2>4 DEF SlotAccounting
<1>3. ASSUME NEW c \in Conns, Routing(c) \/ HandOver(c) PROVE SlotAccounting'
  <2>1. /\ UNCHANGED <<holding, slots, loop, done, terminalErr, lnOpen, closer>>
        /\ accepter' \in {"out", "in"} \cup Errors
    BY <1>0, <1>3 DEF Routing, Probing, HandshakeOK, HandshakeFails, RouteWebsite,
       RouteProbeError, RouteReject, RouteAnyTLS, Prepare, Admitted, Refused, DropOnDone,
       WebsiteClosed, HandOver, rest
  <2>2. shadow' \subseteq Conns
    BY <1>0, <1>3 DEF Routing, Probing, HandshakeOK, HandshakeFails, RouteWebsite,
       RouteProbeError, RouteReject, RouteAnyTLS, Prepare, Admitted, Refused, DropOnDone,
       WebsiteClosed, HandOver, rest
  <2>3. PICK p \in Undecided \cup {"website"}, q \in Phases :
           /\ Move(c, p, q)
           /\ q \in Undecided => p \in Undecided
    BY <1>3 DEF Routing, Probing, HandshakeOK, HandshakeFails, RouteWebsite,
       RouteProbeError, RouteReject, RouteAnyTLS, Prepare, Admitted, Refused, DropOnDone,
       WebsiteClosed, HandOver, Undecided, Phases
  <2>4. {d \in Conns : phase'[d] \in Undecided} \subseteq {d \in Conns : phase[d] \in Undecided}
    BY <1>0, <2>3 DEF Move
  <2>5. phase' \in [Conns -> Phases]
    BY <1>0, <2>3 DEF Move
  <2> QED
    BY <1>0, <2>1, <2>2, <2>4, <2>5 DEF SlotAccounting
<1>4. CASE LoopTakeSlot
  BY <1>0, <1>4, <1>f DEF LoopTakeSlot, SlotAccounting
<1>5. CASE LoopError
  BY <1>0, <1>5, <1>f DEF LoopError, SlotAccounting
<1>6. CASE LoopDone \/ LoopExit
  BY <1>0, <1>6 DEF LoopDone, LoopExit, Stop, SlotAccounting
<1>7. CASE ServerAccept \/ AcceptDone
  BY <1>0, <1>7 DEF ServerAccept, AcceptDone, getTerminalError, SlotAccounting
<1>8. CASE CloseListener \/ CloseStop
  BY <1>0, <1>8 DEF CloseListener, CloseStop, Stop, SlotAccounting
<1>9. CASE UNCHANGED vars
  BY <1>0, <1>9 DEF vars, SlotAccounting
<1> QED
  BY <1>1, <1>2, <1>3, <1>4, <1>5, <1>6, <1>7, <1>8, <1>9
     DEF Next, Deciding, LoopStep, Terminating, Routing

\* Every step keeps queued connections without a goroutine.
LEMMA QueuedStep == IndInv /\ [Next]_vars => QueuedHoldNothing'
<1> SUFFICES ASSUME IndInv, [Next]_vars PROVE QueuedHoldNothing'
  OBVIOUS
<1> USE DEF QueuedHoldNothing, TypeOK
<1>0. TypeOK /\ QueuedHoldNothing
  BY DEF IndInv, SlotAccounting
<1>1. ASSUME NEW c \in Conns, ListenerAccept(c) PROVE QueuedHoldNothing'
  BY <1>0, <1>1 DEF ListenerAccept, Move
<1>2. ASSUME NEW c \in Conns, ReleaseSlot(c) PROVE QueuedHoldNothing'
  BY <1>0, <1>2 DEF ReleaseSlot
<1>3. ASSUME NEW c \in Conns, Routing(c) \/ HandOver(c) PROVE QueuedHoldNothing'
  <2>1. PICK p \in Phases, q \in Phases \ {"queued"} : Move(c, p, q)
    BY <1>3 DEF Routing, Probing, HandshakeOK, HandshakeFails, RouteWebsite,
       RouteProbeError, RouteReject, RouteAnyTLS, Prepare, Admitted, Refused, DropOnDone,
       WebsiteClosed, HandOver, Phases
  <2>2. UNCHANGED holding
    BY <1>3 DEF Routing, Probing, HandshakeOK, HandshakeFails, RouteWebsite,
       RouteProbeError, RouteReject, RouteAnyTLS, Prepare, Admitted, Refused, DropOnDone,
       WebsiteClosed, HandOver
  <2> QED
    BY <1>0, <2>1, <2>2 DEF Move
<1>4. CASE UNCHANGED <<phase, holding>>
  BY <1>0, <1>4
<1> QED
  BY <1>1, <1>2, <1>3, <1>4
     DEF Next, Deciding, Routing, LoopStep, LoopTakeSlot, LoopDone, LoopExit, LoopError,
         ServerAccept, AcceptDone, CloseListener, CloseStop, Terminating, vars

\* Every step keeps the terminal error the one reason for which the listener
\* stopped: only the first call of stop() records one.
LEMMA StoppedStep == IndInv /\ [Next]_vars => StoppedForAReason'
<1> SUFFICES ASSUME IndInv, [Next]_vars PROVE StoppedForAReason'
  OBVIOUS
<1> USE DEF StoppedForAReason, TypeOK, Errors
<1>0. TypeOK /\ StoppedForAReason
  BY DEF IndInv, SlotAccounting
<1>1. CASE CloseStop
  BY <1>0, <1>1 DEF CloseStop, Stop
<1>2. CASE LoopExit
  BY <1>0, <1>2 DEF LoopExit, Stop
<1>3. CASE AcceptDone
  BY <1>0, <1>3 DEF AcceptDone, getTerminalError
<1>4. ASSUME UNCHANGED <<done, terminalErr>>, accepter' \in {accepter, "out", "in"}
      PROVE  StoppedForAReason'
  BY <1>0, <1>4
<1>5. ASSUME NEW c \in Conns,
             ListenerAccept(c) \/ Routing(c) \/ HandOver(c) \/ ReleaseSlot(c)
      PROVE  UNCHANGED <<done, terminalErr>> /\ accepter' \in {accepter, "out", "in"}
  BY <1>5 DEF ListenerAccept, Routing, Probing, HandshakeOK, HandshakeFails, RouteWebsite,
     RouteProbeError, RouteReject, RouteAnyTLS, Prepare, Admitted, Refused, DropOnDone,
     WebsiteClosed, HandOver, ReleaseSlot, rest
<1>6. ASSUME \/ LoopTakeSlot \/ LoopDone \/ LoopError \/ ServerAccept
             \/ CloseListener \/ UNCHANGED vars
      PROVE  UNCHANGED <<done, terminalErr>> /\ accepter' \in {accepter, "out", "in"}
  BY <1>6 DEF LoopTakeSlot, LoopDone, LoopError, ServerAccept, CloseListener, vars
<1> QED
  BY <1>1, <1>2, <1>3, <1>4, <1>5, <1>6 DEF Next, Deciding, Routing, LoopStep, Terminating

\* Every step keeps the shadow TLS states those of the website connections over
\* TLS: only a listener that has stopped drops a connection that has one.
LEMMA ShadowStep == IndInv /\ [Next]_vars => ShadowTracksWebsite'
<1> SUFFICES ASSUME IndInv, [Next]_vars PROVE ShadowTracksWebsite'
  OBVIOUS
<1> USE ConnsAssumption DEF ShadowTracksWebsite, TypeOK
<1>0. TypeOK /\ ShadowTracksWebsite
  BY DEF IndInv, SlotAccounting
<1>1. ASSUME NEW c \in Conns, Prepare(c) PROVE ShadowTracksWebsite'
  BY <1>0, <1>1 DEF Prepare, Move, rest
<1>2. ASSUME NEW c \in Conns, WebsiteClosed(c) PROVE ShadowTracksWebsite'
  BY <1>0, <1>2 DEF WebsiteClosed, Move, rest
<1>3. ASSUME NEW c \in Conns, HandOver(c) PROVE ShadowTracksWebsite'
  BY <1>0, <1>3 DEF HandOver, Move
<1>4. ASSUME NEW c \in Conns, DropOnDone(c) PROVE ShadowTracksWebsite'
  BY <1>0, <1>4 DEF DropOnDone, Move, rest
<1>5. ASSUME NEW c \in Conns, Probing(c) \/ Admitted(c) \/ Refused(c) \/ ListenerAccept(c)
      PROVE ShadowTracksWebsite'
  <2>1. UNCHANGED <<done, shadow>>
    BY <1>5 DEF Probing, HandshakeOK, HandshakeFails, RouteWebsite, RouteProbeError,
       RouteReject, RouteAnyTLS, Admitted, Refused, ListenerAccept, rest
  <2>2. PICK p \in Phases \ {"ready", "website"}, q \in Phases \ {"ready", "website"} : Move(c, p, q)
    BY <1>5 DEF Probing, HandshakeOK, HandshakeFails, RouteWebsite, RouteProbeError,
       RouteReject, RouteAnyTLS, Admitted, Refused, ListenerAccept, Phases
  <2> QED
    BY <1>0, <2>1, <2>2 DEF Move
<1>6. ASSUME UNCHANGED <<phase, shadow>>, done => done' PROVE ShadowTracksWebsite'
  BY <1>0, <1>6
<1>7. ASSUME \/ \E c \in Conns : ReleaseSlot(c)
             \/ LoopTakeSlot \/ LoopDone \/ LoopError \/ ServerAccept \/ AcceptDone
             \/ CloseListener \/ UNCHANGED vars
      PROVE  UNCHANGED <<phase, shadow>> /\ (done => done')
  BY <1>7 DEF ReleaseSlot, LoopTakeSlot, LoopDone, LoopError, ServerAccept, AcceptDone,
     CloseListener, vars
<1>8. ASSUME LoopExit \/ CloseStop
      PROVE  UNCHANGED <<phase, shadow>> /\ (done => done')
  BY <1>8 DEF LoopExit, CloseStop, Stop
<1> QED
  BY <1>1, <1>2, <1>3, <1>4, <1>5, <1>6, <1>7, <1>8 DEF Next, Deciding, LoopStep, Terminating

(***************************************************************************)
(* The theorems.                                                           *)
(***************************************************************************)

\* The inductive invariant holds in every reachable state.
THEOREM InductiveInvariant == Spec => []IndInv
<1>1. Init => IndInv
  BY InitIndInv
<1>2. IndInv /\ [Next]_vars => IndInv'
  BY SlotStep, QueuedStep, StoppedStep, ShadowStep DEF IndInv
<1> QED
  BY <1>1, <1>2, PTL DEF Spec

\* No path of the accept loop or of processAcceptedConn loses a token of
\* probeSlots or returns one it does not have, and never are more than
\* max_pending_probes connections in handshake or probe.
THEOREM SlotsExact == Spec => []SlotAccounting
<1>1. IndInv => SlotAccounting
  BY DEF IndInv
<1> QED
  BY <1>1, InductiveInvariant, PTL

\* A website connection over TLS always has its shadow TLS state, and until the
\* listener stops no other connection has one.
THEOREM ShadowExact == Spec => []ShadowTracksWebsite
<1>1. IndInv => ShadowTracksWebsite
  BY DEF IndInv
<1> QED
  BY <1>1, InductiveInvariant, PTL

\* Whichever of Close() and the accept loop stops the listener first, the
\* listener stays stopped for that reason, and Accept() reports it.
THEOREM FirstErrorWins == Spec => TerminalErrorStable
<1>1. IndInv /\ IndInv' /\ [Next]_vars
        => [/\ done => done' /\ terminalErr' = terminalErr
            /\ accepter' \in Errors => accepter' = terminalErr]_vars
  <2> SUFFICES ASSUME IndInv, IndInv', Next
               PROVE  /\ done => done' /\ terminalErr' = terminalErr
                      /\ accepter' \in Errors => accepter' = terminalErr
    OBVIOUS
  <2> USE DEF StoppedForAReason
  <2>0. StoppedForAReason /\ StoppedForAReason'
    BY DEF IndInv
  <2>1. CASE CloseStop
    BY <2>0, <2>1 DEF CloseStop, Stop
  <2>2. CASE LoopExit
    BY <2>0, <2>2 DEF LoopExit, Stop
  <2>3. CASE AcceptDone
    BY <2>0, <2>3 DEF AcceptDone
  <2>4. CASE UNCHANGED <<done, terminalErr>>
    BY <2>0, <2>4
  <2>5. ASSUME NEW c \in Conns,
               ListenerAccept(c) \/ Routing(c) \/ HandOver(c) \/ ReleaseSlot(c)
        PROVE  UNCHANGED <<done, terminalErr>>
    BY <2>5 DEF ListenerAccept, Routing, Probing, HandshakeOK, HandshakeFails, RouteWebsite,
       RouteProbeError, RouteReject, RouteAnyTLS, Prepare, Admitted, Refused, DropOnDone,
       WebsiteClosed, HandOver, ReleaseSlot, rest
  <2>6. ASSUME \/ LoopTakeSlot \/ LoopDone \/ LoopError \/ ServerAccept
               \/ CloseListener \/ Terminating
        PROVE  UNCHANGED <<done, terminalErr>>
    BY <2>6 DEF LoopTakeSlot, LoopDone, LoopError, ServerAccept, CloseListener,
                Terminating, vars
  <2> QED
    BY <2>1, <2>2, <2>3, <2>4, <2>5, <2>6 DEF Next, Deciding, Routing, LoopStep
<1> QED
  BY <1>1, InductiveInvariant, PTL DEF Spec, TerminalErrorStable

=============================================================================
