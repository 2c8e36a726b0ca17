---------------------------- MODULE GatewayProofs ---------------------------
(***************************************************************************)
(* What the composition of Listener and Sessions adds to the two: a        *)
(* connection has one owner (OneOwner), and each component, seen inside    *)
(* the composition, still behaves as its own specification allows, so that *)
(* what is proved of Listener and of Sessions holds of a loaded            *)
(* configuration.                                                          *)
(***************************************************************************)
EXTENDS Gateway, TLAPS

TypeOK ==
    /\ phase \in [Conns -> L!Phases] /\ pc \in [Conns -> S!Phases]
    /\ open \in [Conns -> BOOLEAN]
    /\ sessions \subseteq Conns /\ snapshot \subseteq Conns

\* The phases of a connection that acquire() was never asked for.
Unasked == {"queued", "handshake", "probe", "prepare", "ready", "website", "finished"}

\* Where a connection is for the listener, and where it is for the sessions.
Coupled ==
    \A c \in Conns :
        \/ phase[c] \in Unasked /\ pc[c] = "probing"
        \/ phase[c] = "admit" /\ pc[c] \in {"load", "cas", "refuse"}
        \/ phase[c] = "anytls" /\ pc[c] \in S!HolderPhases \cup {"done"}
        \/ phase[c] = "closed" /\ pc[c] \in {"probing", "refused"}

\* Cleanup and the idle timer reach a connection only through its session: what
\* is in the registry is being served, what was copied from it was admitted, and
\* the sessions close nothing they were not given.
Reached ==
    /\ sessions \subseteq {c \in Conns : pc[c] \in {"serving", "returned", "unregister"}}
    /\ snapshot \subseteq {c \in Conns : pc[c] \in S!HolderPhases \cup {"done"}}
    /\ \A c \in Conns : pc[c] = "probing" => open[c]

IndInv == TypeOK /\ Coupled /\ Reached

-----------------------------------------------------------------------------
(***************************************************************************)
(* Every step preserves the invariant: the steps of both components, of    *)
(* the listener alone, and of the sessions alone.                          *)
(***************************************************************************)

LEMMA JointStep ==
    ASSUME IndInv, NEW c \in Conns, RouteAnyTLS(c) \/ Admit(c) \/ Refuse(c)
    PROVE  IndInv'
<1> USE DEF IndInv, TypeOK, L!Phases, S!Phases, S!HolderPhases, Unasked, L!Move, S!Step
<1>1. CASE RouteAnyTLS(c)
  <2>1. TypeOK' /\ Reached'
    BY <1>1 DEF RouteAnyTLS, L!RouteAnyTLS, S!Detect, Reached
  <2>2. Coupled'
    BY <1>1 DEF RouteAnyTLS, L!RouteAnyTLS, S!Detect, Coupled
  <2> QED
    BY <2>1, <2>2
<1>2. CASE Admit(c)
  <2>1. TypeOK' /\ Reached'
    BY <1>2 DEF Admit, S!AcquireCAS, L!Admitted, Reached
  <2>2. Coupled'
    BY <1>2 DEF Admit, S!AcquireCAS, L!Admitted, Coupled
  <2> QED
    BY <2>1, <2>2
<1>3. CASE Refuse(c)
  <2>1. TypeOK' /\ Reached'
    BY <1>3 DEF Refuse, S!Refuse, L!Refused, Reached
  <2>2. Coupled'
    BY <1>3 DEF Refuse, S!Refuse, L!Refused, Coupled
  <2> QED
    BY <2>1, <2>2
<1> QED
  BY <1>1, <1>2, <1>3

\* A step of the listener alone leaves the connection to the same component.
LEMMA ListenerMove ==
    ASSUME IndInv, UNCHANGED sessionVars, NEW c \in Conns, NEW to \in Unasked \cup {"closed"},
           phase[c] \in Unasked, phase' = [phase EXCEPT ![c] = to]
    PROVE  IndInv'
<1>1. TypeOK' /\ Reached'
  BY DEF IndInv, TypeOK, Reached, sessionVars, L!Phases, Unasked
<1>2. Coupled'
  BY DEF IndInv, TypeOK, Coupled, sessionVars, Unasked
<1> QED
  BY <1>1, <1>2 DEF IndInv

LEMMA ListenerKeeps ==
    ASSUME IndInv, UNCHANGED sessionVars, UNCHANGED phase
    PROVE  IndInv'
  BY DEF IndInv, TypeOK, Coupled, Reached, sessionVars

LEMMA ListenerStep ==
    ASSUME IndInv,
           \/ \E c \in Conns : Probing(c) \/ ReleaseSlot(c) \/ Website(c)
           \/ Loop \/ Server
    PROVE  IndInv'
<1>1. ASSUME NEW c \in Conns, Probing(c) \/ Website(c) PROVE IndInv'
  <2>1. UNCHANGED sessionVars
    BY <1>1 DEF Probing, Website
  <2>2. /\ phase[c] \in Unasked
        /\ \E to \in Unasked \cup {"closed"} : phase' = [phase EXCEPT ![c] = to]
    BY <1>1 DEF Probing, Website, L!HandshakeOK, L!HandshakeFails, L!RouteWebsite,
                L!RouteProbeError, L!RouteReject, L!Prepare, L!DropOnDone, L!HandOver,
                L!WebsiteClosed, L!Move, Unasked
  <2> QED
    BY <2>1, <2>2, ListenerMove
<1>2. ASSUME NEW c \in Conns, L!ListenerAccept(c), UNCHANGED sessionVars PROVE IndInv'
  <2>1. /\ phase[c] \in Unasked
        /\ \E to \in Unasked \cup {"closed"} : phase' = [phase EXCEPT ![c] = to]
    BY <1>2 DEF L!ListenerAccept, L!Move, Unasked
  <2> QED
    BY <1>2, <2>1, ListenerMove
<1>3. ASSUME NEW c \in Conns, ReleaseSlot(c) PROVE IndInv'
  BY <1>3, ListenerKeeps DEF ReleaseSlot, L!ReleaseSlot
<1>4. ASSUME L!LoopStep \/ L!LoopError, UNCHANGED sessionVars PROVE IndInv'
  BY <1>4, ListenerKeeps DEF L!LoopStep, L!LoopTakeSlot, L!LoopDone, L!LoopExit, L!LoopError
<1>5. CASE Server
  BY <1>5, ListenerKeeps DEF Server, L!ServerAccept, L!AcceptDone, L!CloseListener, L!CloseStop
<1> QED
  BY <1>1, <1>2, <1>3, <1>4, <1>5 DEF Loop

\* A step of the sessions alone: it is one of a connection that acquire() was
\* asked for, and does not take it back.
LEMMA SessionsStep ==
    ASSUME IndInv,
           \/ \E c \in Conns : Admission(c) \/ Serve(c) \/ SessionEnds(c)
           \/ Unload
    PROVE  IndInv'
<1> USE DEF IndInv, TypeOK, S!Phases, S!HolderPhases, S!Step, listenerVars
<1>1. ASSUME NEW c \in Conns, Admission(c) PROVE IndInv'
  <2>1. \/ pc[c] = "load" /\ \E q \in {"cas", "refuse"} : pc' = [pc EXCEPT ![c] = q]
        \/ pc[c] = "cas" /\ pc' = [pc EXCEPT ![c] = "load"]
    BY <1>1, LimitAssumption DEF Admission, S!AcquireLoad, S!AcquireRetry
  <2>2. UNCHANGED <<phase, sessions, snapshot, open>>
    BY <1>1 DEF Admission, S!AcquireLoad, S!AcquireRetry
  <2>3. TypeOK' /\ Reached'
    BY <2>1, <2>2 DEF Reached
  <2>4. Coupled'
    BY <2>1, <2>2 DEF Coupled, Unasked
  <2> QED
    BY <2>3, <2>4
<1>2. ASSUME NEW c \in Conns, Serve(c) PROVE IndInv'
  <2>1. /\ pc[c] \in S!HolderPhases
        /\ \E q \in S!HolderPhases \cup {"done"} : pc' = [pc EXCEPT ![c] = q]
        /\ UNCHANGED <<phase, snapshot>>
    BY <1>2 DEF Serve, S!Arm, S!Register, S!CloseConn, S!Unregister, S!Cancel, S!Release
  <2>2. TypeOK'
    BY <1>2, <2>1 DEF Serve, S!Arm, S!Register, S!CloseConn, S!Unregister, S!Cancel, S!Release
  <2>3. Coupled'
    BY <2>1 DEF Coupled, Unasked
  <2>4. Reached'
    BY <1>2 DEF Serve, S!Arm, S!Register, S!CloseConn, S!Unregister, S!Cancel, S!Release, Reached
  <2> QED
    BY <2>2, <2>3, <2>4
<1>3. ASSUME NEW c \in Conns, SessionEnds(c) PROVE IndInv'
  <2>1. CASE S!ServiceReturns(c)
    <3>1. TypeOK' /\ Reached'
      BY <1>3, <2>1 DEF SessionEnds, S!ServiceReturns, Reached
    <3>2. Coupled'
      BY <1>3, <2>1 DEF SessionEnds, S!ServiceReturns, Coupled, Unasked
    <3> QED
      BY <3>1, <3>2
  <2>2. CASE S!IdleExpire(c)
    BY <1>3, <2>2 DEF SessionEnds, S!IdleExpire, Reached, Coupled
  <2> QED
    BY <1>3, <2>1, <2>2 DEF SessionEnds
<1>4. CASE Unload
  <2>1. CASE S!CleanupSnapshot \/ S!CleanupReturn
    BY <1>4, <2>1 DEF Unload, S!CleanupSnapshot, S!CleanupReturn, Reached, Coupled
  <2>2. ASSUME NEW c \in Conns, S!CleanupClose(c) PROVE IndInv'
    BY <1>4, <2>2 DEF Unload, S!CleanupClose, Reached, Coupled
  <2> QED
    BY <1>4, <2>1, <2>2 DEF Unload, S!CleanupStep
<1> QED
  BY <1>1, <1>2, <1>3, <1>4

-----------------------------------------------------------------------------
(***************************************************************************)
(* The theorems.                                                           *)
(***************************************************************************)

\* The inductive invariant holds in every reachable state.
THEOREM InductiveInvariant == Spec => []IndInv
<1>1. Init => IndInv
  BY DEF Init, L!Init, S!Init, IndInv, TypeOK, Coupled, Reached, Unasked, L!Phases, S!Phases
<1>2. IndInv /\ [Next]_vars => IndInv'
  <2> SUFFICES ASSUME IndInv, [Next]_vars PROVE IndInv'
    OBVIOUS
  <2>1. CASE UNCHANGED vars
    BY <2>1 DEF vars, listenerVars, sessionVars, IndInv, TypeOK, Coupled, Reached
  <2> QED
    BY <2>1, JointStep, ListenerStep, SessionsStep DEF Next, Route, Terminating
<1> QED
  BY <1>1, <1>2, PTL DEF Spec

\* A connection belongs to the website, to a session or to nobody, and what
\* closes the sessions (Cleanup, the idle timer, the limit) never touches one
\* that is the website's.
THEOREM OwnerUnique == Spec => []OneOwner
<1>1. IndInv => OneOwner
  <2> SUFFICES ASSUME IndInv, NEW c \in Conns
               PROVE  /\ phase[c] \in {"queued", "prepare", "ready", "website"} =>
                            pc[c] = "probing" /\ open[c] /\ c \notin snapshot
                      /\ (phase[c] = "anytls") <=> (pc[c] \in S!HolderPhases \cup {"done"})
                      /\ pc[c] = "refused" => phase[c] = "closed"
    BY DEF OneOwner
  <2> QED
    BY DEF IndInv, TypeOK, Coupled, Reached, Unasked, S!HolderPhases
<1> QED
  BY <1>1, InductiveInvariant, PTL

\* Seen by the listener, a step of the composition is one of its own or none:
\* acquire() answers it as Listener lets it be answered, and nothing the
\* sessions or Cleanup do disturbs its state.
THEOREM ListenerImplemented == Spec => L!Spec
<1>1. Init => L!Init
  BY DEF Init
<1>2. [Next]_vars => [L!Next]_(L!vars)
  <2> SUFFICES ASSUME [Next]_vars PROVE L!Next \/ UNCHANGED L!vars
    OBVIOUS
  <2>1. ASSUME NEW c \in Conns, RouteAnyTLS(c) \/ Admit(c) \/ Refuse(c) PROVE L!Next
    BY <2>1 DEF RouteAnyTLS, Admit, Refuse, L!Next, L!Probing, L!Deciding
  <2>2. ASSUME NEW c \in Conns, Probing(c) \/ ReleaseSlot(c) \/ Website(c) PROVE L!Next
    BY <2>2 DEF Probing, ReleaseSlot, Website, L!Next, L!Probing, L!Deciding
  <2>3. ASSUME NEW c \in Conns, Admission(c) \/ Serve(c) \/ SessionEnds(c) PROVE UNCHANGED L!vars
    BY <2>3 DEF Admission, Serve, SessionEnds, listenerVars, L!vars
  <2>4. CASE Loop \/ Server
    BY <2>4 DEF Loop, Server, L!Next
  <2>5. CASE Unload \/ UNCHANGED vars
    BY <2>5 DEF Unload, vars, listenerVars, L!vars
  <2> QED
    BY <2>1, <2>2, <2>3, <2>4, <2>5 DEF Next, Route, Terminating
<1> QED
  BY <1>1, <1>2, PTL DEF Spec, L!Spec

\* Seen by the sessions, likewise: a connection enters acquire() once, when its
\* probe says AnyTLS, and Cleanup waits for the listener.  What SessionsProofs
\* shows of Sessions!Spec therefore holds of every loaded configuration.
THEOREM SessionsImplemented == Spec => S!Spec
<1>1. Init => S!Init
  BY DEF Init
<1>2. [Next]_vars => [S!Next]_(S!vars)
  <2> SUFFICES ASSUME [Next]_vars PROVE S!Next \/ UNCHANGED S!vars
    OBVIOUS
  <2>1. ASSUME NEW c \in Conns, RouteAnyTLS(c) \/ Admit(c) \/ Refuse(c) PROVE S!Next
    BY <2>1 DEF RouteAnyTLS, Admit, Refuse, S!Next, S!Internal
  <2>2. ASSUME NEW c \in Conns, Admission(c) \/ Serve(c) \/ SessionEnds(c) PROVE S!Next
    BY <2>2 DEF Admission, Serve, SessionEnds, S!Next, S!Internal
  <2>3. ASSUME NEW c \in Conns, Probing(c) \/ ReleaseSlot(c) \/ Website(c) PROVE UNCHANGED S!vars
    BY <2>3 DEF Probing, ReleaseSlot, Website, sessionVars, S!vars
  <2>4. CASE Unload
    BY <2>4 DEF Unload, S!Next
  <2>5. CASE Loop \/ Server \/ UNCHANGED vars
    BY <2>5 DEF Loop, Server, vars, sessionVars, S!vars
  <2> QED
    BY <2>1, <2>2, <2>3, <2>4, <2>5 DEF Next, Route, Terminating
<1> QED
  BY <1>1, <1>2, PTL DEF Spec, S!Spec

=============================================================================
