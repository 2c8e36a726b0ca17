------------------------------ MODULE Sessions ------------------------------
(***************************************************************************)
(* The life of the AnyTLS sessions of one loaded configuration             *)
(* (limits.go, session_registry.go, listener.go:serveAnyTLS,               *)
(* anytls.go:Cleanup).                                                     *)
(*                                                                         *)
(* Every connection is handled by a goroutine of its own; what they share  *)
(* is the atomic counter lw.active and the registry lw.registry.sessions.  *)
(* A step of this module is one atomic access to either of them, or one    *)
(* call on the connection.  The admission test is a load followed by a     *)
(* compare-and-swap, so other connections can come in between.  Cleanup    *)
(* runs on yet another goroutine: it copies the registry under the lock    *)
(* and then cancels and closes the copied sessions without holding it.     *)
(***************************************************************************)
EXTENDS Naturals, FiniteSets

CONSTANTS
    Conns,          \* the connections, named by their connection id
    MaxConcurrent,  \* max_concurrent; 0 means unlimited (limits.go:6)
    IdleTimeout     \* TRUE iff idle_timeout > 0 (listener.go:409)

ASSUME ConnsAssumption == IsFiniteSet(Conns)
ASSUME MaxConcurrentAssumption == MaxConcurrent \in Nat
ASSUME IdleTimeoutAssumption == IdleTimeout \in BOOLEAN

VARIABLES
    pc,         \* [Conns -> Phases], where the connection's goroutine is
    loaded,     \* [Conns -> Nat], the value of active that acquire() loaded
    active,     \* lw.active
    sessions,   \* the keys of lw.registry.sessions
    open,       \* [Conns -> BOOLEAN], FALSE once the connection was closed
    cancelled,  \* the connections whose session context was cancelled
    cleanup,    \* "idle", "closing" or "done": the progress of Cleanup()
    snapshot    \* what closeActiveSessions copied and did not close yet

vars == <<pc, loaded, active, sessions, open, cancelled, cleanup, snapshot>>

Phases == {"probing", "load", "cas", "refuse", "refused", "spawned", "armed",
           "serving", "returned", "unregister", "cancel", "release", "done"}

\* The goroutines between a successful acquire() and their release().
HolderPhases == {"spawned", "armed", "serving", "returned", "unregister",
                 "cancel", "release"}

Holders == {c \in Conns : pc[c] \in HolderPhases}

\* Type correctness: in particular lw.active, an int64, never goes negative.
TypeOK ==
    /\ pc \in [Conns -> Phases]
    /\ loaded \in [Conns -> Nat]
    /\ active \in Nat
    /\ sessions \subseteq Conns
    /\ open \in [Conns -> BOOLEAN]
    /\ cancelled \subseteq Conns
    /\ cleanup \in {"idle", "closing", "done"}
    /\ snapshot \subseteq Conns

Init ==
    /\ pc = [c \in Conns |-> "probing"]
    /\ loaded = [c \in Conns |-> 0]
    /\ active = 0
    /\ sessions = {}
    /\ open = [c \in Conns |-> TRUE]
    /\ cancelled = {}
    /\ cleanup = "idle"
    /\ snapshot = {}

Step(c, from, to) ==
    /\ pc[c] = from
    /\ pc' = [pc EXCEPT ![c] = to]

-----------------------------------------------------------------------------
(***************************************************************************)
(* Admission: ListenerWrapper.acquire.                                     *)
(***************************************************************************)

\* routeBufferedConn reaches DecisionAnyTLS and calls acquire().
Detect(c) ==
    /\ Step(c, "probing", "load")
    /\ UNCHANGED <<loaded, active, sessions, open, cancelled, cleanup, snapshot>>

\* Fault: the limit test is off by one.
AcquireLoadOffByOne(c) ==
    /\ Step(c, "load", IF active > MaxConcurrent THEN "refuse" ELSE "cas")
    /\ loaded' = [loaded EXCEPT ![c] = active]
    /\ UNCHANGED <<active, sessions, open, cancelled, cleanup, snapshot>>

\* The atomic load and the test against the limit; without a limit acquire()
\* answers at once and does not look at the counter.
AcquireLoad(c) ==
    /\ Step(c, "load", IF MaxConcurrent = 0 THEN "spawned"
                       ELSE IF active >= MaxConcurrent THEN "refuse" ELSE "cas")
    /\ loaded' = [loaded EXCEPT ![c] = IF MaxConcurrent = 0 THEN @ ELSE active]
    /\ UNCHANGED <<active, sessions, open, cancelled, cleanup, snapshot>>

\* Fault: a plain store of the incremented value in place of the CAS.
AcquireStore(c) ==
    /\ Step(c, "cas", "spawned")
    /\ active' = loaded[c] + 1
    /\ UNCHANGED <<loaded, sessions, open, cancelled, cleanup, snapshot>>

\* The compare-and-swap succeeds; the goroutine of serveAnyTLS is started.
AcquireCAS(c) ==
    /\ active = loaded[c]
    /\ Step(c, "cas", "spawned")
    /\ active' = active + 1
    /\ UNCHANGED <<loaded, sessions, open, cancelled, cleanup, snapshot>>

\* Fault: the loop tries the CAS again without loading the counter again.
AcquireSpin(c) ==
    /\ active # loaded[c]
    /\ Step(c, "cas", "cas")
    /\ UNCHANGED <<loaded, active, sessions, open, cancelled, cleanup, snapshot>>

\* The compare-and-swap fails: the loop starts over with a new load.
AcquireRetry(c) ==
    /\ active # loaded[c]
    /\ Step(c, "cas", "load")
    /\ UNCHANGED <<loaded, active, sessions, open, cancelled, cleanup, snapshot>>

\* Fault: the refused connection is forgotten instead of closed.
RefuseLeak(c) ==
    /\ Step(c, "refuse", "refused")
    /\ UNCHANGED <<loaded, active, sessions, open, cancelled, cleanup, snapshot>>

\* acquire() returned false: the connection is closed.
Refuse(c) ==
    /\ Step(c, "refuse", "refused")
    /\ open' = [open EXCEPT ![c] = FALSE]
    /\ UNCHANGED <<loaded, active, sessions, cancelled, cleanup, snapshot>>

-----------------------------------------------------------------------------
(***************************************************************************)
(* serveAnyTLS, from the wrapping of the connection to the deferred calls, *)
(* which run in the reverse of the order in which they are written:        *)
(* unregisterSession, cancel, release.                                     *)
(***************************************************************************)

\* newIdleTimeoutConn and context.WithCancel.
Arm(c) ==
    /\ Step(c, "spawned", "armed")
    /\ UNCHANGED <<loaded, active, sessions, open, cancelled, cleanup, snapshot>>

\* registerSession, under the registry's lock.
Register(c) ==
    /\ Step(c, "armed", "serving")
    /\ sessions' = sessions \cup {c}
    /\ UNCHANGED <<loaded, active, open, cancelled, cleanup, snapshot>>

\* External: service.NewConnection returns.  The session protocol may end at
\* any time; that it does end is only relied on once the connection is closed.
ServiceReturns(c) ==
    /\ Step(c, "serving", "returned")
    /\ UNCHANGED <<loaded, active, sessions, open, cancelled, cleanup, snapshot>>

\* The trailing conn.Close(), which does nothing if the connection is closed.
CloseConn(c) ==
    /\ Step(c, "returned", "unregister")
    /\ open' = [open EXCEPT ![c] = FALSE]
    /\ UNCHANGED <<loaded, active, sessions, cancelled, cleanup, snapshot>>

\* Fault: the deferred unregisterSession is missing.
UnregisterMissing(c) ==
    /\ Step(c, "unregister", "cancel")
    /\ UNCHANGED <<loaded, active, sessions, open, cancelled, cleanup, snapshot>>

\* unregisterSession, under the registry's lock.
Unregister(c) ==
    /\ Step(c, "unregister", "cancel")
    /\ sessions' = sessions \ {c}
    /\ UNCHANGED <<loaded, active, open, cancelled, cleanup, snapshot>>

\* The deferred cancel of the session's context.
Cancel(c) ==
    /\ Step(c, "cancel", "release")
    /\ cancelled' = cancelled \cup {c}
    /\ UNCHANGED <<loaded, active, sessions, open, cleanup, snapshot>>

\* The deferred release(): the counter is left alone without a limit.
Release(c) ==
    /\ Step(c, "release", "done")
    /\ active' = IF MaxConcurrent = 0 THEN active ELSE active - 1
    /\ UNCHANGED <<loaded, sessions, open, cancelled, cleanup, snapshot>>

\* idleTimeoutConn.expire closes a session that was idle for too long.  The
\* timer runs from newIdleTimeoutConn to the first close of the connection.
IdleExpire(c) ==
    /\ IdleTimeout
    /\ pc[c] \in {"armed", "serving", "returned"}
    /\ open[c]
    /\ open' = [open EXCEPT ![c] = FALSE]
    /\ UNCHANGED <<pc, loaded, active, sessions, cancelled, cleanup, snapshot>>

-----------------------------------------------------------------------------
(***************************************************************************)
(* Cleanup, that is closeActiveSessions("config_unload").                  *)
(***************************************************************************)

\* The registry is copied under its lock.
CleanupSnapshot ==
    /\ cleanup = "idle"
    /\ cleanup' = "closing"
    /\ snapshot' = sessions
    /\ UNCHANGED <<pc, loaded, active, sessions, open, cancelled>>

\* Fault: the session's context is cancelled, its connection is not closed.
CleanupCancelOnly(c) ==
    /\ cleanup = "closing" /\ c \in snapshot
    /\ snapshot' = snapshot \ {c}
    /\ cancelled' = cancelled \cup {c}
    /\ UNCHANGED <<pc, loaded, active, sessions, open, cleanup>>

\* One round of the loop over the copy, in the map's arbitrary order.  By now
\* the session may have ended by itself: both calls are then without effect.
CleanupClose(c) ==
    /\ cleanup = "closing" /\ c \in snapshot
    /\ snapshot' = snapshot \ {c}
    /\ cancelled' = cancelled \cup {c}
    /\ open' = [open EXCEPT ![c] = FALSE]
    /\ UNCHANGED <<pc, loaded, active, sessions, cleanup>>

CleanupReturn ==
    /\ cleanup = "closing" /\ snapshot = {}
    /\ cleanup' = "done"
    /\ UNCHANGED <<pc, loaded, active, sessions, open, cancelled, snapshot>>

-----------------------------------------------------------------------------
\* What the connection's own goroutines do without waiting for a peer.
Internal(c) ==
    \/ AcquireLoad(c) \/ AcquireCAS(c) \/ AcquireRetry(c)
    \/ Refuse(c) \/ Arm(c) \/ Register(c) \/ CloseConn(c) \/ Unregister(c)
    \/ Cancel(c) \/ Release(c)

CleanupStep ==
    \/ CleanupSnapshot
    \/ \E c \in Conns : CleanupClose(c)
    \/ CleanupReturn

\* Every connection is gone and the configuration is unloaded.
Terminating ==
    /\ \A c \in Conns : pc[c] \in {"refused", "done"}
    /\ cleanup = "done"
    /\ UNCHANGED vars

Next ==
    \/ \E c \in Conns :
          Internal(c) \/ Detect(c) \/ ServiceReturns(c) \/ IdleExpire(c)
    \/ CleanupStep
    \/ Terminating

\* The Go scheduler runs every runnable goroutine; NewConnection returns once
\* its connection is closed.  Nothing makes a peer send, end a session or fall
\* idle, and nothing makes Caddy unload the configuration.
Fairness ==
    /\ \A c \in Conns : WF_vars(Internal(c))
    /\ \A c \in Conns : WF_vars(~open[c] /\ ServiceReturns(c))
    /\ WF_vars(\E c \in Conns : CleanupClose(c))
    /\ WF_vars(CleanupReturn)

Spec == Init /\ [][Next]_vars

FairSpec == Spec /\ Fairness

-----------------------------------------------------------------------------
(***************************************************************************)
(* Properties.                                                             *)
(***************************************************************************)

\* The counter of acquire()/release() is exactly the number of sessions that
\* were admitted and have not given their slot back: no interleaving of the
\* load/CAS loop with other admissions and releases loses or doubles a slot.
SlotAccounting ==
    active = IF MaxConcurrent = 0 THEN 0 ELSE Cardinality(Holders)

\* max_concurrent holds for what an operator can see, the sessions in the
\* registry: the deferred unregisterSession runs before release, so a new
\* session never appears while the one it replaces is still registered.
RegistryWithinLimit ==
    /\ sessions \subseteq Holders
    /\ MaxConcurrent > 0 => Cardinality(sessions) <= MaxConcurrent

\* A connection that was refused, or whose session ended, leaves nothing
\* behind, whoever closed it first (peer, idle timer, Cleanup): it is closed,
\* not registered, and a session's context is cancelled.
TeardownComplete ==
    \A c \in Conns : pc[c] \in {"refused", "done"} =>
        /\ ~open[c]
        /\ c \notin sessions
        /\ pc[c] = "done" => c \in cancelled

\* The counter stays within the limit, and a goroutine about to try the CAS
\* has loaded a value below it: what makes the limit inductive.
BelowLimit ==
    /\ MaxConcurrent > 0 => active <= MaxConcurrent
    /\ \A c \in Conns : pc[c] = "cas" => MaxConcurrent > 0 /\ loaded[c] < MaxConcurrent

\* The registry holds exactly the sessions between Register and Unregister.
RegistryPhases ==
    sessions = {c \in Conns : pc[c] \in {"serving", "returned", "unregister"}}

\* How far the teardown of a connection has come at each of its steps.
TeardownPhases ==
    \A c \in Conns :
        /\ pc[c] \in {"refused", "unregister", "cancel", "release", "done"} => ~open[c]
        /\ pc[c] \in {"release", "done"} => c \in cancelled

\* The inductive invariant from which the safety properties above follow: the
\* slot accounting of acquire()/release() together with what each goroutine
\* relies on between its atomic steps.
IndInv ==
    TypeOK /\ SlotAccounting /\ BelowLimit /\ RegistryPhases /\ TeardownPhases

\* acquire() never spins forever: a failed CAS reloads the counter.
AdmissionDecided ==
    \A c \in Conns : pc[c] \in {"load", "cas"} ~> pc[c] \notin {"load", "cas"}

\* Every session that closeActiveSessions found is torn down completely and
\* gives its slot back, even if it was ending by itself at the same time.
SnapshotTornDown ==
    \A c \in Conns : c \in snapshot ~> pc[c] = "done"

\* The session limit implements the abstract pool: the answer of acquire() is
\* given at the CAS (admitted) or at the load (refused), so a connection is
\* refused only at an instant at which max_concurrent sessions hold a slot.
PoolStateOf(phase) ==
    IF phase \in HolderPhases THEN "held"
    ELSE IF phase \in {"refuse", "refused"} THEN "refused"
    ELSE IF phase = "done" THEN "released" ELSE "idle"

poolState == [c \in Conns |-> PoolStateOf(pc[c])]

Pool == INSTANCE BoundedPool WITH
            Clients <- Conns, Limit <- MaxConcurrent, state <- poolState

ImplementsPool == Pool!PoolSpec

=============================================================================
