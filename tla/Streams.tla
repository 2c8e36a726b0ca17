------------------------------ MODULE Streams -------------------------------
(***************************************************************************)
(* The streams inside AnyTLS sessions (handler.go:NewConnectionEx and      *)
(* handleUDPOverTCP, limits.go:acquireStream/releaseStream,                *)
(* session_registry.go:acquireSessionStream/releaseSessionStream,          *)
(* relay.go:relay, uot.go:relayUDPOverTCP).                                *)
(*                                                                         *)
(* A stream takes a slot of its session (a counter in the registry entry,  *)
(* under the registry's lock) and then one of the global limit (an atomic  *)
(* counter, by load and compare-and-swap), opens its outbound connection   *)
(* or packet socket, and is relayed by three goroutines: a watcher of the  *)
(* session's context and one copier per direction.  Whichever ends first   *)
(* runs closeAll; the others find the sync.Once taken and wait for it.     *)
(* Meanwhile the session may end: its registry entry, with the counter,    *)
(* disappears and its context is cancelled.                                *)
(*                                                                         *)
(* TCP and UDP-over-TCP streams differ in how the outbound is opened: a    *)
(* TCP stream dials (Dial has the details), a UDP-over-TCP stream reads    *)
(* its request from the peer and opens a packet socket.                    *)
(***************************************************************************)
EXTENDS Naturals, FiniteSets

CONSTANTS
    Streams,               \* the streams
    Sess,                  \* the sessions, by connection id
    SessionOf,             \* [Streams -> Sess]
    UoT,                   \* the streams to a UDP-over-TCP magic address
    MaxStreamsPerSession,  \* max_streams_per_session; 0 means unlimited
    MaxConcurrentStreams   \* max_concurrent_streams; 0 means unlimited

ASSUME StreamsAssumption ==
    IsFiniteSet(Streams) /\ SessionOf \in [Streams -> Sess] /\ UoT \subseteq Streams
ASSUME LimitsAssumption ==
    MaxStreamsPerSession \in Nat /\ MaxConcurrentStreams \in Nat

VARIABLES
    pc,             \* [Streams -> Phases]
    loaded,         \* [Streams -> Nat], the value acquireCounter loaded
    activeStreams,  \* lw.activeStreams
    registered,     \* the keys of lw.registry.sessions
    sessStreams,    \* [Sess -> Nat], activeStreams of the registry entries
    ctxDone,        \* the sessions whose context is cancelled
    inOpen,         \* the streams whose inbound connection is open
    outOpen,        \* the streams whose outbound connection is open
    gor             \* [Streams -> [Goroutines -> state]] of relay

vars == <<pc, loaded, activeStreams, registered, sessStreams, ctxDone, inOpen,
          outOpen, gor>>

Phases == {"new", "load", "cas", "rollback", "refuse", "open", "listen",
           "report", "relay", "fail", "relGlobal", "relSession", "closing", "closed",
           "refused"}

Goroutines == {"watch", "up", "down"}

\* The streams that hold a slot of the global limit ...
GlobalHolders ==
    {s \in Streams : pc[s] \in {"open", "listen", "report", "relay", "fail", "relGlobal"}}

\* ... and of the limit of session x.
SessionHolders(x) ==
    {s \in Streams : /\ SessionOf[s] = x
                     /\ pc[s] \in {"load", "cas", "rollback", "open", "listen",
                                   "report", "relay", "fail", "relGlobal",
                                   "relSession"}}

\* Type correctness: no counter goes negative.
TypeOK ==
    /\ pc \in [Streams -> Phases]
    /\ loaded \in [Streams -> Nat]
    /\ activeStreams \in Nat
    /\ registered \subseteq Sess
    /\ sessStreams \in [Sess -> Nat]
    /\ ctxDone \subseteq Sess
    /\ inOpen \subseteq Streams /\ outOpen \subseteq Streams
    /\ gor \in [Streams -> [Goroutines -> {"none", "run", "closing", "out"}]]

Init ==
    /\ pc = [s \in Streams |-> "new"]
    /\ loaded = [s \in Streams |-> 0]
    /\ activeStreams = 0
    /\ registered = Sess
    /\ sessStreams = [x \in Sess |-> 0]
    /\ ctxDone = {}
    /\ inOpen = Streams
    /\ outOpen = {}
    /\ gor = [s \in Streams |-> [g \in Goroutines |-> "none"]]

Step(s, from, to) ==
    /\ pc[s] = from
    /\ pc' = [pc EXCEPT ![s] = to]

-----------------------------------------------------------------------------
(***************************************************************************)
(* acquireStream: the session's slot, then the global one.                 *)
(***************************************************************************)

\* acquireSessionStream: refused if the session is gone or full.
SessionAdmits(x) ==
    /\ x \in registered
    /\ MaxStreamsPerSession = 0 \/ sessStreams[x] < MaxStreamsPerSession

\* acquireSessionStream, one critical section of the registry's lock.
AcquireSession(s) ==
    LET x == SessionOf[s] IN
    /\ IF SessionAdmits(x)
          THEN /\ Step(s, "new", "load")
               /\ sessStreams' = [sessStreams EXCEPT ![x] = @ + 1]
          ELSE /\ Step(s, "new", "refuse")
               /\ UNCHANGED sessStreams
    /\ UNCHANGED <<loaded, activeStreams, registered, ctxDone, inOpen, outOpen, gor>>

\* Fault: the test of the global limit is off by one.
AcquireLoadOneMore(s) ==
    /\ Step(s, "load", IF activeStreams > MaxConcurrentStreams THEN "rollback" ELSE "cas")
    /\ loaded' = [loaded EXCEPT ![s] = activeStreams]
    /\ UNCHANGED <<activeStreams, registered, sessStreams, ctxDone, inOpen, outOpen, gor>>

\* acquireCounter loads the counter and tests it; without a limit it answers
\* at once.
AcquireLoad(s) ==
    /\ Step(s, "load", IF MaxConcurrentStreams = 0 THEN "open"
                       ELSE IF activeStreams >= MaxConcurrentStreams
                            THEN "rollback" ELSE "cas")
    /\ loaded' = [loaded EXCEPT ![s] = IF MaxConcurrentStreams = 0 THEN @
                                       ELSE activeStreams]
    /\ UNCHANGED <<activeStreams, registered, sessStreams, ctxDone, inOpen, outOpen, gor>>

\* The compare-and-swap: it succeeds, or the loop starts over.
AcquireCAS(s) ==
    /\ IF activeStreams = loaded[s]
          THEN Step(s, "cas", "open") /\ activeStreams' = activeStreams + 1
          ELSE Step(s, "cas", "load") /\ UNCHANGED activeStreams
    /\ UNCHANGED <<loaded, registered, sessStreams, ctxDone, inOpen, outOpen, gor>>

\* releaseSessionStream: only if the session is still registered.
DropSessionSlot(s) ==
    LET x == SessionOf[s] IN
    sessStreams' = [sessStreams EXCEPT
                       ![x] = IF x \in registered /\ @ > 0 THEN @ - 1 ELSE @]

\* The global limit refused: the session's slot is given back.
Rollback(s) ==
    /\ Step(s, "rollback", "refuse")
    /\ DropSessionSlot(s)
    /\ UNCHANGED <<loaded, activeStreams, registered, ctxDone, inOpen, outOpen, gor>>

\* NewConnectionEx reports the failure and closes the stream.
Refuse(s) ==
    /\ Step(s, "refuse", "refused")
    /\ inOpen' = inOpen \ {s}
    /\ UNCHANGED <<loaded, activeStreams, registered, sessStreams, ctxDone, outOpen, gor>>

-----------------------------------------------------------------------------
(***************************************************************************)
(* Opening the outbound and answering the peer.                            *)
(***************************************************************************)

OpenUnchanged ==
    UNCHANGED <<loaded, activeStreams, registered, sessStreams, ctxDone, inOpen, gor>>

\* A TCP stream: dialContext returns a connection ...
DialOK(s) ==
    /\ s \notin UoT
    /\ Step(s, "open", "report")
    /\ outOpen' = outOpen \cup {s}
    /\ OpenUnchanged

\* ... or an error.
DialFails(s) ==
    /\ s \notin UoT
    /\ Step(s, "open", "fail")
    /\ UNCHANGED outOpen
    /\ OpenUnchanged

\* A UDP-over-TCP stream: its request is read and, if it names a destination,
\* passes the policy ...
RequestOK(s) ==
    /\ s \in UoT
    /\ Step(s, "open", "listen")
    /\ UNCHANGED outOpen
    /\ OpenUnchanged

\* ... or is invalid or denied.
RequestFails(s) ==
    /\ s \in UoT
    /\ Step(s, "open", "fail")
    /\ UNCHANGED outOpen
    /\ OpenUnchanged

\* listenPacketContext returns a packet socket ...
ListenOK(s) ==
    /\ Step(s, "listen", "report")
    /\ outOpen' = outOpen \cup {s}
    /\ OpenUnchanged

\* ... or an error.
ListenFails(s) ==
    /\ Step(s, "listen", "fail")
    /\ UNCHANGED outOpen
    /\ OpenUnchanged

\* reportHandshakeSuccess succeeds and relay starts its goroutines.
ReportOK(s) ==
    /\ Step(s, "report", "relay")
    /\ gor' = [gor EXCEPT ![s] = [g \in Goroutines |-> "run"]]
    /\ UNCHANGED <<loaded, activeStreams, registered, sessStreams, ctxDone, inOpen,
                   outOpen>>

\* Fault: the outbound is forgotten when the answer cannot be sent.
ReportFailsLeak(s) ==
    /\ Step(s, "report", "fail")
    /\ UNCHANGED <<loaded, activeStreams, registered, sessStreams, ctxDone, inOpen,
                   outOpen, gor>>

\* reportHandshakeSuccess fails: the outbound is closed first.
ReportFails(s) ==
    /\ Step(s, "report", "fail")
    /\ outOpen' = outOpen \ {s}
    /\ UNCHANGED <<loaded, activeStreams, registered, sessStreams, ctxDone, inOpen, gor>>

-----------------------------------------------------------------------------
(***************************************************************************)
(* relay: closeAll and its three callers.                                  *)
(***************************************************************************)

\* Fault: closeAll without its sync.Once; a second caller releases again.
EnterCloseAlways(s, g) ==
    /\ gor' = [gor EXCEPT ![s][g] = "closing"]
    /\ pc' = [pc EXCEPT ![s] = "relGlobal"]
    /\ UNCHANGED <<loaded, activeStreams, registered, sessStreams, ctxDone, inOpen,
                   outOpen>>

\* Goroutine g calls closeAll: the first caller runs its body, which starts by
\* closing the channel done; the others wait in once.Do.
EnterClose(s, g) ==
    /\ gor' = [gor EXCEPT ![s][g] = "closing"]
    /\ pc' = IF pc[s] = "relay" THEN [pc EXCEPT ![s] = "relGlobal"] ELSE pc
    /\ UNCHANGED <<loaded, activeStreams, registered, sessStreams, ctxDone, inOpen,
                   outOpen>>

\* Fault: the watcher does not look at the session's context.
WatchCancelIgnored(s) == FALSE /\ EnterClose(s, "watch")

\* The watcher sees the session's context cancelled.
WatchCancel(s) ==
    /\ gor[s]["watch"] = "run" /\ SessionOf[s] \in ctxDone
    /\ EnterClose(s, "watch")

\* Fault: the watcher waits for the context only.
WatchDoneMissing(s) == FALSE /\ EnterClose(s, "watch")

\* The watcher sees the channel done closed.
WatchDone(s) ==
    /\ gor[s]["watch"] = "run" /\ pc[s] # "relay"
    /\ gor' = [gor EXCEPT ![s]["watch"] = "out"]
    /\ UNCHANGED <<pc, loaded, activeStreams, registered, sessStreams, ctxDone, inOpen,
                   outOpen>>

\* A copier ends: at the end of its stream, on an error, or because one of its
\* connections was closed.
CopyEnds(s, g) ==
    /\ g \in {"up", "down"} /\ gor[s][g] = "run"
    /\ EnterClose(s, g)

\* once.Do returns.
LeaveClose(s, g) ==
    /\ gor[s][g] = "closing" /\ pc[s] = "closed"
    /\ gor' = [gor EXCEPT ![s][g] = "out"]
    /\ UNCHANGED <<pc, loaded, activeStreams, registered, sessStreams, ctxDone, inOpen,
                   outOpen>>

\* The body calls closeOnce: releaseStream gives back the global slot ...
ReleaseGlobal(s) ==
    /\ pc[s] \in {"relGlobal", "fail"}
    /\ pc' = [pc EXCEPT ![s] = "relSession"]
    /\ activeStreams' = IF MaxConcurrentStreams > 0 THEN activeStreams - 1
                        ELSE activeStreams
    /\ UNCHANGED <<loaded, registered, sessStreams, ctxDone, inOpen, outOpen, gor>>

\* ... and then the session's.
ReleaseSession(s) ==
    /\ Step(s, "relSession", "closing")
    /\ DropSessionSlot(s)
    /\ UNCHANGED <<loaded, activeStreams, registered, ctxDone, inOpen, outOpen, gor>>

\* closeAll closes both connections.  On the failure paths, where relay was not
\* started, NewConnectionEx closes the inbound only.
Close(s) ==
    /\ Step(s, "closing", "closed")
    /\ inOpen' = inOpen \ {s}
    /\ outOpen' = IF gor[s]["watch"] = "none" THEN outOpen ELSE outOpen \ {s}
    /\ UNCHANGED <<loaded, activeStreams, registered, sessStreams, ctxDone, gor>>

-----------------------------------------------------------------------------
(***************************************************************************)
(* The session around the streams, as Sessions has it: unregisterSession   *)
(* deletes the entry with its counter and precedes the deferred cancel;    *)
(* Cleanup may have cancelled the context before.                          *)
(***************************************************************************)

SessionUnregister(x) ==
    /\ x \in registered
    /\ registered' = registered \ {x}
    /\ sessStreams' = [sessStreams EXCEPT ![x] = 0]
    /\ UNCHANGED <<pc, loaded, activeStreams, ctxDone, inOpen, outOpen, gor>>

SessionCancel(x) ==
    /\ x \notin ctxDone
    /\ ctxDone' = ctxDone \cup {x}
    /\ UNCHANGED <<pc, loaded, activeStreams, registered, sessStreams, inOpen, outOpen, gor>>

-----------------------------------------------------------------------------
\* The outbound is opened, or fails to.
Opening(s) ==
    \/ DialOK(s) \/ DialFails(s) \/ RequestOK(s) \/ RequestFails(s)
    \/ ListenOK(s) \/ ListenFails(s)

\* Steps a stream's goroutines take by themselves.
Internal(s) ==
    \/ AcquireLoad(s) \/ AcquireCAS(s) \/ Rollback(s) \/ Refuse(s)
    \/ ReportOK(s) \/ ReportFails(s)
    \/ WatchCancel(s) \/ WatchDone(s) \/ \E g \in Goroutines : LeaveClose(s, g)
    \/ ReleaseGlobal(s) \/ ReleaseSession(s) \/ Close(s)

Finished(s) ==
    /\ pc[s] \in {"closed", "refused"}
    /\ \A g \in Goroutines : gor[s][g] \in {"none", "out"}

Terminating ==
    /\ \A s \in Streams : Finished(s)
    /\ registered = {} /\ ctxDone = Sess
    /\ UNCHANGED vars

Next ==
    \/ \E s \in Streams : \/ Internal(s) \/ AcquireSession(s)
                          \/ Opening(s)
                          \/ \E g \in {"up", "down"} : CopyEnds(s, g)
    \/ \E x \in Sess : SessionUnregister(x) \/ SessionCancel(x)
    \/ Terminating

\* Goroutines run; dialling honours its context and a session that ends closes
\* its streams, so that opening an outbound returns; a copier ends once a connection of it is closed.
\* No peer has to end a stream, and no session has to end.
Fairness ==
    \A s \in Streams :
        /\ WF_vars(Internal(s))
        /\ WF_vars(SessionOf[s] \in ctxDone /\ Opening(s))
        /\ \A g \in {"up", "down"} : WF_vars(pc[s] = "closed" /\ CopyEnds(s, g))

Spec == Init /\ [][Next]_vars

FairSpec == Spec /\ Fairness

-----------------------------------------------------------------------------
(***************************************************************************)
(* Properties.                                                             *)
(***************************************************************************)

\* Part of StreamSlots: lw.activeStreams is the number of streams between their compare-and-swap
\* and their release, whichever of the three relay goroutines releases.
GlobalAccounting ==
    activeStreams = IF MaxConcurrentStreams = 0 THEN 0 ELSE Cardinality(GlobalHolders)

\* Part of StreamSlots: the counter in a registry entry is the number of its session's streams that
\* hold a slot, including one that is trying the global limit: neither a
\* rollback nor the end of another session's streams disturbs it.
SessionAccounting ==
    \A x \in registered : sessStreams[x] = Cardinality(SessionHolders(x))

\* Part of StreamSlots: both limits hold, also for streams whose session is gone.
StreamLimits ==
    /\ MaxConcurrentStreams > 0 => Cardinality(GlobalHolders) <= MaxConcurrentStreams
    /\ MaxStreamsPerSession > 0 =>
          \A x \in Sess : Cardinality(SessionHolders(x)) <= MaxStreamsPerSession

\* The slots of both limits at every instant: no counter is negative, both are
\* exact, and neither limit is exceeded, whichever goroutine releases and
\* whenever the session's entry disappears.
StreamSlots == TypeOK /\ GlobalAccounting /\ SessionAccounting /\ StreamLimits

\* What a stream looks like to max_concurrent_streams: one that its session
\* refused never asked; the one refused by the limit is known by the count it
\* loaded.
PoolState(s) ==
    IF s \in GlobalHolders THEN "held"
    ELSE IF pc[s] \in {"relSession", "closing", "closed"} THEN "released"
    ELSE IF /\ pc[s] \in {"rollback", "refuse", "refused"}
            /\ MaxConcurrentStreams > 0 /\ loaded[s] >= MaxConcurrentStreams
         THEN "refused"
    ELSE "idle"

StreamPool == INSTANCE BoundedPool
    WITH Clients <- Streams, Limit <- MaxConcurrentStreams,
         state <- [s \in Streams |-> PoolState(s)]

\* acquireStream and releaseStream implement the bounded pool for the global
\* limit: a stream is refused by it only while as many streams as it allows hold
\* a slot, and each gives its slot back once.
ImplementsStreamPool == StreamPool!PoolSpec

\* No path leaves a connection behind: a stream that is over has closed its
\* inbound and, on every path that opened one, its outbound.
NoConnectionLeak ==
    \A s \in Streams : pc[s] \in {"closed", "refused"} => s \notin inOpen \cup outOpen

\* Once its session's context is cancelled a stream that was started ends, and
\* all of its goroutines return: none waits in once.Do, on done, or in a copy.
CancelEndsStreams ==
    \A s \in Streams :
        (pc[s] # "new" /\ SessionOf[s] \in ctxDone) ~> Finished(s)

\* Either direction ending, for whatever reason, ends the whole stream.
CopyEndEndsStream ==
    \A s \in Streams : (\E g \in Goroutines : gor[s][g] = "closing") ~> Finished(s)

=============================================================================
