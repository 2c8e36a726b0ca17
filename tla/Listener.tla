------------------------------ MODULE Listener ------------------------------
(***************************************************************************)
(* wrappedListener (listener.go): the accept loop, the bounded set of      *)
(* goroutines that hand-shake and classify accepted connections, the       *)
(* unbuffered channel on which website connections wait for Caddy's HTTP   *)
(* server, the shutdown protocol, and the table of shadow TLS states kept  *)
(* for website connections (anytls.go:prepareWebsiteConn).                 *)
(*                                                                         *)
(* What the first bytes of a connection are is left open here: the probe   *)
(* of a connection may have any of the outcomes of classifyBufferedConn.   *)
(* Whether an AnyTLS connection is admitted is the business of Sessions;   *)
(* here both answers of acquire() are possible.                            *)
(***************************************************************************)
EXTENDS Naturals, FiniteSets

CONSTANTS
    Conns,          \* the connections that arrive at the inner listener
    TLSConns,       \* those the inner listener returns as *tls.Conn
    Silent,         \* those whose peer may never send what the probe waits for
    MaxPending,     \* max_pending_probes, the capacity of probeSlots
    ProbeTimeout,   \* TRUE iff probe_timeout > 0
    Fallback        \* the option "fallback"

ASSUME ConnsAssumption ==
    IsFiniteSet(Conns) /\ TLSConns \subseteq Conns /\ Silent \subseteq Conns
ASSUME MaxPendingAssumption == MaxPending \in Nat \ {0}
ASSUME OptionsAssumption == ProbeTimeout \in BOOLEAN /\ Fallback \in BOOLEAN

VARIABLES
    phase,        \* [Conns -> Phases], how far the connection is
    holding,      \* connections whose processAcceptedConn has not returned
    loop,         \* where acceptLoop is
    slots,        \* len(probeSlots)
    done,         \* TRUE once the channel done is closed
    terminalErr,  \* "none", "closed" or "accept"
    lnOpen,       \* the inner listener is open
    closer,       \* the progress of Close()
    accepter,     \* the HTTP server: "out", "in" Accept(), or the error it got
    shadow        \* the keys of lw.websiteConns

vars == <<phase, holding, loop, slots, done, terminalErr, lnOpen, closer,
          accepter, shadow>>

Phases == {"queued", "handshake", "probe", "prepare", "admit", "ready",
           "website", "finished", "anytls", "closed"}

\* The phases during which processAcceptedConn still works on the connection.
Undecided == {"handshake", "probe", "prepare", "admit", "ready"}

\* net.ErrClosed and an error of the inner Accept.
Errors == {"closed", "accept"}

\* Type correctness.
TypeOK ==
    /\ phase \in [Conns -> Phases]
    /\ holding \subseteq Conns
    /\ loop \in {"off", "slot", "accept", "failed", "exited"}
    /\ slots \in 0 .. MaxPending
    /\ done \in BOOLEAN
    /\ terminalErr \in {"none"} \cup Errors
    /\ lnOpen \in BOOLEAN
    /\ closer \in {"idle", "stopping", "returned"}
    /\ accepter \in {"out", "in"} \cup Errors
    /\ shadow \subseteq Conns

Init ==
    /\ phase = [c \in Conns |-> "queued"]
    /\ holding = {}
    /\ loop = "off"
    /\ slots = 0
    /\ done = FALSE
    /\ terminalErr = "none"
    /\ lnOpen = TRUE
    /\ closer = "idle"
    /\ accepter = "out"
    /\ shadow = {}

Move(c, from, to) ==
    /\ phase[c] = from
    /\ phase' = [phase EXCEPT ![c] = to]

-----------------------------------------------------------------------------
(***************************************************************************)
(* stop, Close and Accept.                                                 *)
(***************************************************************************)

\* Fault: stop() without its sync.Once, so that the last error wins.
StopAlways(err) ==
    /\ done' = TRUE
    /\ terminalErr' = err

\* stop(): only the first caller records its error and closes done.
Stop(err) ==
    /\ done' = TRUE
    /\ terminalErr' = IF done THEN terminalErr ELSE err

\* Close() closes the inner listener first ...
CloseListener ==
    /\ closer = "idle"
    /\ closer' = "stopping"
    /\ lnOpen' = FALSE
    /\ UNCHANGED <<phase, holding, loop, slots, done, terminalErr, accepter, shadow>>

\* ... and then stops the wrapper.
CloseStop ==
    /\ closer = "stopping"
    /\ closer' = "returned"
    /\ Stop("closed")
    /\ UNCHANGED <<phase, holding, loop, slots, lnOpen, accepter, shadow>>

\* The HTTP server calls Accept(); the first call starts the accept loop.
ServerAccept ==
    /\ accepter = "out"
    /\ accepter' = "in"
    /\ loop' = IF loop = "off" THEN "slot" ELSE loop
    /\ UNCHANGED <<phase, holding, slots, done, terminalErr, lnOpen, closer, shadow>>

\* Accept() and processAcceptedConn meet on the unbuffered channel ready.
HandOver(c) ==
    /\ accepter = "in"
    /\ accepter' = "out"
    /\ Move(c, "ready", "website")
    /\ UNCHANGED <<holding, loop, slots, done, terminalErr, lnOpen, closer, shadow>>

getTerminalError == IF terminalErr = "none" THEN "closed" ELSE terminalErr

\* Accept() sees done and returns the terminal error; the server stops.
AcceptDone ==
    /\ accepter = "in" /\ done
    /\ accepter' = getTerminalError
    /\ UNCHANGED <<phase, holding, loop, slots, done, terminalErr, lnOpen, closer, shadow>>

-----------------------------------------------------------------------------
(***************************************************************************)
(* acceptLoop.                                                             *)
(***************************************************************************)

\* A slot is taken before a connection is accepted.
LoopTakeSlot ==
    /\ loop = "slot" /\ slots < MaxPending
    /\ loop' = "accept"
    /\ slots' = slots + 1
    /\ UNCHANGED <<phase, holding, done, terminalErr, lnOpen, closer, accepter, shadow>>

\* The loop waits for a slot and sees done.
LoopDone ==
    /\ loop = "slot" /\ done
    /\ loop' = "exited"
    /\ UNCHANGED <<phase, holding, slots, done, terminalErr, lnOpen, closer, accepter, shadow>>

\* A connection is accepted; the slot now belongs to its goroutine.
ListenerAccept(c) ==
    /\ loop = "accept" /\ lnOpen
    /\ loop' = "slot"
    /\ Move(c, "queued", IF c \in TLSConns THEN "handshake" ELSE "probe")
    /\ holding' = holding \cup {c}
    /\ UNCHANGED <<slots, done, terminalErr, lnOpen, closer, accepter, shadow>>

\* Fault: the error path keeps the slot it has taken.
LoopErrorKeepsSlot ==
    /\ loop = "accept"
    /\ loop' = "failed"
    /\ UNCHANGED <<phase, holding, slots, done, terminalErr, lnOpen, closer, accepter, shadow>>

\* The inner Accept fails: because it was closed, or for a reason of its own
\* (an open listener may fail at any time).  The slot is given back.
LoopError ==
    /\ loop = "accept"
    /\ loop' = "failed"
    /\ slots' = slots - 1
    /\ UNCHANGED <<phase, holding, done, terminalErr, lnOpen, closer, accepter, shadow>>

\* Fault: the loop gives up without telling anyone.
LoopExitSilently ==
    /\ loop = "failed"
    /\ loop' = "exited"
    /\ UNCHANGED <<phase, holding, slots, done, terminalErr, lnOpen, closer, accepter, shadow>>

\* The loop ends; unless done is already closed it records the error.  Any
\* error ends the loop for good, a passing one as well.
LoopExit ==
    /\ loop = "failed"
    /\ loop' = "exited"
    /\ IF done THEN UNCHANGED <<done, terminalErr>> ELSE Stop("accept")
    /\ UNCHANGED <<phase, holding, slots, lnOpen, closer, accepter, shadow>>

-----------------------------------------------------------------------------
(***************************************************************************)
(* processAcceptedConn, one goroutine per accepted connection.             *)
(***************************************************************************)

rest == <<loop, slots, done, terminalErr, lnOpen, closer, accepter>>

HandshakeOK(c) ==
    /\ Move(c, "handshake", "probe")
    /\ UNCHANGED <<holding, shadow, rest>>

\* The handshake fails or times out: the connection is closed.
HandshakeFails(c) ==
    /\ Move(c, "handshake", "closed")
    /\ UNCHANGED <<holding, shadow, rest>>

\* routeBufferedConn with DecisionFallback and no error (the website fast
\* path, or a connection closed under the probe).  Fallback is not consulted.
RouteWebsite(c) ==
    /\ Move(c, "probe", "prepare")
    /\ UNCHANGED <<holding, shadow, rest>>

\* routeBufferedConn with an error and DecisionFallback: the probe timed out,
\* the preview was short or matched no user.
RouteProbeError(c) ==
    /\ Move(c, "probe", IF Fallback THEN "prepare" ELSE "closed")
    /\ UNCHANGED <<holding, shadow, rest>>

\* routeBufferedConn with an error and DecisionReject: a disabled user.
RouteReject(c) ==
    /\ Move(c, "probe", "closed")
    /\ UNCHANGED <<holding, shadow, rest>>

\* routeBufferedConn with DecisionAnyTLS: acquire() is asked.
RouteAnyTLS(c) ==
    /\ Move(c, "probe", "admit")
    /\ UNCHANGED <<holding, shadow, rest>>

\* acquire() answers TRUE: serveAnyTLS owns the connection from now on.
Admitted(c) ==
    /\ Move(c, "admit", "anytls")
    /\ UNCHANGED <<holding, shadow, rest>>

\* acquire() answers FALSE: the connection is closed.
Refused(c) ==
    /\ Move(c, "admit", "closed")
    /\ UNCHANGED <<holding, shadow, rest>>

\* prepareWebsiteConn records the TLS state before the connection is offered.
\* A connection without TLS is offered as it is.
Prepare(c) ==
    /\ Move(c, "prepare", "ready")
    /\ shadow' = IF c \in TLSConns THEN shadow \cup {c} ELSE shadow
    /\ UNCHANGED <<holding, rest>>

\* Fault: processAcceptedConn offers the connection without watching done.
DropNever(c) ==
    /\ FALSE
    /\ Move(c, "ready", "closed")
    /\ UNCHANGED <<holding, shadow, rest>>

\* processAcceptedConn sees done instead of an Accept(): the connection is
\* closed.  Its shadow state is left in the table.
DropOnDone(c) ==
    /\ done
    /\ Move(c, "ready", "closed")
    /\ UNCHANGED <<holding, shadow, rest>>

\* The deferred receive from probeSlots.
ReleaseSlot(c) ==
    /\ c \in holding /\ phase[c] \notin Undecided
    /\ holding' = holding \ {c}
    /\ slots' = slots - 1
    /\ UNCHANGED <<phase, loop, done, terminalErr, lnOpen, closer, accepter, shadow>>

\* Fault: cleanupWebsiteConn does not react to StateHijacked/StateClosed.
WebsiteClosedKeepsShadow(c) ==
    /\ Move(c, "website", "finished")
    /\ UNCHANGED <<holding, shadow, rest>>

\* The HTTP server reports StateClosed or StateHijacked: cleanupWebsiteConn.
WebsiteClosed(c) ==
    /\ Move(c, "website", "finished")
    /\ shadow' = shadow \ {c}
    /\ UNCHANGED <<holding, rest>>

-----------------------------------------------------------------------------
\* What the goroutine of a connection does when its peer or a deadline lets it.
Probing(c) ==
    \/ HandshakeOK(c) \/ HandshakeFails(c) \/ RouteWebsite(c)
    \/ RouteProbeError(c) \/ RouteReject(c) \/ RouteAnyTLS(c)

\* What it does without waiting for a peer.
Deciding(c) ==
    \/ Prepare(c) \/ Admitted(c) \/ Refused(c) \/ DropOnDone(c) \/ ReleaseSlot(c)

LoopStep == LoopTakeSlot \/ LoopDone \/ LoopExit

Quiescent ==
    /\ closer = "returned" /\ accepter \in Errors /\ loop = "exited"
    /\ holding = {}
    /\ \A c \in Conns : phase[c] # "website"

\* Nothing is left to do once the listener is closed and drained.
Terminating == Quiescent /\ UNCHANGED vars

Next ==
    \/ \E c \in Conns : \/ ListenerAccept(c) \/ Probing(c) \/ Deciding(c)
                        \/ HandOver(c) \/ WebsiteClosed(c)
    \/ LoopStep \/ LoopError
    \/ ServerAccept \/ AcceptDone
    \/ CloseListener \/ CloseStop
    \/ Terminating

\* A probe ends for sure if there is a deadline or the peer is not silent.
Prompt(c) == ProbeTimeout \/ c \notin Silent

\* Goroutines run; net/http calls Accept() again until it fails; the inner
\* listener delivers what is queued, and its Accept fails once it is closed.
\* Nothing forces Close() to be called, only to be finished.
Fairness ==
    /\ WF_vars(LoopStep)
    /\ WF_vars(\E c \in Conns : ListenerAccept(c))
    /\ WF_vars(~lnOpen /\ LoopError)
    /\ WF_vars(ServerAccept) /\ WF_vars(AcceptDone) /\ WF_vars(CloseStop)
    /\ \A c \in Conns :
          /\ WF_vars(Deciding(c))
          /\ WF_vars(Prompt(c) /\ Probing(c))
          /\ SF_vars(HandOver(c))

Spec == Init /\ [][Next]_vars

FairSpec == Spec /\ Fairness

-----------------------------------------------------------------------------
(***************************************************************************)
(* Properties.                                                             *)
(***************************************************************************)

\* The tokens in probeSlots are those of the goroutines at work and of an
\* accept loop waiting in Accept: no path, the error paths included, loses a
\* token (a lost one would shrink max_pending_probes for good) or returns one
\* it does not have.  Every connection in handshake or probe has one, so that at
\* most max_pending_probes are (slots, by its type, is at most MaxPending).
SlotAccounting ==
    /\ TypeOK
    /\ slots = Cardinality(holding) + (IF loop = "accept" THEN 1 ELSE 0)
    /\ {c \in Conns : phase[c] \in Undecided} \subseteq holding

\* The error Accept() reports is the first one: whichever of Close() and the
\* accept loop stops the listener first, it stays stopped for that reason.
TerminalErrorStable ==
    [][/\ done => done' /\ terminalErr' = terminalErr
       /\ accepter' \in Errors => accepter' = terminalErr]_vars

\* Until shutdown the table of shadow TLS states holds exactly the website
\* connections over TLS that are waiting for or served by the HTTP server:
\* a handler always finds the TLS state, and the table does not leak.
ShadowTracksWebsite ==
    /\ {c \in TLSConns : phase[c] \in {"ready", "website"}} \subseteq shadow
    /\ ~done => shadow \subseteq {c \in TLSConns : phase[c] \in {"ready", "website"}}

\* A silent peer does not keep the others out: every other connection that
\* arrives is accepted and routed, unless the listener is stopped.  Without a
\* probe deadline this needs fewer silent peers than slots.
OthersAreRouted ==
    (ProbeTimeout \/ Cardinality(Silent) < MaxPending) =>
        \A c \in Conns :
            (Prompt(c) /\ phase[c] = "queued") ~>
                (phase[c] \notin Undecided \cup {"queued"} \/ done \/ ~lnOpen)

\* Once the listener is stopped, by Close() or by an accept error, everything
\* winds down: the accept loop and the HTTP server's Accept() return, and every
\* connection in flight is decided and gives its slot back.
StopDrains ==
    done ~> /\ loop = "exited"
            /\ accepter \in Errors
            /\ \A c \in Conns : Prompt(c) => c \notin holding

=============================================================================
