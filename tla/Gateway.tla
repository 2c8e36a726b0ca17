------------------------------ MODULE Gateway -------------------------------
(***************************************************************************)
(* The composition of Listener and Sessions for one loaded configuration.  *)
(*                                                                         *)
(* The two meet in routeBufferedConn: the goroutine that probed a          *)
(* connection calls acquire() and, if admitted, starts serveAnyTLS.  A     *)
(* step of routeBufferedConn is therefore a step of both components; every *)
(* other step belongs to one of them.                                      *)
(*                                                                         *)
(* External: Caddy unloads a configuration by stopping its HTTP servers,   *)
(* which closes the wrapped listener, and then running Cleanup().          *)
(***************************************************************************)
EXTENDS Naturals, FiniteSets

CONSTANTS Conns, TLSConns, Silent, MaxPending, ProbeTimeout, Fallback,
          MaxConcurrent, IdleTimeout

\* Provision replaces a limit of 0 (Config), so that it is the compare-and-swap
\* that admits a session.
ASSUME LimitAssumption == MaxConcurrent > 0

VARIABLES phase, holding, loop, slots, done, terminalErr, lnOpen, closer,
          accepter, shadow

VARIABLES pc, loaded, active, sessions, open, cancelled, cleanup, snapshot

L == INSTANCE Listener
S == INSTANCE Sessions

listenerVars == <<phase, holding, loop, slots, done, terminalErr, lnOpen,
                  closer, accepter, shadow>>
sessionVars == <<pc, loaded, active, sessions, open, cancelled, cleanup, snapshot>>

vars == <<listenerVars, sessionVars>>

Init == L!Init /\ S!Init

-----------------------------------------------------------------------------
\* Steps of routeBufferedConn that involve both components.
RouteAnyTLS(c) == L!RouteAnyTLS(c) /\ S!Detect(c)

Admit(c) == S!AcquireCAS(c) /\ L!Admitted(c)

Refuse(c) == S!Refuse(c) /\ L!Refused(c)

\* Steps of the listener alone.
Probing(c) ==
    /\ \/ L!HandshakeOK(c) \/ L!HandshakeFails(c) \/ L!RouteWebsite(c)
       \/ L!RouteProbeError(c) \/ L!RouteReject(c)
    /\ UNCHANGED sessionVars

\* Fault: serveAnyTLS is called on the probing goroutine, not started with
\* "go", so that the probe slot is held for as long as the session lasts.
ReleaseSlotAfterSession(c) ==
    /\ L!ReleaseSlot(c)
    /\ phase[c] = "anytls" => pc[c] = "done"
    /\ UNCHANGED sessionVars

\* The deferred release of the probe slot when routeBufferedConn returned.
ReleaseSlot(c) == L!ReleaseSlot(c) /\ UNCHANGED sessionVars

Website(c) ==
    /\ L!Prepare(c) \/ L!DropOnDone(c) \/ L!HandOver(c) \/ L!WebsiteClosed(c)
    /\ UNCHANGED sessionVars

Loop ==
    /\ L!LoopStep \/ L!LoopError \/ \E c \in Conns : L!ListenerAccept(c)
    /\ UNCHANGED sessionVars

Server ==
    /\ L!ServerAccept \/ L!AcceptDone \/ L!CloseListener \/ L!CloseStop
    /\ UNCHANGED sessionVars

\* Steps of the sessions alone.
Admission(c) ==
    /\ S!AcquireLoad(c) \/ S!AcquireRetry(c)
    /\ UNCHANGED listenerVars

Serve(c) ==
    /\ \/ S!Arm(c) \/ S!Register(c) \/ S!CloseConn(c) \/ S!Unregister(c)
       \/ S!Cancel(c) \/ S!Release(c)
    /\ UNCHANGED listenerVars

SessionEnds(c) ==
    /\ S!ServiceReturns(c) \/ S!IdleExpire(c)
    /\ UNCHANGED listenerVars

\* Fault: Cleanup closes every connection the wrapper knows of, the website
\* connections included.
UnloadClosesAll ==
    /\ closer = "returned"
    /\ \/ /\ cleanup = "idle"
          /\ cleanup' = "closing"
          /\ snapshot' = holding \cup sessions
          /\ UNCHANGED <<pc, loaded, active, sessions, open, cancelled>>
       \/ \E c \in Conns : S!CleanupClose(c)
       \/ S!CleanupReturn
    /\ UNCHANGED listenerVars

\* Cleanup() runs after the listener was closed.
Unload ==
    /\ closer = "returned"
    /\ S!CleanupStep
    /\ UNCHANGED listenerVars

Terminating ==
    /\ L!Quiescent /\ cleanup = "done"
    /\ \A c \in Conns : pc[c] \in {"probing", "refused", "done"}
    /\ UNCHANGED vars

Route(c) ==
    \/ RouteAnyTLS(c) \/ Admit(c) \/ Refuse(c)
    \/ Probing(c) \/ Admission(c) \/ ReleaseSlot(c) \/ Website(c)

Next ==
    \/ \E c \in Conns : Route(c) \/ Serve(c) \/ SessionEnds(c)
    \/ Loop \/ Server \/ Unload \/ Terminating

\* The fairness of the two components; the listener's assumption that
\* acquire() answers is replaced by the steps of the admission loop.
Fairness ==
    /\ WF_vars(L!LoopStep /\ UNCHANGED sessionVars)
    /\ WF_vars((\E c \in Conns : L!ListenerAccept(c)) /\ UNCHANGED sessionVars)
    /\ WF_vars(~lnOpen /\ L!LoopError /\ UNCHANGED sessionVars)
    /\ WF_vars((L!ServerAccept \/ L!AcceptDone \/ L!CloseStop) /\ UNCHANGED sessionVars)
    /\ \A c \in Conns :
          /\ WF_vars(L!Prompt(c) /\ (Probing(c) \/ RouteAnyTLS(c)))
          /\ WF_vars(Admission(c) \/ Admit(c) \/ Refuse(c))
          /\ WF_vars((L!Prepare(c) \/ L!DropOnDone(c)) /\ UNCHANGED sessionVars)
          /\ WF_vars(ReleaseSlot(c))
          /\ SF_vars(L!HandOver(c) /\ UNCHANGED sessionVars)
          /\ WF_vars(Serve(c))
          /\ WF_vars(~open[c] /\ S!ServiceReturns(c) /\ UNCHANGED listenerVars)
    /\ WF_vars(cleanup = "closing" /\ Unload)

Spec == Init /\ [][Next]_vars

FairSpec == Spec /\ Fairness

-----------------------------------------------------------------------------
\* A connection has one owner.  One that goes to the website was never touched
\* by the session code, and neither Cleanup nor an idle timer closes it; one
\* the listener gave to AnyTLS is at most once in the session code; a
\* connection the listener closed at the limit is closed for both.
OneOwner ==
    \A c \in Conns :
        /\ phase[c] \in {"queued", "prepare", "ready", "website"} =>
              pc[c] = "probing" /\ open[c] /\ c \notin snapshot
        /\ (phase[c] = "anytls") <=> (pc[c] \in S!HolderPhases \cup {"done"})
        /\ pc[c] = "refused" => phase[c] = "closed"

\* A session, however long it lasts, does not keep the probe slot under which
\* its connection was detected.
SessionFreesProbeSlot ==
    \A c \in Conns : phase[c] = "anytls" ~> c \notin holding

\* What the comment on Cleanup, the README and docs/product.md say: once the
\* configuration is unloaded no AnyTLS session is served under it.
NoSessionAfterUnload ==
    cleanup = "done" => \A c \in Conns : ~(pc[c] = "serving" /\ open[c])

=============================================================================
