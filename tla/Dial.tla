-------------------------------- MODULE Dial --------------------------------
(***************************************************************************)
(* dialContext and drainDialResults (handler.go): the destination is       *)
(* validated and resolved (Egress has the details), then its addresses are *)
(* tried by staggered, racing connection attempts, all of it under one     *)
(* connect_timeout.                                                        *)
(*                                                                         *)
(* Every attempt runs in a goroutine that ends by sending its result on    *)
(* the unbuffered channel results, so a result nobody receives is a        *)
(* goroutine that never ends and, if it is a connection, a leaked socket.  *)
(* The loop receives results, starts the next attempt when one fails or    *)
(* when the fallback timer fires, and returns on the first connection, on  *)
(* the end of its context, or when every attempt failed.  The attempts     *)
(* still in flight are handed to drainDialResults.                         *)
(***************************************************************************)
EXTENDS Naturals, FiniteSets

CONSTANTS
    MaxAddrs,        \* bound on the number of resolved addresses
    ConnectTimeout   \* TRUE iff connect_timeout > 0

ASSUME MaxAddrsAssumption == MaxAddrs \in Nat \ {0}
ASSUME ConnectTimeoutAssumption == ConnectTimeout \in BOOLEAN

VARIABLES
    addrs,     \* len(resolvedDestinations), at least 1 once it is resolved
    pc,        \* "resolve", "loop" or "returned"
    result,    \* what dialContext returned: "none", "conn" or "err"
    winner,    \* the attempt whose connection was returned, or 0
    next,      \* the next address, counted from 1 (the code counts from 0)
    inFlight,  \* the loop's count of attempts not received yet
    dials,     \* [1 .. MaxAddrs -> DialStates]
    timer,     \* the fallback timer: "armed", "fired" or "stopped"
    timerC,    \* fallbackTimerC is not nil
    ctxDone,   \* ctx: the session was cancelled or connect_timeout elapsed
    dialDone,  \* dialCtx is cancelled
    drain,     \* results drainDialResults still waits for
    conns      \* the attempts whose connection is open

vars == <<addrs, pc, result, winner, next, inFlight, dials, timer, timerC, ctxDone,
          dialDone, drain, conns>>

Addrs == 1 .. MaxAddrs

\* "ok", "err" and "nil" are results waiting to be sent: a connection, an
\* error, and a nil connection without an error.
Results == {"ok", "err", "nil"}

DialStates == {"idle", "dialing", "ended"} \cup Results

\* The attempts whose goroutine has not ended.
Running == {i \in Addrs : dials[i] \notin {"idle", "ended"}}

Init ==
    /\ addrs = 0
    /\ pc = "resolve" /\ result = "none" /\ winner = 0
    /\ next = 1
    /\ inFlight = 0
    /\ dials = [i \in Addrs |-> "idle"]
    /\ timer = "stopped" /\ timerC = FALSE
    /\ ctxDone = FALSE /\ dialDone = FALSE
    /\ drain = 0
    /\ conns = {}

-----------------------------------------------------------------------------
\* External: the attempt ends with a connection, an error or nothing.  An
\* attempt may still succeed after its context was cancelled.
DialEnds(i, r) ==
    /\ dials[i] = "dialing"
    /\ dials' = [dials EXCEPT ![i] = r]
    /\ conns' = IF r = "ok" THEN conns \cup {i} ELSE conns
    /\ UNCHANGED <<addrs, pc, result, winner, next, inFlight, timer, timerC, ctxDone,
                   dialDone, drain>>

\* External: the session is cancelled or connect_timeout elapses; dialCtx is
\* derived from ctx.
CtxDone ==
    /\ ~ctxDone
    /\ ctxDone' = TRUE /\ dialDone' = TRUE
    /\ UNCHANGED <<addrs, pc, result, winner, next, inFlight, dials, timer, timerC,
                   drain, conns>>

TimerFires ==
    /\ timer = "armed"
    /\ timer' = "fired"
    /\ UNCHANGED <<addrs, pc, result, winner, next, inFlight, dials, timerC, ctxDone,
                   dialDone, drain, conns>>

\* validateStreamDestination returns n addresses.  The first attempt is launched
\* before the loop; with a single address the timer's channel is nil.
Resolved(n) ==
    /\ pc = "resolve" /\ pc' = "loop"
    /\ addrs' = n
    /\ next' = 2 /\ inFlight' = 1
    /\ dials' = [dials EXCEPT ![1] = "dialing"]
    /\ timer' = "armed" /\ timerC' = (n > 1)
    /\ UNCHANGED <<result, winner, ctxDone, dialDone, drain, conns>>

\* The policy refuses, or the resolver fails or does not answer in time.
ResolveFails ==
    /\ pc = "resolve" /\ pc' = "returned" /\ result' = "err"
    /\ UNCHANGED <<addrs, winner, next, inFlight, dials, timer, timerC, ctxDone, dialDone,
                   drain, conns>>

Resolution == ResolveFails \/ \E n \in Addrs : Resolved(n)

\* Fault: the attempts in flight are counted before the winner is taken off.
ReturnCountingWinner(res, w, remaining) ==
    /\ pc' = "returned" /\ result' = res /\ winner' = w
    /\ dialDone' = TRUE /\ timer' = "stopped"
    /\ drain' = IF w # 0 THEN remaining + 1 ELSE remaining

\* dialContext returns: dialCtx is cancelled, the timer stopped, and what is
\* still in flight is left to drainDialResults.
Return(res, w, remaining) ==
    /\ pc' = "returned" /\ result' = res /\ winner' = w
    /\ dialDone' = TRUE /\ timer' = "stopped"
    /\ drain' = remaining

\* The loop receives the connection of attempt i and returns it.
ReceiveConn(i) ==
    /\ pc = "loop" /\ dials[i] = "ok"
    /\ dials' = [dials EXCEPT ![i] = "ended"]
    /\ inFlight' = inFlight - 1
    /\ Return("conn", i, inFlight - 1)
    /\ UNCHANGED <<addrs, next, timerC, ctxDone, conns>>

\* Fault: the timer's channel stays in use after the last address.
ReceiveFailureKeepTimer(i) ==
    /\ pc = "loop" /\ dials[i] \in {"err", "nil"}
    /\ next <= addrs
    /\ dials' = [dials EXCEPT ![i] = "ended", ![next] = "dialing"]
    /\ next' = next + 1
    /\ timer' = "armed"
    /\ UNCHANGED <<addrs, pc, result, winner, inFlight, timerC, ctxDone, dialDone, drain, conns>>

\* The loop receives a failure and launches the next address at once; the
\* timer is reset (which discards a tick that was not received).
ReceiveFailure(i) ==
    /\ pc = "loop" /\ dials[i] \in {"err", "nil"}
    /\ next <= addrs
    /\ dials' = [dials EXCEPT ![i] = "ended", ![next] = "dialing"]
    /\ next' = next + 1
    /\ timer' = "armed"
    /\ timerC' = (next + 1 <= addrs)
    /\ UNCHANGED <<addrs, pc, result, winner, inFlight, ctxDone, dialDone, drain, conns>>

\* Fault: the first failure after the last address ends the loop, although
\* other attempts are in flight.
ReceiveLastFailureGivesUp(i) ==
    /\ pc = "loop" /\ dials[i] \in {"err", "nil"}
    /\ next > addrs
    /\ dials' = [dials EXCEPT ![i] = "ended"]
    /\ inFlight' = inFlight - 1
    /\ Return("err", 0, inFlight - 1)
    /\ UNCHANGED <<addrs, next, timerC, ctxDone, conns>>

\* The loop receives a failure and no address is left; it ends when no attempt
\* is in flight any more.
ReceiveLastFailure(i) ==
    /\ pc = "loop" /\ dials[i] \in {"err", "nil"}
    /\ next > addrs
    /\ dials' = [dials EXCEPT ![i] = "ended"]
    /\ inFlight' = inFlight - 1
    /\ IF inFlight = 1 THEN Return("err", 0, 0)
                       ELSE UNCHANGED <<pc, result, winner, dialDone, timer, drain>>
    /\ UNCHANGED <<addrs, next, timerC, ctxDone, conns>>

\* The loop receives the timer's tick and launches the next address.
FallbackTick ==
    /\ pc = "loop" /\ timerC /\ timer = "fired"
    /\ dials' = [dials EXCEPT ![next] = "dialing"]
    /\ next' = next + 1
    /\ inFlight' = inFlight + 1
    /\ timer' = IF next + 1 <= addrs THEN "armed" ELSE "stopped"
    /\ timerC' = (next + 1 <= addrs)
    /\ UNCHANGED <<addrs, pc, result, winner, ctxDone, dialDone, drain, conns>>

\* Fault: the context's end returns without draining.
ReturnOnCtxUndrained ==
    /\ pc = "loop" /\ ctxDone
    /\ Return("err", 0, 0)
    /\ UNCHANGED <<addrs, next, inFlight, dials, timerC, ctxDone, conns>>

\* The loop sees the end of ctx.
ReturnOnCtx ==
    /\ pc = "loop" /\ ctxDone
    /\ Return("err", 0, inFlight)
    /\ UNCHANGED <<addrs, next, inFlight, dials, timerC, ctxDone, conns>>

\* Fault: drainDialResults receives the late connections but keeps them open.
DrainKeeping(i) ==
    /\ drain > 0 /\ dials[i] \in Results
    /\ dials' = [dials EXCEPT ![i] = "ended"]
    /\ drain' = drain - 1
    /\ UNCHANGED <<addrs, pc, result, winner, next, inFlight, timer, timerC, ctxDone,
                   dialDone, conns>>

\* drainDialResults receives one result and closes the connection, if any.
Drain(i) ==
    /\ drain > 0 /\ dials[i] \in Results
    /\ dials' = [dials EXCEPT ![i] = "ended"]
    /\ drain' = drain - 1
    /\ conns' = conns \ {i}
    /\ UNCHANGED <<addrs, pc, result, winner, next, inFlight, timer, timerC, ctxDone,
                   dialDone>>

-----------------------------------------------------------------------------
Loop ==
    \/ \E i \in Addrs : ReceiveConn(i) \/ ReceiveFailure(i) \/ ReceiveLastFailure(i)
    \/ FallbackTick
    \/ ReturnOnCtx

Terminating == pc = "returned" /\ Running = {} /\ drain = 0 /\ UNCHANGED vars

Next ==
    \/ Resolution \/ Loop
    \/ \E i \in Addrs : Drain(i) \/ \E r \in Results : DialEnds(i, r)
    \/ CtxDone \/ TimerFires \/ Terminating

\* The loop and the drain run; timers fire; a lookup and an attempt end once
\* their context is cancelled; connect_timeout, if there is one, elapses.
Fairness ==
    /\ WF_vars(ctxDone /\ Resolution)
    /\ WF_vars(Loop)
    /\ WF_vars(TimerFires)
    /\ WF_vars(\E i \in Addrs : Drain(i))
    /\ \A i \in Addrs : WF_vars(dialDone /\ \E r \in Results : DialEnds(i, r))
    /\ WF_vars(ConnectTimeout /\ CtxDone)

Spec == Init /\ [][Next]_vars

FairSpec == Spec /\ Fairness

-----------------------------------------------------------------------------
(***************************************************************************)
(* Properties.                                                             *)
(***************************************************************************)

\* Every attempt whose goroutine has not ended has somebody to receive its
\* result: the loop while it runs, drainDialResults afterwards; and neither
\* waits for a result that will not come.
ReceiverForEveryDial ==
    Cardinality(Running) = IF pc = "loop" THEN inFlight ELSE drain

\* The timer's case is only selectable while an address is left, so that
\* resolvedDestinations[next] is never out of range; addresses are launched in
\* order and each once.
NextInRange ==
    /\ pc = "loop" /\ timerC => next <= addrs
    /\ next - 1 <= addrs
    /\ \A i \in Addrs : (dials[i] # "idle") <=> (i < next)

\* dialContext fails only if its context ended or every address was tried and
\* failed, and then no attempt is left behind holding a connection.
FailureIsExhaustive ==
    result = "err" =>
        ctxDone \/ (next > addrs /\ Running = {} /\ conns = {})

\* The connection that dialContext returns stays open (the drain closes the
\* losers only), and once the drain is over no other connection is open.
OnlyWinnerSurvives ==
    /\ result = "conn" => winner \in conns
    /\ pc = "returned" /\ Running = {} => conns \subseteq {winner}

\* With a connect_timeout dialContext returns, even if every attempt hangs, and
\* every goroutine it started ends.
DialSettles == ConnectTimeout => <>(pc = "returned" /\ Running = {} /\ drain = 0)

=============================================================================
