---------------------------- MODULE IdleTimeout -----------------------------
(***************************************************************************)
(* idleTimeoutConn (listener.go): a connection that closes itself when no  *)
(* byte was read or written for idle_timeout.                              *)
(*                                                                         *)
(* Time is discrete and kept relative: idle is the age of lastActivity and *)
(* timer what is left until the timer fires.  time.AfterFunc runs expire   *)
(* in a goroutine of its own, so a tick can be overtaken by a touch, and   *)
(* Read and Write return before their touch takes the lock.                *)
(***************************************************************************)
EXTENDS Naturals

CONSTANTS
    Timeout,      \* idle_timeout, in ticks
    MaxExpiring   \* bound on the expire goroutines that wait for the lock

ASSUME TimeoutAssumption == Timeout \in Nat \ {0}
ASSUME MaxExpiringAssumption == MaxExpiring \in Nat \ {0}

VARIABLES
    idle,      \* time since lastActivity, saturated at Timeout
    sinceIO,   \* time since Read or Write last moved a byte, saturated too
    timer,     \* remaining time of the timer, or Off
    expiring,  \* expire goroutines started and not yet past the lock
    io,        \* [IO -> state]: "returned" until the touch of a Read or Write
    closed,    \* the field closed
    closing,   \* calls of Conn.Close by those who set closed, still to come
    closes,    \* calls of Conn.Close made
    quiet      \* the peers have stopped talking for good

timerVars == <<idle, sinceIO, timer, expiring, io, closed, closing, closes, quiet>>

IO == {"read", "write"}
Off == Timeout + 1

Least(a, b) == IF a < b THEN a ELSE b

\* Type correctness.
TimerTypeOK ==
    /\ idle \in 0 .. Timeout /\ sinceIO \in 0 .. Timeout
    /\ timer \in 0 .. Off
    /\ expiring \in 0 .. MaxExpiring
    /\ io \in [IO -> {"waiting", "returned"}]
    /\ closed \in BOOLEAN /\ quiet \in BOOLEAN
    /\ closing \in Nat /\ closes \in Nat

\* newIdleTimeoutConn.
TimerInit ==
    /\ idle = 0 /\ sinceIO = 0
    /\ timer = Timeout
    /\ expiring = 0
    /\ io = [o \in IO |-> "waiting"]
    /\ closed = FALSE /\ closing = 0 /\ closes = 0
    /\ quiet = FALSE

-----------------------------------------------------------------------------
\* External: time passes.
Tick ==
    /\ idle' = Least(idle + 1, Timeout)
    /\ sinceIO' = Least(sinceIO + 1, Timeout)
    /\ timer' = IF timer \in 1 .. Timeout THEN timer - 1 ELSE timer
    /\ UNCHANGED <<expiring, io, closed, closing, closes, quiet>>

\* External: no byte will be moved any more.
GoQuiet ==
    /\ ~quiet /\ quiet' = TRUE
    /\ UNCHANGED <<idle, sinceIO, timer, expiring, io, closed, closing, closes>>

\* The inner Read or Write moved at least one byte.
MoveBytes(o) ==
    /\ ~quiet /\ closes = 0
    /\ io[o] = "waiting"
    /\ io' = [io EXCEPT ![o] = "returned"]
    /\ sinceIO' = 0
    /\ UNCHANGED <<idle, timer, expiring, closed, closing, closes, quiet>>

\* Fault: touch records the activity but leaves the timer as it is.
TouchKeepsTimer(o) ==
    /\ io[o] = "returned"
    /\ io' = [io EXCEPT ![o] = "waiting"]
    /\ idle' = IF closed THEN idle ELSE 0
    /\ UNCHANGED <<sinceIO, timer, expiring, closed, closing, closes, quiet>>

\* Fault: touch stops the timer and does not set it again.
TouchStopsTimer(o) ==
    /\ io[o] = "returned"
    /\ io' = [io EXCEPT ![o] = "waiting"]
    /\ IF closed THEN UNCHANGED <<idle, timer>>
                 ELSE idle' = 0 /\ timer' = Off
    /\ UNCHANGED <<sinceIO, expiring, closed, closing, closes, quiet>>

\* touch, under the lock.
Touch(o) ==
    /\ io[o] = "returned"
    /\ io' = [io EXCEPT ![o] = "waiting"]
    /\ IF closed THEN UNCHANGED <<idle, timer>>
                 ELSE idle' = 0 /\ timer' = Timeout
    /\ UNCHANGED <<sinceIO, expiring, closed, closing, closes, quiet>>

\* The timer fires and starts a goroutine that runs expire.
TimerFires ==
    /\ timer = 0
    /\ expiring < MaxExpiring
    /\ timer' = Off
    /\ expiring' = expiring + 1
    /\ UNCHANGED <<idle, sinceIO, io, closed, closing, closes, quiet>>

\* Fault: expire trusts the timer and does not look at lastActivity.
ExpireUnchecked ==
    /\ expiring > 0
    /\ expiring' = expiring - 1
    /\ closed' = TRUE
    /\ closing' = IF closed THEN closing ELSE closing + 1
    /\ UNCHANGED <<idle, sinceIO, timer, io, closes, quiet>>

\* expire, under the lock: nothing if closed; wait for the rest of the time if
\* there was activity since the timer was set; else close.
Expire ==
    /\ expiring > 0
    /\ expiring' = expiring - 1
    /\ \/ /\ closed
          /\ UNCHANGED <<timer, closed, closing>>
       \/ /\ ~closed /\ idle < Timeout
          /\ timer' = Timeout - idle
          /\ UNCHANGED <<closed, closing>>
       \/ /\ ~closed /\ idle >= Timeout
          /\ closed' = TRUE
          /\ closing' = closing + 1
          /\ UNCHANGED timer
    /\ UNCHANGED <<idle, sinceIO, io, closes, quiet>>

\* Fault: Close does not look whether the connection is closed already.
CloseUnchecked ==
    /\ closes + closing < 2
    /\ closed' = TRUE
    /\ closing' = closing + 1
    /\ timer' = Off
    /\ UNCHANGED <<idle, sinceIO, expiring, io, closes, quiet>>

\* Close, under the lock, called by serveAnyTLS, by Cleanup or by the session.
\* A later call returns net.ErrClosed and changes nothing.
Close ==
    /\ ~closed
    /\ closed' = TRUE
    /\ closing' = closing + 1
    /\ timer' = Off
    /\ UNCHANGED <<idle, sinceIO, expiring, io, closes, quiet>>

\* The inner Conn.Close, after the lock was released.
CloseInner ==
    /\ closing > 0
    /\ closing' = closing - 1
    /\ closes' = closes + 1
    /\ UNCHANGED <<idle, sinceIO, timer, expiring, io, closed, quiet>>

-----------------------------------------------------------------------------
TimerNext ==
    \/ Tick \/ GoQuiet
    \/ \E o \in IO : MoveBytes(o) \/ Touch(o)
    \/ TimerFires \/ Expire \/ Close \/ CloseInner

\* Time passes, due timers fire and goroutines run.  Nobody has to call Close
\* and no peer has to talk or to stop talking.
TimerFairness ==
    /\ WF_timerVars(Tick) /\ WF_timerVars(TimerFires) /\ WF_timerVars(Expire) /\ WF_timerVars(CloseInner)
    /\ \A o \in IO : WF_timerVars(Touch(o))

TimerSpec == TimerInit /\ [][TimerNext]_timerVars

FairTimerSpec == TimerSpec /\ TimerFairness

-----------------------------------------------------------------------------
(***************************************************************************)
(* Properties.                                                             *)
(***************************************************************************)

\* The timeout is never lost: while the connection is open either the timer is
\* set for exactly Timeout after the last activity, or an expire is on its way
\* that will set it or close.
TimeoutPending ==
    ~closed => IF timer = Off THEN expiring > 0 ELSE timer + idle = Timeout

\* A tick overtaken by activity does no harm: expire closes a connection only
\* if nothing was read or written for the whole timeout, or if the bytes were
\* moved so late that their touch is still waiting for the lock.
ExpireOnlyWhenIdle ==
    [][(closed' # closed /\ expiring' < expiring) =>
          sinceIO = Timeout \/ \E o \in IO : io[o] = "returned"]_timerVars

\* However Close, Cleanup's Close and expire race, the inner connection is
\* closed exactly once.
ClosedOnce ==
    /\ closing + closes <= 1
    /\ closed <=> closing + closes = 1

\* A session that went quiet is closed.
QuietIsClosed == quiet ~> closes > 0

=============================================================================
