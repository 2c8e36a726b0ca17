------------------------------- MODULE Probe --------------------------------
(***************************************************************************)
(* How one accepted connection is classified: handshakeTLSConn, the        *)
(* sequence of Peek calls in classifyBufferedConn, the verdict of          *)
(* PasswordHashDetector, and what the consumer of the connection (website  *)
(* or AnyTLS service) reads afterwards through the buffered bytes.  It     *)
(* details what Listener leaves open in its action Probing.                *)
(*                                                                         *)
(* Bytes are their positions 1, 2, ... in what the peer sends.  What they  *)
(* say is kept as far as it is looked at: the method prefix with which the *)
(* opening agrees longest, for how many bytes, and whose password hash the *)
(* first HashLen bytes are.                                                *)
(***************************************************************************)
EXTENDS Naturals, Sequences

CONSTANTS
    Words,     \* the method prefixes that openings are taken from
    Cuts,      \* the positions at which what has arrived may end
    Timeout,   \* probe_timeout in ticks, 0 for none
    Fallback   \* the option "fallback"

HashLen == 32

\* The prefixes of the website fast path with their lengths, and how many
\* bytes are looked at first where a letter has two of them.
PrefixLen ==
    [GET |-> 4, HEAD |-> 5, OPTIONS |-> 8, DELETE |-> 7, TRACE |-> 6, CONNECT |-> 8,
     REPORT |-> 7, MKCOL |-> 6, NOTIFY |-> 7, UNSUBSCRIBE |-> 12, LOCK |-> 5,
     ACL |-> 4, BIND |-> 5, POST |-> 5, PRI |-> 24, SUBSCRIBE |-> 10, SEARCH |-> 7]
StemLen == [POST |-> 4, PRI |-> 4, SUBSCRIBE |-> 3, SEARCH |-> 3]

ASSUME WordsAssumption == Words \subseteq DOMAIN PrefixLen
ASSUME CutsAssumption == Cuts \subseteq Nat
ASSUME TimeoutAssumption == Timeout \in Nat /\ Fallback \in BOOLEAN

VARIABLES
    tls,        \* the inner listener returned a *tls.Conn
    opening,    \* what the peer sends first
    arrived,    \* bytes that can be read from the connection so far
    ended,      \* "open", "eof" (peer closed or reset) or "closed" (by us)
    step,       \* "handshake", the Peek at hand, "decided" or "routed"
    waiting,    \* inside Handshake or Peek
    left,       \* time until the deadline of the call at hand
    readDL,     \* a read deadline is set on the connection ...
    writeDL,    \* ... a write deadline
    taken,      \* bytes taken off the connection
    buffer,     \* what bufio.Reader holds; after routing, what is replayed
    peekErr,    \* the error that ended the probe, or "none"
    decision,   \* the Decision, or "none"
    failed,     \* detectErr is not nil
    route,      \* "none", "website", "anytls" or "closed"
    received,   \* the bytes the consumer has read
    elapsed     \* time spent in Handshake and Peek

net == <<tls, opening, arrived, ended>>
verdict == <<peekErr, decision, failed>>
vars == <<net, step, waiting, left, readDL, writeDL, taken, buffer, verdict, route,
          received, elapsed>>

Users == {"enabled", "disabled", "unknown"}
PeekSteps == {"first", "stem", "prefix", "hash"}
TwoStep == DOMAIN StemLen

Openings == {o \in [word : Words, agree : 0 .. 24, user : Users] :
                o.agree <= PrefixLen[o.word]}

\* The opening begins with a whole method prefix.
IsWebsite == opening.agree = PrefixLen[opening.word]

\* How many bytes the Peek at hand asks for.
Need ==
    CASE step = "first"  -> 1
      [] step = "stem"   -> StemLen[opening.word]
      [] step = "prefix" -> PrefixLen[opening.word]
      [] step = "hash"   -> HashLen

Positions(a, b) == [i \in 1 .. b - a |-> a + i]

Init ==
    /\ tls \in BOOLEAN /\ opening \in Openings
    /\ arrived = 0 /\ ended = "open"
    /\ step = IF tls THEN "handshake" ELSE "first"
    /\ waiting = FALSE /\ left = 0 /\ readDL = FALSE /\ writeDL = FALSE
    /\ taken = 0 /\ buffer = <<>>
    /\ peekErr = "none" /\ decision = "none" /\ failed = FALSE /\ route = "none"
    /\ received = <<>> /\ elapsed = 0

-----------------------------------------------------------------------------
\* External: more (decrypted) bytes arrive, the connection ends, time passes.
Arrive(n) ==
    /\ ended = "open" /\ step # "handshake" /\ n > arrived
    /\ arrived' = n
    /\ UNCHANGED <<tls, opening, ended, step, waiting, left, readDL, writeDL, taken,
                   buffer, verdict, route, received, elapsed>>

ConnEnds(how) ==
    /\ ended = "open" /\ step \in PeekSteps
    /\ ended' = how
    /\ UNCHANGED <<tls, opening, arrived, step, waiting, left, readDL, writeDL, taken,
                   buffer, verdict, route, received, elapsed>>

Tick ==
    /\ waiting /\ left > 0
    /\ left' = left - 1 /\ elapsed' = elapsed + 1
    /\ UNCHANGED <<net, step, waiting, readDL, writeDL, taken, buffer, verdict, route,
                   received>>

-----------------------------------------------------------------------------
\* handshakeTLSConn: both deadlines are set if there is a probe_timeout.
HandshakeStart ==
    /\ step = "handshake" /\ ~waiting
    /\ waiting' = TRUE /\ left' = Timeout
    /\ readDL' = (Timeout > 0) /\ writeDL' = (Timeout > 0)
    /\ UNCHANGED <<net, step, taken, buffer, verdict, route, received, elapsed>>

\* Fault: only the read deadline is cleared after the handshake.
HandshakeEndsWriteDeadline(ok) ==
    /\ step = "handshake" /\ waiting
    /\ waiting' = FALSE /\ readDL' = FALSE
    /\ step' = IF ok THEN "first" ELSE "routed"
    /\ route' = IF ok THEN "none" ELSE "closed"
    /\ UNCHANGED <<net, left, writeDL, taken, buffer, verdict, received, elapsed>>

\* Handshake returns, at the deadline at the latest; the deadlines are cleared,
\* and after an error classifyAcceptedConn closes the connection.
HandshakeEnds(ok) ==
    /\ step = "handshake" /\ waiting
    /\ waiting' = FALSE /\ readDL' = FALSE /\ writeDL' = FALSE
    /\ step' = IF ok THEN "first" ELSE "routed"
    /\ route' = IF ok THEN "none" ELSE "closed"
    /\ UNCHANGED <<net, left, taken, buffer, verdict, received, elapsed>>

-----------------------------------------------------------------------------
(***************************************************************************)
(* bufferedConn.Peek: a fresh deadline for every call, cleared on return.  *)
(***************************************************************************)

\* Fault: no deadline is set.
PeekStartNoDeadline ==
    /\ step \in PeekSteps /\ ~waiting
    /\ ended # "closed" \/ Timeout = 0
    /\ waiting' = TRUE /\ left' = 0
    /\ UNCHANGED <<net, step, readDL, writeDL, taken, buffer, verdict, route, received,
                   elapsed>>

PeekStart ==
    /\ step \in PeekSteps /\ ~waiting
    /\ ended # "closed" \/ Timeout = 0
    /\ waiting' = TRUE /\ left' = Timeout /\ readDL' = (Timeout > 0)
    /\ UNCHANGED <<net, step, writeDL, taken, buffer, verdict, route, received, elapsed>>

\* Fault: progress renews the deadline.
FillRenewing ==
    /\ waiting /\ step \in PeekSteps /\ Len(buffer) < Need
    /\ arrived > taken /\ ended # "closed"
    /\ buffer' = buffer \o Positions(taken, arrived)
    /\ taken' = arrived
    /\ left' = Timeout
    /\ UNCHANGED <<net, step, waiting, readDL, writeDL, verdict, route, received, elapsed>>

\* bufio.Reader reads what is there while it holds too little.
Fill ==
    /\ waiting /\ step \in PeekSteps /\ Len(buffer) < Need
    /\ arrived > taken /\ ended # "closed"
    /\ buffer' = buffer \o Positions(taken, arrived)
    /\ taken' = arrived
    /\ UNCHANGED <<net, step, waiting, left, readDL, writeDL, verdict, route, received,
                   elapsed>>

Continue(s) == step' = s /\ UNCHANGED verdict

Decide(d, err, f) ==
    step' = "decided" /\ decision' = d /\ peekErr' = err /\ failed' = f

\* PasswordHashDetector.Detect on a whole hash.
Detect ==
    CASE opening.user = "enabled"  -> Decide("AnyTLS", "none", FALSE)
      [] opening.user = "disabled" -> Decide("Reject", "none", TRUE)
      [] OTHER                     -> Decide("Fallback", "none", TRUE)

\* Fault: a letter's only prefix decides, match or not.
FoundUnmatched ==
    \/ step = "first" /\ Continue(IF opening.agree = 0 THEN "hash"
                                  ELSE IF opening.word \in TwoStep THEN "stem" ELSE "prefix")
    \/ step = "stem" /\ Continue(IF opening.agree >= Need THEN "prefix" ELSE "hash")
    \/ step = "prefix" /\ Decide("Fallback", "none", FALSE)
    \/ step = "hash" /\ Detect

\* What classifyWebsiteFastPath, matchWebsitePrefix and classifyPreview do with
\* the bytes they asked for.
Found ==
    \/ step = "first" /\ Continue(IF opening.agree = 0 THEN "hash"
                                  ELSE IF opening.word \in TwoStep THEN "stem" ELSE "prefix")
    \/ step = "stem" /\ Continue(IF opening.agree >= Need THEN "prefix" ELSE "hash")
    \/ step = "prefix" /\ IsWebsite /\ Decide("Fallback", "none", FALSE)
    \/ step = "prefix" /\ ~IsWebsite /\ Continue("hash")
    \/ step = "hash" /\ Detect

PeekOK ==
    /\ waiting /\ step \in PeekSteps /\ Len(buffer) >= Need
    /\ waiting' = FALSE /\ readDL' = FALSE
    /\ Found
    /\ UNCHANGED <<net, left, writeDL, taken, buffer, route, received, elapsed>>

\* Peek fails for want of bytes, and what was read stays in the buffer.  An
\* error makes the probe fail with DecisionFallback; only net.ErrClosed is "the
\* website, no error", except after a stem, or if it left part of a hash.
PeekFails(err) ==
    /\ waiting /\ step \in PeekSteps /\ Len(buffer) < Need
    /\ \/ err = "timeout" /\ readDL /\ left = 0
       \/ err = "eof" /\ ended = "eof" /\ taken = arrived
       \/ err = "closed" /\ ended = "closed"
    /\ waiting' = FALSE /\ readDL' = FALSE
    /\ Decide("Fallback", err,
              err # "closed" \/ step = "stem" \/ (step = "hash" /\ buffer # <<>>))
    /\ UNCHANGED <<net, left, writeDL, taken, buffer, route, received, elapsed>>

\* On a connection that is closed already SetReadDeadline fails, and Peek
\* returns no bytes at all.
PeekOnClosed ==
    /\ step \in PeekSteps /\ ~waiting
    /\ ended = "closed" /\ Timeout > 0
    /\ Decide("Fallback", "closed", step = "stem")
    /\ UNCHANGED <<net, waiting, left, readDL, writeDL, taken, buffer, route, received,
                   elapsed>>

-----------------------------------------------------------------------------
\* routeBufferedConn after the classification.
RouteOf ==
    CASE decision = "Fallback" /\ (failed => Fallback) -> "website"
      [] decision = "AnyTLS" /\ ~failed                -> "anytls"
      [] OTHER                                         -> "closed"

\* Fault: only the bytes asked for are replayed, not all that were read.
RouteReplayingPreview ==
    /\ step = "decided"
    /\ step' = "routed" /\ route' = RouteOf
    /\ buffer' = SubSeq(buffer, 1, IF Len(buffer) < HashLen THEN Len(buffer) ELSE HashLen)
    /\ UNCHANGED <<net, waiting, left, readDL, writeDL, taken, verdict, received, elapsed>>

\* The consumer gets the connection with the bytes read so far in front:
\* BufferedBytes and newPrependConn (website over TLS), or the bufferedConn
\* itself (plain website, AnyTLS).
Route ==
    /\ step = "decided"
    /\ step' = "routed" /\ route' = RouteOf
    /\ UNCHANGED <<net, waiting, left, readDL, writeDL, taken, buffer, verdict, received,
                   elapsed>>

\* The consumer reads: what is replayed first, then the connection.
ConsumerRead ==
    /\ route \in {"website", "anytls"} /\ ended # "closed"
    /\ \/ /\ buffer # <<>>
          /\ received' = received \o buffer
          /\ buffer' = <<>>
          /\ UNCHANGED taken
       \/ /\ buffer = <<>> /\ arrived > taken
          /\ received' = received \o Positions(taken, arrived)
          /\ taken' = arrived
          /\ UNCHANGED buffer
    /\ UNCHANGED <<net, step, waiting, left, readDL, writeDL, verdict, route, elapsed>>

-----------------------------------------------------------------------------
Errors == {"timeout", "eof", "closed"}

\* What the probing goroutine does by itself.
Internal ==
    \/ HandshakeStart \/ PeekStart \/ Fill \/ PeekOK \/ PeekOnClosed \/ Route
    \/ \E err \in Errors : PeekFails(err)

\* The connection is closed, or everything sent so far was read.
Terminating ==
    /\ step = "routed"
    /\ route = "closed" \/ ended = "closed" \/ (buffer = <<>> /\ taken = arrived)
    /\ UNCHANGED vars

Next ==
    \/ Internal \/ \E ok \in BOOLEAN : HandshakeEnds(ok)
    \/ ConsumerRead \/ Tick \/ Terminating
    \/ \E n \in Cuts : Arrive(n)
    \/ \E how \in {"eof", "closed"} : ConnEnds(how)

\* The goroutine runs, time passes, and Handshake gives up at its deadline.  No
\* peer has to send anything, or to close.
Fairness ==
    /\ WF_vars(Internal) /\ WF_vars(Tick)
    /\ WF_vars(readDL /\ left = 0 /\ HandshakeEnds(FALSE))

Spec == Init /\ [][Next]_vars

FairSpec == Spec /\ Fairness

-----------------------------------------------------------------------------
(***************************************************************************)
(* Properties.                                                             *)
(***************************************************************************)

\* Where a connection belongs, by its first bytes alone.
Belongs ==
    IF IsWebsite \/ (opening.user = "unknown" /\ Fallback) THEN "website"
    ELSE IF opening.user = "enabled" THEN "anytls" ELSE "closed"

\* The letter-by-letter fast path decides as if it had all bytes at once, also
\* for a password hash that begins like a method; a recognised website request
\* never waits for the hash; and a probe that failed never opens a session.
VerdictIsRight ==
    /\ step = "routed" /\ decision # "none" /\ peekErr = "none" => route = Belongs
    /\ IsWebsite => step # "hash"
    /\ route = "anytls" => peekErr = "none" /\ opening.user = "enabled"

\* No deadline of handshake or probe is left on a connection that is handed
\* on, where it would break the website or the session later.
DeadlinesCleared == step \in {"decided", "routed"} => ~readDL /\ ~writeDL

\* Whoever gets the connection reads every byte the peer sent, once and in
\* order, however the bytes were cut and wherever the probe ended.
NoByteLost ==
    /\ received = Positions(0, Len(received))
    /\ route \in {"website", "anytls"} => Len(received) + Len(buffer) = taken

\* A peer that sends byte by byte holds its probe slot for five times
\* probe_timeout at most: the handshake and four calls of Peek.
ProbeTimeBounded == elapsed <= (IF tls THEN 5 ELSE 4) * Timeout

\* With a probe_timeout every probe ends, whatever the peer does: what Listener
\* assumes of the connections it calls prompt.
ProbeEnds == Timeout > 0 => <>(step = "routed")

=============================================================================
