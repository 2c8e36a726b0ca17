---------------------------- MODULE ProbeProofs -----------------------------
(***************************************************************************)
(* What Probe promises for every set of openings, every cutting of the     *)
(* bytes and every probe_timeout: the verdict is that of the whole opening *)
(* (VerdictIsRight), no deadline is left behind (DeadlinesCleared), no     *)
(* byte is lost (NoByteLost), and a probe takes no longer than its five    *)
(* calls (ProbeTimeBounded).                                               *)
(*                                                                         *)
(* Four invariants, each inductive given the types: what the steps taken   *)
(* so far say of the opening (Verdicts), when a deadline can be set        *)
(* (Deadlines), where each byte taken off the connection is (Bytes), and   *)
(* how much time the calls made so far can have used (Time).               *)
(***************************************************************************)
EXTENDS Probe, SequenceTheorems, TLAPS

TypeOK ==
    /\ tls \in BOOLEAN /\ opening \in Openings
    /\ arrived \in Nat /\ ended \in {"open", "eof", "closed"}
    /\ step \in PeekSteps \cup {"handshake", "decided", "routed"}
    /\ waiting \in BOOLEAN /\ left \in Nat /\ readDL \in BOOLEAN /\ writeDL \in BOOLEAN
    /\ taken \in Nat /\ buffer \in Seq(Nat)
    /\ peekErr \in Errors \cup {"none"}
    /\ decision \in {"none", "Fallback", "AnyTLS", "Reject"} /\ failed \in BOOLEAN
    /\ route \in {"none", "website", "anytls", "closed"}
    /\ received \in Seq(Nat) /\ elapsed \in Nat

\* A deadline is on the connection only during the call that set it, and one
\* for writing only during the handshake.
Deadlines ==
    /\ waiting => step \in PeekSteps \cup {"handshake"}
    /\ readDL \/ writeDL => waiting
    /\ writeDL => step = "handshake"

\* What the Peek at hand says of the opening, and the decision of the route.
Verdicts ==
    /\ step = "hash" => ~IsWebsite
    /\ step = "stem" => opening.word \in TwoStep
    /\ step \in PeekSteps \cup {"handshake"} => decision = "none"
    /\ decision = "none" => peekErr = "none"
    /\ step = "decided" => decision # "none"
    /\ step # "routed" => route = "none"
    /\ step = "routed" => route = IF decision = "none" THEN "closed" ELSE RouteOf
    /\ peekErr # "none" => decision = "Fallback"
    /\ decision # "none" /\ peekErr = "none" =>
          \/ IsWebsite /\ decision = "Fallback" /\ failed = FALSE
          \/ ~IsWebsite /\ opening.user = "enabled" /\ decision = "AnyTLS" /\ failed = FALSE
          \/ ~IsWebsite /\ opening.user = "disabled" /\ decision = "Reject"
          \/ ~IsWebsite /\ opening.user = "unknown" /\ decision = "Fallback" /\ failed = TRUE

\* What was taken off the connection is what the consumer has read, followed by
\* what is buffered.
Bytes ==
    /\ taken <= arrived
    /\ Len(received) <= taken
    /\ received = Positions(0, Len(received))
    /\ buffer = Positions(Len(received), taken)

\* The time that the calls before the one at hand can have used.
Before ==
    LET shaken == IF tls THEN Timeout ELSE 0
    IN  CASE step = "handshake" -> 0
          [] step = "first"     -> shaken
          [] step = "stem"      -> shaken + Timeout
          [] step = "prefix"    -> shaken + 2 * Timeout
          [] step = "hash"      -> shaken + 3 * Timeout
          [] OTHER              -> shaken + 4 * Timeout

Time ==
    /\ step = "handshake" => tls
    /\ IF waiting THEN elapsed + left <= Before + Timeout ELSE elapsed <= Before

-----------------------------------------------------------------------------
(***************************************************************************)
(* The prefixes, and positions of bytes.                                   *)
(***************************************************************************)

\* A prefix is not empty, and the stem looked at first is a proper part of it.
LEMMA PrefixLengths ==
    /\ \A w \in DOMAIN PrefixLen : PrefixLen[w] \in Nat \ {0}
    /\ \A w \in TwoStep : w \in DOMAIN PrefixLen /\ StemLen[w] \in Nat /\ StemLen[w] < PrefixLen[w]
  BY DEF PrefixLen, StemLen, TwoStep

LEMMA OpeningType ==
    ASSUME opening \in Openings
    PROVE  /\ opening.word \in DOMAIN PrefixLen /\ opening.agree \in Nat
           /\ opening.agree <= PrefixLen[opening.word]
           /\ opening.user \in Users
  BY WordsAssumption DEF Openings

LEMMA PositionsType ==
    ASSUME NEW a \in Nat, NEW b \in Nat, a <= b
    PROVE  Positions(a, b) \in Seq(Nat) /\ Len(Positions(a, b)) = b - a
  BY DEF Positions

\* Reading on from where the last read ended.
LEMMA PositionsJoin ==
    ASSUME NEW a \in Nat, NEW b \in Nat, NEW c \in Nat, a <= b, b <= c
    PROVE  Positions(a, b) \o Positions(b, c) = Positions(a, c)
<1>1. Positions(a, b) \in Seq(Nat) /\ Len(Positions(a, b)) = b - a
  BY PositionsType
<1>2. Positions(b, c) \in Seq(Nat) /\ Len(Positions(b, c)) = c - b
  BY PositionsType
<1>3. a <= c
  OBVIOUS
<1>4. Positions(a, c) \in Seq(Nat) /\ Len(Positions(a, c)) = c - a
  BY <1>3, PositionsType
<1>5. PICK joined : joined = Positions(a, b) \o Positions(b, c)
  OBVIOUS
<1>6. /\ joined \in Seq(Nat)
      /\ Len(joined) = Len(Positions(a, b)) + Len(Positions(b, c))
      /\ \A i \in 1 .. Len(Positions(a, b)) + Len(Positions(b, c)) :
            joined[i] = IF i <= Len(Positions(a, b)) THEN Positions(a, b)[i]
                        ELSE Positions(b, c)[i - Len(Positions(a, b))]
  BY <1>1, <1>2, <1>5, ConcatProperties, Zenon
<1>7. /\ Len(joined) = c - a
      /\ \A i \in 1 .. c - a :
            joined[i] = IF i <= b - a THEN Positions(a, b)[i] ELSE Positions(b, c)[i - (b - a)]
  BY <1>1, <1>2, <1>6
<1>8. ASSUME NEW i \in 1 .. c - a PROVE joined[i] = Positions(a, c)[i]
  <2>1. CASE i <= b - a
    <3>1. i \in 1 .. b - a /\ joined[i] = Positions(a, b)[i]
      BY <1>7, <2>1
    <3> QED
      BY <3>1 DEF Positions
  <2>2. CASE i > b - a
    <3>1. i - (b - a) \in 1 .. c - b
      BY <2>2
    <3>2. joined[i] = Positions(b, c)[i - (b - a)]
      BY <1>7, <2>2
    <3>3. Positions(b, c)[i - (b - a)] = a + i /\ Positions(a, c)[i] = a + i
      BY <3>1 DEF Positions
    <3> QED
      BY <3>2, <3>3
  <2> QED
    BY <2>1, <2>2
<1>9. joined = Positions(a, c)
  BY <1>4, <1>6, <1>7, <1>8, SeqEqual, Zenon
<1> QED
  BY <1>5, <1>9

-----------------------------------------------------------------------------
(***************************************************************************)
(* Every step preserves each of the invariants.                            *)
(***************************************************************************)

\* A call of Peek that does not end with bytes ends in a decision.
Gives(d, err) == step' = "decided" /\ decision' = d /\ peekErr' = err /\ failed' \in BOOLEAN

\* The ways out of Peek.
LEMMA PeekOutcome ==
    ASSUME TypeOK, PeekOK
    PROVE  \/ step' \in PeekSteps /\ UNCHANGED verdict
           \/ \E d \in {"Fallback", "AnyTLS", "Reject"} : Gives(d, "none")
  BY DEF PeekOK, Found, Detect, Decide, Continue, Gives, PeekSteps

LEMMA TypeStep ==
    ASSUME TypeOK, [Next]_vars
    PROVE  TypeOK'
<1> USE DEF net, verdict
<1>1. CASE HandshakeStart
  BY <1>1, TimeoutAssumption DEF TypeOK, HandshakeStart
<1>2. ASSUME NEW ok \in BOOLEAN, HandshakeEnds(ok) PROVE TypeOK'
  BY <1>2 DEF TypeOK, HandshakeEnds, PeekSteps
<1>3. CASE PeekStart
  BY <1>3, TimeoutAssumption DEF TypeOK, PeekStart
<1>4. CASE Fill
  <2>1. taken \in Nat /\ arrived \in Nat /\ taken <= arrived /\ buffer \in Seq(Nat)
    BY <1>4 DEF TypeOK, Fill
  <2>2. Positions(taken, arrived) \in Seq(Nat)
    BY <2>1, PositionsType
  <2>3. buffer' \in Seq(Nat)
    BY <1>4, <2>1, <2>2, ConcatProperties DEF Fill
  <2> QED
    BY <1>4, <2>1, <2>3 DEF TypeOK, Fill
<1>5. CASE PeekOK
  BY <1>5, PeekOutcome DEF TypeOK, PeekOK, Gives, Errors
<1>6. ASSUME NEW err \in Errors, PeekFails(err) PROVE TypeOK'
  BY <1>6 DEF TypeOK, PeekFails, Decide, PeekSteps
<1>7. CASE PeekOnClosed
  BY <1>7 DEF TypeOK, PeekOnClosed, Decide, PeekSteps, Errors
<1>8. CASE Route
  BY <1>8 DEF TypeOK, Route, RouteOf, PeekSteps
<1>9. CASE ConsumerRead
  <2>1. /\ taken \in Nat /\ arrived \in Nat /\ buffer \in Seq(Nat) /\ received \in Seq(Nat)
        /\ <<>> \in Seq(Nat)
    BY DEF TypeOK
  <2>2. CASE /\ received' = received \o buffer /\ buffer' = <<>> /\ UNCHANGED taken
    <3>1. received' \in Seq(Nat)
      BY <2>1, <2>2, ConcatProperties
    <3> QED
      BY <1>9, <2>1, <2>2, <3>1 DEF TypeOK, ConsumerRead
  <2>3. CASE /\ arrived > taken /\ received' = received \o Positions(taken, arrived)
             /\ taken' = arrived /\ UNCHANGED buffer
    <3>1. Positions(taken, arrived) \in Seq(Nat)
      BY <2>1, <2>3, PositionsType
    <3>2. received' \in Seq(Nat)
      BY <2>1, <2>3, <3>1, ConcatProperties
    <3> QED
      BY <1>9, <2>1, <2>3, <3>2 DEF TypeOK, ConsumerRead
  <2> QED
    BY <1>9, <2>2, <2>3 DEF ConsumerRead
<1>10. CASE Tick
  BY <1>10 DEF TypeOK, Tick
<1>11. ASSUME NEW n \in Cuts, Arrive(n) PROVE TypeOK'
  BY <1>11, CutsAssumption DEF TypeOK, Arrive
<1>12. ASSUME NEW how \in {"eof", "closed"}, ConnEnds(how) PROVE TypeOK'
  BY <1>12 DEF TypeOK, ConnEnds
<1>13. CASE UNCHANGED vars
  BY <1>13 DEF TypeOK, vars
<1> QED
  BY <1>1, <1>2, <1>3, <1>4, <1>5, <1>6, <1>7, <1>8, <1>9, <1>10, <1>11, <1>12, <1>13
     DEF Next, Internal, Terminating

LEMMA DeadlinesStep ==
    ASSUME TypeOK, Deadlines, [Next]_vars
    PROVE  Deadlines'
<1> USE DEF net, verdict
<1>1. CASE HandshakeStart
  BY <1>1 DEF Deadlines, HandshakeStart
<1>2. ASSUME NEW ok \in BOOLEAN, HandshakeEnds(ok) PROVE Deadlines'
  BY <1>2 DEF Deadlines, HandshakeEnds
<1>3. CASE PeekStart
  BY <1>3 DEF Deadlines, PeekStart, PeekSteps
<1>4. CASE PeekOK
  BY <1>4 DEF Deadlines, PeekOK, PeekSteps
<1>5. ASSUME NEW err \in Errors, PeekFails(err) PROVE Deadlines'
  BY <1>5 DEF Deadlines, PeekFails, PeekSteps
<1>6. CASE PeekOnClosed
  BY <1>6 DEF Deadlines, PeekOnClosed, PeekSteps
<1>7. CASE Route
  BY <1>7 DEF Deadlines, Route, PeekSteps
<1>8. CASE UNCHANGED <<step, waiting, readDL, writeDL>>
  BY <1>8 DEF Deadlines
<1>9. Fill \/ ConsumerRead \/ Tick \/ (\E n \in Cuts : Arrive(n))
         \/ (\E how \in {"eof", "closed"} : ConnEnds(how)) \/ UNCHANGED vars
      => UNCHANGED <<step, waiting, readDL, writeDL>>
  BY DEF Fill, ConsumerRead, Tick, Arrive, ConnEnds, vars
<1> QED
  BY <1>1, <1>2, <1>3, <1>4, <1>5, <1>6, <1>7, <1>8, <1>9 DEF Next, Internal, Terminating

\* The verdict is reached letter by letter: only PeekOK moves from one Peek to
\* the next, and each of its branches says whether the opening is a website's.
LEMMA VerdictsStep ==
    ASSUME TypeOK, Verdicts, [Next]_vars
    PROVE  Verdicts'
<1> USE DEF net, verdict
<1>0. /\ opening.word \in DOMAIN PrefixLen /\ opening.agree \in Nat
      /\ opening.user \in Users /\ PrefixLen[opening.word] \in Nat \ {0}
  BY OpeningType, PrefixLengths DEF TypeOK
<1>1. CASE HandshakeStart
  BY <1>1 DEF Verdicts, HandshakeStart, IsWebsite, RouteOf
<1>2. ASSUME NEW ok \in BOOLEAN, HandshakeEnds(ok) PROVE Verdicts'
  BY <1>2 DEF Verdicts, HandshakeEnds, IsWebsite, PeekSteps
<1>3. CASE PeekOK
  <2>1. UNCHANGED <<opening, route>> /\ step \in PeekSteps /\ decision = "none"
        /\ peekErr = "none" /\ route = "none"
    BY <1>3 DEF PeekOK, Verdicts, PeekSteps
  <2>2. IsWebsite' <=> IsWebsite
    BY <2>1 DEF IsWebsite
  <2>3. CASE step = "first"
    <3>1. /\ opening.agree = 0 => ~IsWebsite
          /\ step' \in PeekSteps /\ UNCHANGED verdict
          /\ step' = "hash" => opening.agree = 0
          /\ step' = "stem" => opening.word \in TwoStep
      BY <1>0, <1>3, <2>3 DEF PeekOK, Found, Continue, IsWebsite, PeekSteps
    <3> QED
      BY <2>1, <2>2, <3>1 DEF Verdicts, PeekSteps
  <2>4. CASE step = "stem"
    <3>1. /\ opening.word \in TwoStep /\ Need = StemLen[opening.word]
          /\ StemLen[opening.word] \in Nat /\ StemLen[opening.word] < PrefixLen[opening.word]
      BY <2>4, PrefixLengths DEF Verdicts, Need
    <3>2. /\ step' = IF opening.agree >= Need THEN "prefix" ELSE "hash"
          /\ UNCHANGED verdict
      BY <1>3, <2>4 DEF PeekOK, Found, Continue
    <3>3. step' = "hash" => ~IsWebsite
      BY <1>0, <3>1, <3>2 DEF IsWebsite
    <3> QED
      BY <2>1, <2>2, <3>2, <3>3 DEF Verdicts, PeekSteps
  <2>5. CASE step = "prefix"
    BY <1>3, <2>1, <2>2, <2>5 DEF PeekOK, Found, Continue, Decide, Verdicts, PeekSteps
  <2>6. CASE step = "hash"
    <3>1. ~IsWebsite
      BY <2>6 DEF Verdicts
    <3>2. Detect
      BY <1>3, <2>6 DEF PeekOK, Found
    <3> QED
      BY <1>0, <2>1, <2>2, <3>1, <3>2 DEF Detect, Decide, Verdicts, PeekSteps, Users
  <2> QED
    BY <2>1, <2>3, <2>4, <2>5, <2>6 DEF PeekSteps
<1>4. ASSUME NEW err \in Errors, PeekFails(err) PROVE Verdicts'
  BY <1>4 DEF Verdicts, PeekFails, Decide, PeekSteps, Errors
<1>5. CASE PeekOnClosed
  BY <1>5 DEF Verdicts, PeekOnClosed, Decide, PeekSteps
<1>6. CASE Route
  <2>1. UNCHANGED <<opening, peekErr, decision, failed>> /\ step = "decided"
        /\ step' = "routed" /\ route' = RouteOf
    BY <1>6 DEF Route
  <2>2. (IsWebsite' <=> IsWebsite) /\ RouteOf' = RouteOf
    BY <2>1 DEF IsWebsite, RouteOf
  <2> QED
    BY <2>1, <2>2 DEF Verdicts, PeekSteps
<1>7. CASE UNCHANGED <<opening, step, peekErr, decision, failed, route>>
  <2>1. (IsWebsite' <=> IsWebsite) /\ RouteOf' = RouteOf
    BY <1>7 DEF IsWebsite, RouteOf
  <2> QED
    BY <1>7, <2>1 DEF Verdicts
<1>8. PeekStart \/ Fill \/ ConsumerRead \/ Tick \/ (\E n \in Cuts : Arrive(n))
         \/ (\E how \in {"eof", "closed"} : ConnEnds(how)) \/ UNCHANGED vars
      => UNCHANGED <<opening, step, peekErr, decision, failed, route>>
  BY DEF PeekStart, Fill, ConsumerRead, Tick, Arrive, ConnEnds, vars
<1> QED
  BY <1>1, <1>2, <1>3, <1>4, <1>5, <1>6, <1>7, <1>8 DEF Next, Internal, Terminating

\* Bytes move from the connection to the buffer, and from either to the consumer.
LEMMA BytesStep ==
    ASSUME TypeOK, Bytes, [Next]_vars
    PROVE  Bytes'
<1> USE DEF net, verdict
<1>0. /\ taken \in Nat /\ arrived \in Nat /\ Len(received) \in Nat
      /\ taken <= arrived /\ Len(received) <= taken
      /\ 0 \in Nat /\ 0 <= Len(received) /\ 0 <= taken
  BY DEF TypeOK, Bytes
<1>1. CASE Fill
  <2>1. buffer' = Positions(Len(received), arrived)
    BY <1>0, <1>1, PositionsJoin DEF Fill, Bytes
  <2> QED
    BY <1>0, <1>1, <2>1 DEF Fill, Bytes
<1>2. CASE ConsumerRead
  <2>1. UNCHANGED arrived
    BY <1>2 DEF ConsumerRead
  <2>2. CASE received' = received \o buffer /\ buffer' = <<>> /\ UNCHANGED taken
    <3>1. received' = Positions(0, taken)
      <4>1. received' = Positions(0, Len(received)) \o Positions(Len(received), taken)
        BY <2>2 DEF Bytes
      <4> QED
        BY <1>0, <4>1, PositionsJoin, Zenon
    <3>2. Len(received') = taken
      BY <1>0, <3>1, PositionsType
    <3>3. buffer' = Positions(taken, taken)
      BY <1>0, <2>2 DEF Positions
    <3> QED
      BY <1>0, <2>1, <2>2, <3>1, <3>2, <3>3 DEF Bytes
  <2>3. CASE /\ buffer = <<>> /\ received' = received \o Positions(taken, arrived)
             /\ taken' = arrived /\ UNCHANGED buffer
    <3>1. Len(received) = taken
      <4>1. Len(buffer) = taken - Len(received)
        BY <1>0, PositionsType DEF Bytes
      <4>2. Len(buffer) = 0
        BY <2>3
      <4> QED
        BY <1>0, <4>1, <4>2
    <3>2. received' = Positions(0, arrived)
      <4>1. received' = Positions(0, taken) \o Positions(taken, arrived)
        BY <2>3, <3>1 DEF Bytes
      <4> QED
        BY <1>0, <4>1, PositionsJoin, Zenon
    <3>3. Len(received') = arrived
      BY <1>0, <3>2, PositionsType
    <3>4. buffer' = Positions(arrived, arrived)
      BY <1>0, <2>3 DEF Positions
    <3> QED
      BY <1>0, <2>1, <2>3, <3>2, <3>3, <3>4 DEF Bytes
  <2> QED
    BY <1>2, <2>2, <2>3 DEF ConsumerRead
<1>3. ASSUME NEW n \in Cuts, Arrive(n) PROVE Bytes'
  BY <1>0, <1>3, CutsAssumption DEF Arrive, Bytes
<1>4. CASE UNCHANGED <<arrived, taken, buffer, received>>
  BY <1>4 DEF Bytes
<1>5. HandshakeStart \/ (\E ok \in BOOLEAN : HandshakeEnds(ok)) \/ PeekStart \/ PeekOK
         \/ (\E err \in Errors : PeekFails(err)) \/ PeekOnClosed \/ Route \/ Tick
         \/ (\E how \in {"eof", "closed"} : ConnEnds(how)) \/ UNCHANGED vars
      => UNCHANGED <<arrived, taken, buffer, received>>
  BY DEF HandshakeStart, HandshakeEnds, PeekStart, PeekOK, PeekFails, PeekOnClosed, Route,
         Tick, ConnEnds, vars
<1> QED
  BY <1>1, <1>2, <1>3, <1>4, <1>5 DEF Next, Internal, Terminating

\* Every call of Handshake or Peek uses up its own probe_timeout at most, and no
\* Peek is made twice.
LEMMA TimeStep ==
    ASSUME TypeOK, Deadlines, Time, [Next]_vars
    PROVE  Time'
<1> USE TimeoutAssumption DEF net, verdict
<1>0. elapsed \in Nat /\ left \in Nat /\ waiting \in BOOLEAN /\ tls \in BOOLEAN
  BY DEF TypeOK
<1>1. CASE HandshakeStart
  BY <1>0, <1>1 DEF HandshakeStart, Time, Before
<1>2. ASSUME NEW ok \in BOOLEAN, HandshakeEnds(ok) PROVE Time'
  BY <1>0, <1>2 DEF HandshakeEnds, Time, Before
<1>3. CASE PeekStart
  BY <1>0, <1>3 DEF PeekStart, Time, Before, PeekSteps
<1>4. CASE PeekOK
  <2>1. /\ UNCHANGED <<tls, elapsed>> /\ waiting /\ waiting' = FALSE
        /\ step \in PeekSteps
    BY <1>4 DEF PeekOK
  <2>2. \/ step = "first" /\ step' \in {"stem", "prefix", "hash"}
        \/ step = "stem" /\ step' \in {"prefix", "hash"}
        \/ step = "prefix" /\ step' \in {"decided", "hash"}
        \/ step = "hash" /\ step' = "decided"
    BY <1>4 DEF PeekOK, Found, Continue, Decide, Detect
  <2>3. elapsed <= Before + Timeout
    BY <1>0, <2>1, <2>2 DEF Time, Before
  <2>4. Before + Timeout <= Before' /\ step' # "handshake"
    BY <1>0, <2>1, <2>2 DEF Before
  <2>5. Before \in Nat /\ Before' \in Nat
    BY <1>0, <2>1 DEF Before
  <2> QED
    BY <1>0, <2>1, <2>3, <2>4, <2>5 DEF Time
<1>5. ASSUME NEW err \in Errors, PeekFails(err) PROVE Time'
  BY <1>0, <1>5 DEF PeekFails, Decide, Time, Before, PeekSteps
<1>6. CASE PeekOnClosed
  BY <1>0, <1>6 DEF PeekOnClosed, Decide, Time, Before, PeekSteps
<1>7. CASE Route
  BY <1>0, <1>7 DEF Route, Time, Before, Deadlines, PeekSteps
<1>8. CASE Tick
  BY <1>0, <1>8 DEF Tick, Time, Before
<1>9. CASE UNCHANGED <<tls, step, waiting, left, elapsed>>
  BY <1>9 DEF Time, Before
<1>10. Fill \/ ConsumerRead \/ (\E n \in Cuts : Arrive(n))
         \/ (\E how \in {"eof", "closed"} : ConnEnds(how)) \/ UNCHANGED vars
      => UNCHANGED <<tls, step, waiting, left, elapsed>>
  BY DEF Fill, ConsumerRead, Arrive, ConnEnds, vars
<1> QED
  BY <1>1, <1>2, <1>3, <1>4, <1>5, <1>6, <1>7, <1>8, <1>9, <1>10
     DEF Next, Internal, Terminating

-----------------------------------------------------------------------------
(***************************************************************************)
(* The theorems.                                                           *)
(***************************************************************************)

IndInv == TypeOK /\ Deadlines /\ Verdicts /\ Bytes /\ Time

\* The inductive invariant holds in every reachable state.
THEOREM InductiveInvariant == Spec => []IndInv
<1>1. Init => IndInv
  <2> SUFFICES ASSUME Init PROVE IndInv
    OBVIOUS
  <2>0. <<>> \in Seq(Nat)
    OBVIOUS
  <2>1. TypeOK /\ Deadlines
    BY <2>0 DEF Init, TypeOK, Deadlines, PeekSteps, Errors
  <2>2. step = "first" \/ (step = "handshake" /\ tls)
    BY DEF Init
  <2>3. Verdicts
    BY <2>2 DEF Init, Verdicts, PeekSteps
  <2>4. <<>> = Positions(0, 0)
    BY DEF Positions
  <2>5. Bytes
    BY <2>4 DEF Init, Bytes
  <2>6. Time
    BY <2>2, TimeoutAssumption DEF Init, Time, Before
  <2> QED
    BY <2>1, <2>3, <2>5, <2>6 DEF IndInv
<1>2. IndInv /\ [Next]_vars => IndInv'
  BY TypeStep, DeadlinesStep, VerdictsStep, BytesStep, TimeStep DEF IndInv
<1> QED
  BY <1>1, <1>2, PTL DEF Spec

\* The fast path and the detector route a connection as its whole opening says,
\* a website request never waits for a hash, and a failed probe opens no session.
THEOREM RoutedRight == Spec => []VerdictIsRight
<1>1. IndInv => VerdictIsRight
  <2> SUFFICES ASSUME IndInv PROVE VerdictIsRight
    OBVIOUS
  <2>1. opening.user \in Users /\ Fallback \in BOOLEAN
    BY OpeningType, TimeoutAssumption DEF IndInv, TypeOK
  <2>2. ASSUME step = "routed", decision # "none", peekErr = "none" PROVE route = Belongs
    BY <2>1, <2>2 DEF IndInv, Verdicts, RouteOf, Belongs
  <2>3. IsWebsite => step # "hash"
    BY DEF IndInv, Verdicts
  <2>4. ASSUME route = "anytls" PROVE peekErr = "none" /\ opening.user = "enabled"
    <3>1. step = "routed" /\ decision # "none" /\ route = RouteOf
      BY <2>4 DEF IndInv, Verdicts
    <3>2. decision = "AnyTLS"
      BY <2>4, <3>1 DEF RouteOf
    <3> QED
      BY <3>2 DEF IndInv, Verdicts
  <2> QED
    BY <2>2, <2>3, <2>4 DEF VerdictIsRight
<1> QED
  BY <1>1, InductiveInvariant, PTL

\* The connection handed to the website or to a session carries no deadline of
\* the handshake or of Peek.
THEOREM NoDeadlineLeft == Spec => []DeadlinesCleared
<1>1. IndInv => DeadlinesCleared
  BY DEF IndInv, Deadlines, DeadlinesCleared, PeekSteps
<1> QED
  BY <1>1, InductiveInvariant, PTL

\* The consumer of the connection reads what the peer sent, from the first byte
\* on, without a gap or a repetition.
THEOREM StreamIntact == Spec => []NoByteLost
<1>1. IndInv => NoByteLost
  <2> SUFFICES ASSUME IndInv PROVE NoByteLost
    OBVIOUS
  <2>1. taken \in Nat /\ Len(received) \in Nat /\ Len(received) <= taken
    BY DEF IndInv, TypeOK, Bytes
  <2>2. Len(buffer) = taken - Len(received)
    BY <2>1, PositionsType DEF IndInv, Bytes
  <2> QED
    BY <2>1, <2>2 DEF IndInv, Bytes, NoByteLost
<1> QED
  BY <1>1, InductiveInvariant, PTL

\* The handshake and four calls of Peek are all a probe can wait for, each for
\* probe_timeout.
THEOREM TimeBounded == Spec => []ProbeTimeBounded
<1>1. IndInv => ProbeTimeBounded
  <2> SUFFICES ASSUME IndInv PROVE ProbeTimeBounded
    OBVIOUS
  <2>1. elapsed \in Nat /\ left \in Nat /\ Timeout \in Nat
        /\ waiting \in BOOLEAN /\ tls \in BOOLEAN
    BY TimeoutAssumption DEF IndInv, TypeOK
  <2>2. waiting => step \in {"first", "stem", "prefix", "hash", "handshake"}
    BY DEF IndInv, Deadlines, PeekSteps
  <2>3. elapsed <= (IF tls THEN Timeout ELSE 0) + 4 * Timeout
    BY <2>1, <2>2 DEF IndInv, Time, Before
  <2> QED
    BY <2>1, <2>3 DEF ProbeTimeBounded
<1> QED
  BY <1>1, InductiveInvariant, PTL

=============================================================================
