# A TLA+ model of caddy-anytls

caddy-anytls is a Caddy listener wrapper. It accepts the connections of a TLS
port, completes the handshake, looks at the first decrypted bytes, and either
serves an AnyTLS proxy session itself or hands the connection on to Caddy's
HTTP server as if nothing had happened. This directory models the parts of it
that are hard to test, because they are concurrent, bounded, or run only when
something fails, and checks them with TLC and with the TLAPS proof system.

Paths and line numbers refer to the repository's sources. `PROJECT.json` lists
components, runs, hazards, theorems and, under `map`, the source lines every
definition stands for.

## 1. The system

| Component | State | Operations | Talks to |
|---|---|---|---|
| wrapped listener (`listener.go`) | `probeSlots`, `conns` (unbuffered), `done`, `terminalErr` | `Accept`, `Close`, `stop`, `acceptLoop`, `processAcceptedConn` | inner listener, net/http (caller of `Accept`), one goroutine per probed connection |
| classification (`listener.go`, `detector.go`, `buffered_conn.go`) | the buffered prefix, read deadlines | `handshakeTLSConn`, `classifyBufferedConn`, `routeBufferedConn` | listener, session admission, website hand-over |
| session admission (`limits.go`) | the atomic `active` | `acquire`, `release` | `routeBufferedConn`, `serveAnyTLS` |
| session registry (`session_registry.go`) | `sessions` under a mutex, a counter of streams in each entry | `registerSession`, `unregisterSession`, `acquireSessionStream`, `releaseSessionStream`, `closeActiveSessions` | `serveAnyTLS`, streams, `Cleanup` |
| session (`listener.go: serveAnyTLS`) | context, connection, deferred calls | arm idle timer, register, `NewConnection`, close, unregister, cancel, release | sing-anytls service |
| idle timeout (`listener.go: idleTimeoutConn`) | `lastActivity`, `timer`, `closed` | `Read`, `Write`, `touch`, `expire`, `Close` | the session's connection |
| stream (`handler.go`, `relay.go`, `uot.go`) | `activeStreams`, in- and outbound connection, `sync.Once` and `done` of the relay | `NewConnectionEx`, `handleUDPOverTCP`, `acquireStream`, `releaseStream`, `relay`, `relayUDPOverTCP` | session context, outbound |
| racing dial (`handler.go: dialContext`) | `next`, `inFlight`, fallback timer, `results` (unbuffered) | launch, receive, tick, return, `drainDialResults` | one goroutine per attempt |
| website hand-over (`anytls.go`, `website_conn.go`) | `websiteConns`, the shadow TLS states | `prepareWebsiteConn`, `cleanupWebsiteConn` | HTTP server's ConnState callbacks |
| life cycle (`anytls.go`) | the provisioned wrapper | `Provision`, `Validate`, `Cleanup`, `WrapListener` | Caddy |
| destination policy (`policy.go`), resolution and dial order (`handler.go`) | none of its own; the resolver's answers change | `validateDestination`, `resolveDestination`, `interleaveAddressFamilies`, `readUDPOverTCPRequest`, `preparePacketDestination` | stream, outbound's resolver |
| datagram loop (`uot.go`) | `destinationCache`, 256 entries of 30 s | `proxyUOTToPacket`, `proxyPacketToUOT` | stream |
| configuration (`config.go`, `anytls.go`, `detector.go`, `outbound.go`) | the wrapper's fields; then the outbound maps, the detector, the service's users, all read-only | `UnmarshalCaddyfile`, `UnmarshalJSON`, `Provision`, `provisionNamedOutbounds`, `Validate`, `outboundForUser` | Caddy's adapter and module loader |
| `auth.go`, `node_info.go`, `zap_logger.go` | none | context accessors, formatting | |

What is hard in it, and what correctness therefore means:

* **Slots and counters.** Four limits (`max_pending_probes`, `max_concurrent`,
  `max_streams_per_session`, `max_concurrent_streams`) are kept by a channel, by
  two load/compare-and-swap loops and by a counter under a mutex. Each must be
  exact on every path, failing ones included, and never exceeded.
* **Teardown from several sides.** A session ends because of its peer, its idle
  timer or `Cleanup`, all at once if they like; a relay ends through any of three
  goroutines. Everything must be closed and given back, once.
* **Unbuffered channels.** A website connection waits for a server that may have
  stopped; a dial result waits for a loop that may have returned. Nobody may be
  left waiting.
* **Timers.** An idle timer races with I/O, a fallback timer with failures.
* **Check and use.** A destination is checked, resolved and contacted in separate
  steps, a datagram's even 30 seconds later, by a resolver that may answer
  differently each time. What is contacted must be what was checked.
* **Configuration in stages.** Parsing, the adapter's JSON, `Provision` and
  `Validate` each see a part; together they must accept the right configurations
  and make of them what was written.
* **Shutdown.** `Close`, an accept error and `Cleanup` meet connections in every
  phase.

## 2. The modules

    BoundedPool            what a concurrency limit promises (abstract)
      ^ implemented by Sessions, and by the global limit in Streams
    Sessions               admission, session life cycle, registry, Cleanup
    Listener               accept loop, probe slots, hand-over, shutdown
      \ composed with Sessions in
    Gateway                one loaded configuration
    IdleTimeout            the idle timer of a session's connection
    Probe                  how one connection is classified and replayed
    Streams                stream limits, handler, relay
    Dial                   the racing dial
    Policy                 the destination policy and the dial order, operators
      ^ extended by
    Egress                 what a stream contacts: policy, resolver, UDP cache
    Config                 from Caddyfile or JSON to a running wrapper
    <Component>Proofs      theorems; those about IdleTimeout are in SessionsProofs
    MC*                    instances for TLC

**Sessions.** `pc[c]` is the program counter of a connection's goroutine from
`routeBufferedConn`'s call of `acquire()` to the last deferred call of
`serveAnyTLS`. `AcquireLoad`, `AcquireCAS` and `AcquireRetry` are the atomic steps
of `limits.go:5-18`, with `loaded[c]` the value read. `CloseConn`, `Unregister`,
`Cancel` and `Release` are the end of `serveAnyTLS` in the order in which deferred
calls run. `CleanupSnapshot` copies the registry under its lock; `CleanupClose`
handles one entry of the copy (cancel, then close: the two are one step, because
nothing that is modelled happens differently between them) and `CleanupReturn`
ends `Cleanup`. `IdleExpire` is the effect of `IdleTimeout` on a session.

**Listener.** `phase[c]` says how far a connection is, `holding` which goroutines
have not returned, `slots` is `len(probeSlots)`. What the peer sends is left open:
a probe may have any outcome `classifyBufferedConn` has. `Stop` is `stop()`'s
`sync.Once`; `CloseListener` and `CloseStop` are the two halves of `Close`, between
which the accept loop can notice the closed inner listener first. `HandOver` is
the rendezvous of the goroutine's send with `Accept`. `shadow` is `websiteConns`.

**Probe.** What Listener leaves open in `Probing`, for one connection. Bytes are
their positions; of their contents the model keeps what the code compares: the
method prefix the opening agrees with longest, for how many bytes, and whether the
first 32 bytes are the hash of an enabled, a disabled or no user. `step` is the Peek
at hand; `Fill` is bufio reading whatever is there, which can be more than was asked
for; `PeekFails` and `PeekOnClosed` are the error paths (`net.ErrClosed`, which no
part of the program causes today, is included because the code distinguishes it).
`buffer` is what bufio holds and, after `Route`, what is replayed to the consumer.

**Gateway.** Instances of Listener and Sessions over the union of their variables.
`RouteAnyTLS`, `Admit` and `Refuse` are steps of both (the same call of `acquire()`
seen from either side); all other steps are those of one. Caddy closes the
listener before it calls `Cleanup`; that is the guard of `Unload`. A provisioned
wrapper has a session limit (Config shows it), which is an assumption here.

**IdleTimeout.** Time is discrete and relative: `idle` is the age of
`lastActivity`, `timer` what remains, both saturated at `Timeout`. Read and Write
move bytes first (`MoveBytes`) and take the lock later (`Touch`); a due timer
starts an `expire` goroutine, which takes the lock later too. `closing` counts
those who set `closed` and still have to call the inner `Close`. (The timer is set
again by `touch` already, so that `Reset` in `expire` finds it at the value it
writes; `TimeoutPending` and `QuietIsClosed` hold without it too.)

**Streams.** `pc[s]` follows `NewConnectionEx` or, for the streams in `UoT`,
`handleUDPOverTCP`. The session slot is taken under the registry's lock, the global
one by load/CAS; `Rollback` gives the former back. `gor[s]` holds the three
goroutines of a relay (the context watcher and the two copiers), which meet in
`closeAll`'s `sync.Once`: `EnterClose` picks the one that runs it, the others wait
until it is done. `PoolState` is the refinement mapping to BoundedPool for
`max_concurrent_streams`. Sessions end in the order Sessions has shown: unregister, then
cancel, or cancel first if `Cleanup` did it.

**Dial.** The destination is first resolved (`Resolved`, `ResolveFails`), under the
same `connect_timeout`. Addresses are numbered from 1. A result waiting to be sent is a state
of the attempt (`ok`, `err`, `nil`), since the channel is unbuffered. `timerC` is
"`fallbackTimerC` is not nil", apart from the timer itself. `drain` is what
`drainDialResults` still has to receive.

**Policy and Egress.** An address is a number with a family, a prefix the set of
addresses it contains, a name the sequence of its labels; upper case, a final dot
and the leading `.` or `*.` of a pattern are kept, because the code treats them.
Egress follows one stream: `Open` is what `validateDestination` tests before it
resolves, `Resolve` the resolver's answer and the rest of the checks, `LaunchDial`
one attempt of `dialContext`; `PacketHit`, `PacketMiss` and `PacketResolved` are an
iteration of `proxyUOTToPacket`. Each lookup may return any of the answers. A cache
entry also remembers the answer it came from and when, and `last` the contact the
last step made, which is what the properties are about. They compare with a
description of the policy written from `README.md` and `docs/` (`PermitsPort`,
`PermitsDest`, `PermitsAnswer`), not with the operators of `Policy`. Description and code
differ on one case, `Disputed`: a destination given as an IP address while `allow_domain`
is set, which `docs/` refuses and `policy.go:91` admits. `ContactsPermitted` and
`RefusalsJustified` take no side there; `OnlyListedNames` is what `docs/examples.md:146`
says, and is violated (*Findings*). `OfFamily` is the list of one family that the first
loop of `interleaveAddressFamilies` builds; `DialOrder` also uses it to say that the
addresses of a family keep their order, since sorting the interleaved list by family must
give the same two lists again. How the families are mixed is not part of `DialOrder`,
because the documents differ on it; that the code alternates them is a theorem
(`FamiliesInTurn`).

**Config.** `UnmarshalCaddyfile` reads one directive, `Adapt` is Caddy's adapter
(external), which marshals the wrapper with the tags of its fields; `WriteJSON` stands
for a configuration that is JSON to begin with. `UnmarshalJSON`, `Provision` and
`Validate` follow, `Refuse` where one of them returns an error. Texts are abstracted to
what their parsers tell apart (`Malformed` is every text a parser refuses); outbound
modules are names, some of which do not load. The lists of ports, prefixes, domains
and hosts are sets, since nobody asks for the order of their entries. What a stage does
to a wrapper is an operator on wrappers (`Applied`, `FromJSON`, `Provisioned`,
`Runtime`), so that it can be reasoned about apart from the state. The properties compare
the running wrapper with what the directives or the JSON say, read as a whole and
without regard to order: `Given` is the set of places where a directive occurs, `Written`
the value at the last of them, and `WellFormed` what the author may expect to run.

Every component's module holds, beside the actions, *fault* operators (marked
`\* Fault:`): what the action would be with a plausible mistake, such as a dropped
guard or a missing release. No specification uses them. Put in the place of the
action they belong to (`mutants` in PROJECT.json), each makes TLC report the
property it is listed with, which shows that the property depends on that line of
the code.

## 3. The runs

| Run | Shows | Instance |
|---|---|---|
| sessions | counter exact (`SlotAccounting`), limit holds for the registry too (`RegistryWithinLimit`), nothing left after an end (`TeardownComplete`), acquire answers (`AdmissionDecided`), Cleanup finishes what it found (`SnapshotTornDown`), refinement of BoundedPool (`ImplementsPool`) | 3 connections, limit 2 |
| listener | slots exact, one for every probe (`SlotAccounting`, with the types), shadow table exact (`ShadowTracksWebsite`), first terminal error stays (`TerminalErrorStable`), everyone is routed (`OthersAreRouted`), stopping drains (`StopDrains`) | 2 TLS and 1 plain connection, 2 slots |
| gateway | one owner per connection (`OneOwner`), a session frees its probe slot (`SessionFreesProbeSlot`) | 2 connections, 1 probe slot, 1 session slot, fallback off |
| idle_timeout | the timeout is never lost (`TimeoutPending`), only idle connections expire (`ExpireOnlyWhenIdle`), the inner connection is closed once (`ClosedOnce`), a quiet one is closed (`QuietIsClosed`) | timeout 3 ticks, 2 expire goroutines |
| streams | both counters exact, both limits hold (`StreamSlots`, with the types), no connection left open (`NoConnectionLeak`), the global limit is a BoundedPool (`ImplementsStreamPool`); cancelling a session, or the end of one direction, ends the stream with all goroutines (`CancelEndsStreams`, `CopyEndEndsStream`) | 3 streams of 2 sessions, two at a time, both limits 1, one UDP-over-TCP stream |
| probe | the verdict is that of the whole opening (`VerdictIsRight`), no deadline is left behind (`DeadlinesCleared`), every byte is read once and in order (`NoByteLost`), the probe takes at most five times `probe_timeout` (`ProbeTimeBounded`) and ends (`ProbeEnds`) | 4 prefixes, every agreement, 8 cuts, timeout 1 tick |
| dial | somebody receives every result (`ReceiverForEveryDial`), no index out of range (`NextInRange`), failure only when nothing could succeed (`FailureIsExhaustive`), only the winner's connection survives (`OnlyWinnerSurvives`), the dial returns and its goroutines end (`DialSettles`) | 1 to 4 addresses |
| egress | only addresses of an answer that passed are contacted (`ContactsPermitted`), only what the policy refuses is refused (`RefusalsJustified`), no address of a family lost, repeated or reordered in the dialled list (`DialOrder`), no datagram to an address older than the cache's lifetime (`PacketsFresh`) | 432 policies, 8 destinations, 86 answers to a dial and 4 to a datagram, cache of 2, lifetime 1 tick, 3 ticks |
| config | accepted iff well-formed (`AcceptedIffWellFormed`), settings and outbounds in force as written (`RunningAsWritten`), detector and service agree on the users (`DetectorMatchesService`) | Caddyfiles of up to 4 of 40 directives, hand-written JSON with up to 2 users |
| gateway_unload, egress_allow_domain, config_fallback | violated: see *Findings* | as gateway, egress, config (2 directives) |

**Bounds.** Two sessions of three can be admitted, so the third can be refused,
can lose a compare-and-swap, and can be admitted when a slot is given back before
its load; a fourth adds only more of the same. Two probe slots
for three connections make the loop wait for a slot while both are busy, and leave
one when one peer is silent; in Gateway one slot each makes both queues full at
once; there fallback is off, so that a failed probe is closed as well as handed over. Of the three streams two share a
session and so its limit, two share the global limit only. They are under way two at a
time (`MCTwoAtATime`): s1 with s2, or s2 with s3, each pair through every interleaving;
the remaining stream is opened when the sessions are gone, and refused. The constraint only
puts off the opening of a stream, which no fairness assumption asks for, so that each of
the run's behaviours is a fair behaviour of the module. Both limits are then reached, the
session's by the first pair and the global one, with its rollback, by the second; three
streams at once are left to the proofs, which are for any number. In Probe the prefixes of the
instance are one of a letter of its own and three of those that share theirs; the cuts
lie at most of the lengths the code asks for, before the end of the hash, and one byte behind the hash. One tick of
timeout is enough for each call to end before, at and after its deadline. Four
addresses allow a tick between two failures, and a failure after the last tick. A timeout of three ticks leaves
room for activity early, late and at the last moment; two `expire` goroutines can
exist when a touch set the timer again while the first waited for the lock, and
the guard of `TimerFires` (`MaxExpiring`) bounds them. In Egress every pair of policy
entries of different kinds occurs, with names that match by case, by final dot, by
suffix or not at all, and answers that mix permitted and refused addresses of both
families; a cache of two entries overflows with three destinations, and three ticks
let an entry expire, be renewed and expire again. Four directives are enough for
two users, the outbound they name and a default, in every order, and for a
directive given twice. There are no other counters to bound: connections, streams
and attempts are used once.

**Fairness.** What is assumed, and why the code and its environment justify it:

* every goroutine that can run does (the Go scheduler): weak fairness of the
  internal steps of each connection, stream, loop and drain;
* net/http calls `Accept` again until it fails: weak fairness of `ServerAccept`;
* the senders on an unbuffered channel are served first-come first-served, so one
  that waits while `Accept` is called again and again is served in the end: strong
  fairness of `HandOver(c)`;
* a probe ends if it has a deadline, or if its peer is not one of `Silent`;
* the AnyTLS service returns once its connection is closed; a copier ends once one
  of its connections is closed, a lookup for a datagram once the session's context
  is; a lookup or a dial ends once its context is cancelled; `connect_timeout`
  elapses; timers fire.

Not assumed: that a peer ever sends, ends or falls quiet, that `Close` or
`Cleanup` is called, that an accept error happens while the listener is open, or
that a dial ends by itself. `AdmissionDecided` rests on the connections being
finitely many: acquire's loop is lock-free (a failed CAS means another one
succeeded), so with an endless supply of competitors one connection could in
principle lose forever.

**External parts**, modelled from how the code uses them: the sing-anytls service
(`NewConnection` blocks until the session ends), Caddy (closes the listener before
`Cleanup`, adapts a Caddyfile by marshalling the wrapper, zeroes raw module fields it
has loaded), the resolver and `M.Socksaddr`, net/http (accept loop and ConnState callbacks), the inner listener,
dialling, time.

Deadlock is checked in every run. The modules whose system can come to rest have
a `Terminating` step, whose guard says what the state must then be; any other state
without a successor is an error.

## 4. What is proved

`SessionsProofs`, for every finite set of connections, every limit and with or
without idle timeout:

* `InductiveInvariant`: `Spec => []IndInv`. `SlotAccounting` alone is not
  inductive: a CAS keeps the counter below the limit only because the value loaded
  earlier was below it (`BelowLimit`), the registry is within the limit only
  because its members are exactly the connections between two steps of
  `serveAnyTLS`, all of which hold a slot (`RegistryPhases`), and a finished session
  is closed and cancelled because each of its last steps left it so and nothing
  undoes it (`TeardownPhases`). `IndInv` is the conjunction with `TypeOK`. Each
  conjunct has its own lemma (`TypeStep`, `AccountingStep`, `LimitStep`,
  `RegistryStep`, `TeardownStep`), by cases on the actions; the lemmas `Holders*`
  say how the set of slot holders and its cardinality change when one connection
  moves.
* `TypeCorrect`, `SlotsExact`, `RegistryBounded` and `TeardownLeavesNothing` follow.
* `SessionsImplementPool`: `Spec => ImplementsPool`. The mapping takes `pc[c]` to
  idle, held, refused or released; the CAS is the pool's Acquire, a load that finds
  the counter at the limit its Refuse, `release()` its Release, everything else
  stutters. Slot accounting turns the test of the counter into the pool's test of a
  cardinality.

`SessionsProofs` also holds the theorems about IdleTimeout, for every timeout and every
bound on expire goroutines: `TimeoutNeverLost`, `InnerClosedOnce` and the action property `ExpiresOnlyIdle`. The
last one needs that `lastActivity` is never older than the last byte moved unless a
touch is waiting for the lock (`IdleCoversIO`).

`ListenerProofs`, for every finite set of connections, every `max_pending_probes` and
every choice of the options: `SlotsExact`, `ShadowExact` and the action property
`FirstErrorWins`. Slot accounting is inductive only together with the fact that a
connection still queued has no goroutine (`QueuedHoldNothing`): accepting it then adds
a new holder to the one token the loop had. `FirstErrorWins` needs that `done` and
the terminal error are set together (`StoppedForAReason`), as `stop()` sees to.

`GatewayProofs`, for every set of connections: `OwnerUnique`, and that the composition
hides nothing from the components, `ListenerImplemented` (`Spec => L!Spec`) and
`SessionsImplemented` (`Spec => S!Spec`): every step of Gateway is a step of each
component or leaves it alone, so what is proved of Listener and of Sessions holds of a
loaded configuration. `OneOwner` is not inductive: that Cleanup and the idle timer touch
no website connection holds because the registry and Cleanup's copy of it only ever
have admitted connections (`Reached`), and that the two sides agree on who has a
connection rests on the table of pairs of phases that can occur together (`Coupled`).

`StreamsProofs`, for every finite set of streams, every set of sessions and every value
of the two limits, 0 included: `SlotsExact`, `NothingLeaks` and the refinement
`StreamsImplementPool`. The counter of a session is exact only while its entry exists,
but its limit is one for the streams, which outlive the entry: `SessionLimit` states
it for them, whether the entry exists or not. As in Sessions a compare-and-swap is
justified by what was loaded (`Admission`); `ConnectionPhases` says in which phases an
outbound can be open. The lemmas sort the steps of a stream by what they do to the sets
of slot holders (`Quiet`, `TakesGlobal`, `TakesSession`, `DropsSession`), so that each
accounting is proved over four kinds of steps and not over every action. In the mapping
to BoundedPool a refused stream is told by the value it loaded, which is why the
refinement needs `Admission` too.

`DialProofs`, for every number of addresses: `NoDialForgotten`, `IndexInRange`,
`FailsOnlyExhausted` and `LosersClosed`. The first three are conjuncts of the invariant;
`OnlyWinnerSurvives` follows from where each open connection is: waiting to be received,
or returned (`ConnsAccounted`). `NotReturned` says that a loop still running has
neither result nor winner nor drain.

`ProbeProofs`, for every set of openings, every way of cutting the bytes and every
`probe_timeout`: `RoutedRight`, `NoDeadlineLeft`, `StreamIntact` and `TimeBounded`. Four
invariants, each inductive given the types: what the Peek at hand says of the opening
(`Verdicts`: whoever asks for more bytes knows that those before agree with a method),
during which calls a deadline is set (`Deadlines`), where each byte taken off the
connection is (`Bytes`), and how much time the calls made so far can have used (`Time`).

`EgressProofs`, for every policy, destination, resolver answer of any length, cache size
and lifetime: `ContactsAreChecked`, `RefusalsAreRight`, `DialsInOrder`,
`FamiliesInTurn` and `DatagramsFresh`. It has two parts.

* About the operators of `Policy`, with no state. `AdmitsIffPermits` and
  `PassesIffPermits`: what `validateDestination` tests before and after it resolves is the
  described policy, and for the first half also what is `Disputed`; the first rests on `EndsInSuffix` (the suffix test at the one
  position where the lengths fit is the test at any), the second shows that skipping
  the address policy is no more than a shortcut. `InterleavedOrder`: the list that
  `interleaveAddressFamilies` makes of any answer satisfies `DialOrder` and
  `FamiliesAlternate`. Its first loop
  is a recursive function, about which facts are proved by induction over the number of
  addresses read (`KeptRounds`, `KeptType`, `KeptLengths`, `KeptFirst`). Its second is
  described by the place each address comes from (`TakenFrom`), and sorting the result
  by family gives the two lists back because the numbers of addresses taken from each
  (`FromP`, `FromA`) go up by one where an address of that family stands and nowhere
  else (`SortedInto`). The induction (`SetInduction`) is on a set of numbers in place of a
  predicate, from the well-foundedness of `<`, because the library's induction theorems
  take an operator that the provers cannot instantiate.
* About the stream. The properties are not inductive: a contact is permitted because
  what it is taken from was checked earlier, under the same policy. `Stages` says how
  far the destination has been checked at each point and that what is left to dial comes
  from the answer that passed; `CacheChecked` says of each entry that it is the first
  address of a checked answer and expires `TTL` after it; `CacheBounded`,
  `ContactJustified` and `RefusalsJustified` complete `IndInv`. One lemma per action.

`ConfigProofs`, for every set of directives and of hand-written JSON objects, every set of
outbound modules and Caddyfiles of any length: `AcceptsWellFormed`, `RunsAsWritten` and
`DetectorAgrees`, all three from `StagesInvariant`. None of the properties is inductive,
since they speak of the end only. `Stages` says what each stage has made of the
configuration, and the argument has three parts.

* *Parsing.* `FileRead(g, w)`: the wrapper `w` says what the directives `g` say together
  (the last value of each setting, the union of each list, the same users, the same
  outbounds), and `g` has nothing that may not be repeated. The lemmas `*Append` show how
  the reading of a sequence as a whole changes with one more directive, `FileStep` that
  `Applied` follows it, and `DirectivesAppend` that the parser's own test, which looks at
  the wrapper only, refuses a directive exactly if the sequence with it is not in order.
* *The adapter.* `RoundTrip`: what `omitempty` leaves out comes back as the zero value it
  was, with the one exception of `fallback`. So the decoded wrapper says what was written,
  from either syntax (`Reads`, `DecodedReads`). A corollary, `FallbackOnlyFromJSON`, is the
  exact extent of the first finding below: from JSON the option arrives as written, after a
  Caddyfile it is always on.
* *Provision and Validate.* `StagesAccept`: decoding, `ProvisionOK` and `ValidateOK`, each
  of which tests what an earlier stage left, amount to `WellFormed`. The maps built before
  `Validate` has refused duplicates keep the last of several users; that they are right
  in a running wrapper needs that names and passwords differ (`LastOfOne`,
  `DistinctUsers`), from which `DetectorOf`, `UserOutboundOf`, `NamedTarget` and
  `DefaultTarget` say what each lookup finds.

`Stages` was model-checked before it was proved, on Caddyfiles of up to three directives.

The assumptions are those on the constants, stated in the modules and evaluated by TLC on
every instance: finitely many connections (`ConnsAssumption`) and streams
(`StreamsAssumption`); limits are natural numbers, 0 for no limit where the code allows it
(`MaxConcurrentAssumption`, `LimitsAssumption`) and positive where Provision sees to it
(`MaxPendingAssumption`, Gateway's `LimitAssumption`); timeouts and bounds are positive
or natural numbers; options are Booleans; names are sequences of labels, answers
sequences of addresses (`LowerAssumption`, `PoliciesAssumption`, `DestsAssumption`,
`AnswersAssumption`). Those of Config say that the marks for malformed, null and absent
values are no values a field can have (`MarksAssumption`), that "" and null name no module
(`ModulesAssumption`), that a directive has a sequence of arguments, a number's argument
being a number or malformed (`DirectivesAssumption`), and the same of JSON
(`JSONAssumption`).

Only model-checked: the liveness properties (`AdmissionDecided`, `SnapshotTornDown`,
`OthersAreRouted`, `StopDrains`, `SessionFreesProbeSlot`, `QuietIsClosed`,
`CancelEndsStreams`, `CopyEndEndsStream`, `ProbeEnds`, `DialSettles`), which rest on
fairness and are out of the prover's reach. Every other property that a passing run checks,
invariant, action property or refinement, has its theorem.

## 5. Findings

* **`fallback false` in a Caddyfile is lost.** `Fallback` is tagged `omitempty`
  (`anytls.go:45`). Caddy turns a parsed Caddyfile into JSON, which then has no
  `fallback`, and `UnmarshalJSON` (`config.go:340-344`) reads a missing one as true.
  The test `TestUnmarshalCaddyfileAllowsFallbackFalse` (`config_test.go:115-134`) provisions
  the parsed wrapper directly and does not see it. Run `config_fallback`.
* **Sessions can begin after Cleanup.** `anytls.go:289`, `README.md:294` and
  `docs/product.md:74` say that unloading a configuration ends its AnyTLS sessions.
  `closeActiveSessions` copies the registry once; a connection that is being probed
  at that moment, or that was admitted and has not reached `registerSession`, is
  missed and served under the old configuration until it ends by itself. Run
  `gateway_unload`.
* **`allow_domain` does not restrict destinations given as an IP address.**
  `docs/examples.md:146` says that with it only the listed names and suffixes may be
  accessed, and `docs/examples.md:86` and `docs/technical-design.md:85` that a target which
  misses an `allow_*` list is refused. `validateNameAndPortPolicy` returns before the lists
  of names if there is no name (`policy.go:91-93`). `README.md:176`, which speaks of the
  "corresponding" targets, can be read either way. Run `egress_allow_domain`.

Smaller observations, made while modelling:

* With `fallback` off a connection that the website fast path recognises still goes to
  the website: `routeBufferedConn` consults the option only if the probe ended with an
  error (`listener.go:163`, `184`), while `README.md:156` describes it as "whether traffic
  that is not AnyTLS is handed back". `VerdictIsRight` states what the code does.
* `docs/technical-design.md:80` says that addresses are dialled in the order of the
  resolver's answer; the families are interleaved (`handler.go:173`, as `README.md:179`
  and `docs/examples.md:170` say). `DialOrder` states what both descriptions share,
  `FamiliesInTurn` what the code does.
* `closeActiveSessions` reads a session's user for its log line without the lock under
  which `updateSessionUser` writes it (`session_registry.go:110`, `48`): a data race.
* A website connection dropped because the listener stopped leaves its entry in
  `websiteConns` (`listener.go:106`).
* A UDP-over-TCP request is read without a deadline (`handler.go:349`), and a datagram's
  lookup has no `connect_timeout`; both end with the session at the latest.

## 6. What is not modelled

* Share links (`node_info.go`) and the logging adapter: formatting, no state.
* `auth.go`: accessors of context values. `updateSessionUser` and the byte counters
  feed the log only.
* `DirectOutbound` (`outbound.go`): calls of the standard library. The last tiers of
  `resolveDefaultOutbound` serve wrappers built by hand in tests only.
* The text of tokens: how a duration, a prefix or a JSON value is parsed. A surplus
  argument of a scalar directive, which the parser takes for the next directive, is
  a refused directive in Config.
* The table of private ranges (`policy.go:13-24`) is a constant set of Policy.
* Two paths no connection can take: the error return of `BufferedBytes`
  (`listener.go:88-97`; peeking at what is buffered does not fail) and, with the
  detector the code installs, a rejection that carries no error.

## 7. What is left

The components are modelled, and all their safety properties are proved. A next step would
be to put Probe in the place of Listener's `Probing`, so that one specification carries a
connection from its first byte to its session; today the outcomes of the one are the
alternatives of the other by inspection only.
