------------------------------- MODULE Config -------------------------------
(***************************************************************************)
(* How a configuration becomes a running listener wrapper.  A Caddyfile is *)
(* parsed directive by directive (config.go:UnmarshalCaddyfile) and turned *)
(* into JSON by Caddy's adapter; that JSON, or JSON written by hand, is    *)
(* decoded into a new wrapper (UnmarshalJSON), which is provisioned        *)
(* (anytls.go:Provision, provisionNamedOutbounds,                          *)
(* detector.go:NewPasswordHashDetector) and validated (anytls.go:Validate).*)
(* Each stage may refuse it.  Afterwards streams look their outbound up by *)
(* user (handler.go:outboundForUser).                                      *)
(*                                                                         *)
(* The checks are spread over the stages, and several of them depend       *)
(* on what an earlier stage left: references are resolved after everything *)
(* is declared, duplicates are refused after the maps they would corrupt   *)
(* are built.                                                              *)
(***************************************************************************)
EXTENDS Integers, Sequences

CONSTANTS
    Directives,     \* what a Caddyfile block may contain: [dir, args] records
    MaxDirectives,  \* bound on their number
    JSONConfigs,    \* the JSON objects written by hand, see UnmarshalJSON
    Modules,        \* the registered outbound modules
    Broken,         \* those of them whose LoadModule fails
    Malformed,      \* stands for every text that a parser refuses
    Null,           \* JSON's null
    Absent          \* the "enabled" of a JSON user that has none

\* Provision's values for what is zero; durations in seconds.
Defaults == [probe_timeout |-> 5, idle_timeout |-> 120, connect_timeout |-> 10,
             max_concurrent |-> 128, max_pending_probes |-> 256,
             max_streams_per_session |-> 256, max_concurrent_streams |-> 1024]

\* Stands for padding.DefaultPaddingScheme.
DefaultPaddingScheme == "default padding scheme"

Numbers == DOMAIN Defaults
Flags == {"fallback", "allow_private_targets", "log_node_info", "node_insecure"}
Texts == {"padding_scheme", "node_sni"}
Ports == {"allow_port", "deny_port"}
CIDRs == {"allow_cidr", "deny_cidr"}
Domains == {"allow_domain", "deny_domain"}
Scalars == Numbers \cup Flags \cup Texts \cup {"node_port"}
Lists == Ports \cup CIDRs \cup Domains \cup {"node_host"}

\* The zero value of a field.
Zero(f) == IF f \in Flags THEN FALSE ELSE IF f \in Texts THEN "" ELSE 0

Range(s) == {s[i] : i \in DOMAIN s}

ASSUME MarksAssumption ==
    /\ Malformed # Null /\ Null # TRUE /\ Absent # TRUE
    /\ \A f \in Scalars : Zero(f) # Malformed /\ Zero(f) # Null

ASSUME ModulesAssumption == "" \notin Modules /\ Null \notin Modules

ASSUME DirectivesAssumption ==
    \A d \in Directives :
        /\ Len(d.args) \in Nat /\ DOMAIN d.args = 1 .. Len(d.args)
        /\ Null \notin Range(d.args)
        /\ d.dir \in Numbers => \A v \in Range(d.args) : v = Malformed \/ v \in Int

ASSUME JSONAssumption ==
    \A j \in JSONConfigs :
        /\ DOMAIN j.scalar \subseteq Scalars /\ DOMAIN j.lists \subseteq Lists
        /\ \A f \in DOMAIN j.scalar \cap Numbers :
              j.scalar[f] = Malformed \/ j.scalar[f] = Null \/ j.scalar[f] \in Int
        /\ Len(j.users) \in Nat /\ DOMAIN j.users = 1 .. Len(j.users)

\* new(ListenerWrapper).  "" is no outbound module, no reference.  The lists are
\* kept as sets: nobody asks for the order of their entries.
NewWrapper ==
    [scalar |-> [f \in Scalars |-> Zero(f)], fallbackSet |-> FALSE,
     lists |-> [f \in Lists |-> {}], users |-> <<>>,
     outboundRaw |-> "", outboundsRaw |-> <<>>, defaultOutbound |-> ""]

\* What Provision builds.
NotProvisioned ==
    [named |-> <<>>, default |-> "", userOutbound |-> <<>>, detector |-> <<>>,
     service |-> {}]

NoJSON == [scalar |-> <<>>, lists |-> <<>>, users |-> <<>>, outbound |-> "",
           outbounds |-> <<>>, defaultOutbound |-> ""]

VARIABLES
    pc,     \* "parse", "load", "provision", "validate", "running" or "rejected"
    given,  \* the directives of the Caddyfile, as far as they were read
    json,   \* the JSON to load
    lw,     \* the wrapper's configuration fields
    run     \* its runtime fields

vars == <<pc, given, json, lw, run>>

Init ==
    /\ pc = "parse" /\ given = <<>> /\ json = NoJSON
    /\ lw = NewWrapper /\ run = NotProvisioned

-----------------------------------------------------------------------------
(***************************************************************************)
(* UnmarshalCaddyfile.                                                     *)
(***************************************************************************)

\* The two forms of outbound: a module, or a name and a module.
Single(d) == d.dir = "outbound" /\ Len(d.args) = 1
Named(d) == d.dir = "outbound" /\ Len(d.args) = 2

\* A directive that its own parser accepts, whatever the others are.
ArgsOK(d) ==
    \/ d.dir \in Numbers \cup Flags /\ Len(d.args) = 1 /\ d.args[1] # Malformed
    \/ d.dir \in Texts /\ Len(d.args) = 1
    \/ d.dir \in Lists \ Ports /\ d.args # <<>>
    \/ d.dir \in Ports /\ d.args # <<>> /\ Range(d.args) \cap {0, Malformed} = {}
    \/ d.dir = "node_port" /\ Len(d.args) = 1 /\ d.args[1] \notin {0, Malformed}
    \/ d.dir = "user" /\ Len(d.args) \in {2, 3}
    \/ Single(d) /\ d.args[1] \in Modules
    \/ Named(d) /\ d.args[1] # "" /\ d.args[2] \in Modules
    \/ d.dir = "default_outbound" /\ Len(d.args) = 1 /\ d.args[1] # ""

\* Fault: a second declaration of a name replaces the first.
OnceAtMostOne(w, d) ==
    /\ Single(d) => w.outboundRaw = ""
    /\ d.dir = "default_outbound" => w.defaultOutbound = ""

\* The directives that may only be given once.
Once(w, d) ==
    /\ Single(d) => w.outboundRaw = ""
    /\ Named(d) => d.args[1] \notin DOMAIN w.outboundsRaw
    /\ d.dir = "default_outbound" => w.defaultOutbound = ""

UserFromArgs(d) ==
    [name |-> d.args[1], password |-> d.args[2], enabled |-> TRUE,
     outbound |-> IF Len(d.args) = 3 THEN d.args[3] ELSE ""]

\* The wrapper after directive d: a scalar is overwritten, a list or map extended.
Applied(w, d) ==
    [scalar |-> [f \in Scalars |-> IF f = d.dir THEN d.args[1] ELSE w.scalar[f]],
     fallbackSet |-> w.fallbackSet \/ d.dir = "fallback",
     lists |-> [f \in Lists |-> IF f = d.dir THEN w.lists[f] \cup Range(d.args) ELSE w.lists[f]],
     users |-> IF d.dir = "user" THEN Append(w.users, UserFromArgs(d)) ELSE w.users,
     outboundRaw |-> IF Single(d) THEN d.args[1] ELSE w.outboundRaw,
     outboundsRaw |-> IF Named(d)
                      THEN [n \in DOMAIN w.outboundsRaw \cup {d.args[1]} |->
                               IF n = d.args[1] THEN d.args[2] ELSE w.outboundsRaw[n]]
                      ELSE w.outboundsRaw,
     defaultOutbound |-> IF d.dir = "default_outbound" THEN d.args[1] ELSE w.defaultOutbound]

UnmarshalCaddyfile(d) ==
    /\ pc = "parse" /\ Len(given) < MaxDirectives
    /\ given' = Append(given, d)
    /\ IF ArgsOK(d) /\ Once(lw, d) THEN lw' = Applied(lw, d) /\ UNCHANGED pc
                                   ELSE pc' = "rejected" /\ UNCHANGED lw
    /\ UNCHANGED <<json, run>>

-----------------------------------------------------------------------------
(***************************************************************************)
(* JSON.  An object has the scalars and lists that are present only.  A    *)
(* null has the field's zero value; a present fallback or enabled, even    *)
(* null, is explicit.                                                      *)
(***************************************************************************)

\* The field tags of ListenerWrapper: every one says omitempty.
Marshal(w) ==
    [scalar |-> [f \in {g \in Scalars : w.scalar[g] # Zero(g)} |-> w.scalar[f]],
     lists |-> w.lists, users |-> w.users, outbound |-> w.outboundRaw,
     outbounds |-> w.outboundsRaw, defaultOutbound |-> w.defaultOutbound]

\* The block ends and Caddy's adapter marshals the wrapper.
Adapt ==
    /\ pc = "parse" /\ pc' = "load" /\ json' = Marshal(lw)
    /\ UNCHANGED <<given, lw, run>>

\* Or the configuration is JSON to begin with.
WriteJSON ==
    /\ pc = "parse" /\ given = <<>> /\ pc' = "load"
    /\ json' \in JSONConfigs
    /\ UNCHANGED <<given, lw, run>>

Value(f, v) == IF v = Null THEN Zero(f) ELSE v

\* User.UnmarshalJSON: enabled unless it says otherwise.
UserFromJSON(u) == [u EXCEPT !.enabled = IF @ = Absent THEN TRUE ELSE IF @ = Null THEN FALSE ELSE @]

FromJSON(j) ==
    [scalar |-> [f \in Scalars |-> IF f \in DOMAIN j.scalar THEN Value(f, j.scalar[f])
                                   ELSE IF f = "fallback" THEN TRUE ELSE Zero(f)],
     fallbackSet |-> "fallback" \in DOMAIN j.scalar,
     lists |-> [f \in Lists |-> IF f \in DOMAIN j.lists THEN j.lists[f] ELSE {}],
     users |-> [i \in DOMAIN j.users |-> UserFromJSON(j.users[i])],
     outboundRaw |-> j.outbound, outboundsRaw |-> j.outbounds,
     defaultOutbound |-> j.defaultOutbound]

\* A value of the wrong type is refused.  (A text, or a prefix, is any text.)
Decodes(j) ==
    /\ \A f \in DOMAIN j.scalar \ Texts : j.scalar[f] # Malformed
    /\ \A f \in DOMAIN j.lists \cap Ports : Malformed \notin j.lists[f]

UnmarshalJSON ==
    /\ pc = "load"
    /\ IF Decodes(json) THEN pc' = "provision" /\ lw' = FromJSON(json)
                        ELSE pc' = "rejected" /\ UNCHANGED lw
    /\ UNCHANGED <<given, json, run>>

-----------------------------------------------------------------------------
(***************************************************************************)
(* Provision.                                                              *)
(***************************************************************************)

compileCIDRPolicies(w) == \A f \in CIDRs : Malformed \notin w.lists[f]

\* The built-in outbound, and the instance loaded for a declaration: the named
\* one n, or the single one (n = "").
Direct == [name |-> "direct", module |-> "builtin"]
Loaded(n, mod) == [name |-> n, module |-> mod]

\* An outbound "null" is none.
hasSingleOutbound(w) == w.outboundRaw \notin {"", Null}

\* Every declared module loads; names are neither empty nor reserved.
OutboundsLoad(w) ==
    /\ hasSingleOutbound(w) => w.outboundRaw \in Modules \ Broken
    /\ DOMAIN w.outboundsRaw \cap {"", "direct", "default"} = {}
    /\ Range(w.outboundsRaw) \subseteq Modules \ Broken

namedOutbounds(w) ==
    [n \in DOMAIN w.outboundsRaw \cup {"direct"} |->
        IF n = "direct" THEN Direct ELSE Loaded(n, w.outboundsRaw[n])]

ReferencesDeclared(w) ==
    {w.defaultOutbound} \cup {u.outbound : u \in Range(w.users)}
        \subseteq DOMAIN namedOutbounds(w) \cup {""}

\* Fault: the single outbound goes before default_outbound.
DefaultSingleFirst(w) ==
    IF hasSingleOutbound(w) THEN Loaded("", w.outboundRaw)
    ELSE IF w.defaultOutbound # "" THEN namedOutbounds(w)[w.defaultOutbound]
    ELSE Direct

Default(w) ==
    IF w.defaultOutbound # "" THEN namedOutbounds(w)[w.defaultOutbound]
    ELSE IF hasSingleOutbound(w) THEN Loaded("", w.outboundRaw)
    ELSE Direct

\* A map built from the users has, for a key that several of them have, the value
\* of the last.
LastOf(users, some) ==
    users[CHOOSE i \in DOMAIN users :
             users[i] \in some /\ \A j \in DOMAIN users : users[j] \in some => j <= i]

userOutbound(users, named) ==
    [n \in {u.name : u \in {v \in Range(users) : v.outbound # ""}} |->
        named[LastOf(users, {u \in Range(users) : u.name = n /\ u.outbound # ""}).outbound]]

\* Keyed by the password (its hash).
NewPasswordHashDetector(users) ==
    [p \in {u.password : u \in Range(users)} |->
        LastOf(users, {u \in Range(users) : u.password = p}).enabled]

\* What the sing-anytls service authenticates.
anyTLSUsers(users) == {u \in Range(users) : u.enabled}

\* The scalars after Provision's defaults.
WithDefaults(w) ==
    [f \in Scalars |->
        IF f \in Numbers /\ w.scalar[f] = 0 THEN Defaults[f]
        ELSE IF f = "fallback" THEN w.scalar[f] \/ ~w.fallbackSet
        ELSE IF f = "padding_scheme" /\ w.scalar[f] = "" THEN DefaultPaddingScheme
        ELSE w.scalar[f]]

\* compileCIDRPolicies, LoadModule, the reserved names, the references, and the
\* service's own check of the padding scheme.
ProvisionOK(w) ==
    /\ compileCIDRPolicies(w)
    /\ OutboundsLoad(w)
    /\ ReferencesDeclared(w)
    /\ w.scalar["padding_scheme"] # Malformed

\* The wrapper's configuration fields afterwards.  LoadModule zeroes the raw
\* fields it has read.
Provisioned(w) ==
    [w EXCEPT !.scalar = WithDefaults(w), !.outboundsRaw = <<>>,
              !.outboundRaw = IF hasSingleOutbound(w) THEN "" ELSE @]

\* The runtime fields.
Runtime(w) ==
    [named |-> namedOutbounds(w), default |-> Default(w),
     userOutbound |-> userOutbound(w.users, namedOutbounds(w)),
     detector |-> NewPasswordHashDetector(w.users), service |-> anyTLSUsers(w.users)]

Provision ==
    /\ pc = "provision" /\ ProvisionOK(lw)
    /\ lw' = Provisioned(lw) /\ run' = Runtime(lw)
    /\ pc' = "validate"
    /\ UNCHANGED <<given, json>>

-----------------------------------------------------------------------------
\* Fault: users may share a password.
UsersValidShared(users) ==
    /\ \A u \in Range(users) : u.name # "" /\ u.password # ""
    /\ \A i, j \in DOMAIN users : i # j => users[i].name # users[j].name

\* No name or password is empty or used twice.
UsersValid(users) ==
    /\ \A u \in Range(users) : u.name # "" /\ u.password # ""
    /\ \A i, j \in DOMAIN users :
          i # j => /\ users[i].name # users[j].name
                   /\ users[i].password # users[j].password

ValidateOK(w) ==
    /\ \A f \in Numbers : w.scalar[f] >= 0
    /\ compileCIDRPolicies(w)
    /\ \A f \in Domains : "" \notin w.lists[f]
    /\ UsersValid(w.users)

Validate ==
    /\ pc = "validate" /\ ValidateOK(lw)
    /\ pc' = "running"
    /\ UNCHANGED <<given, json, lw, run>>

\* Either stage returns an error and Caddy refuses the configuration.
Refuse ==
    /\ \/ pc = "provision" /\ ~ProvisionOK(lw)
       \/ pc = "validate" /\ ~ValidateOK(lw)
    /\ pc' = "rejected"
    /\ UNCHANGED <<given, json, lw, run>>

\* outboundForUser, on a provisioned wrapper.
outboundForUser(r, name) ==
    IF name \in DOMAIN r.userOutbound THEN r.userOutbound[name] ELSE r.default

Terminating == pc \in {"running", "rejected"} /\ UNCHANGED vars

Next ==
    \/ \E d \in Directives : UnmarshalCaddyfile(d)
    \/ WriteJSON \/ Adapt \/ UnmarshalJSON \/ Provision \/ Validate \/ Refuse \/ Terminating

Spec == Init /\ [][Next]_vars

-----------------------------------------------------------------------------
(***************************************************************************)
(* What the author of the configuration wrote, read as a whole and without *)
(* regard to the order of declarations: the directives g of the Caddyfile  *)
(* or, if there are none, the JSON j.                                      *)
(***************************************************************************)

Given(g, dir) == {i \in DOMAIN g : g[i].dir = dir}

\* The first argument of the last directive of a kind.
LastGiven(g, dir, none) ==
    IF Given(g, dir) = {} THEN none
    ELSE g[CHOOSE i \in Given(g, dir) : \A k \in Given(g, dir) : k <= i].args[1]

GivenList(g, f) == UNION {Range(g[i].args) : i \in Given(g, f)}

GivenUsers(g) == [i \in Given(g, "user") |-> UserFromArgs(g[i])]

\* The instance that an outbound directive calls for.
Instance(d) == IF Named(d) THEN Loaded(d.args[1], d.args[2]) ELSE Loaded("", d.args[1])
GivenOutbounds(g) == {Instance(g[i]) : i \in Given(g, "outbound")}

\* The last value given to a setting, or zero.
Written(g, j, f) ==
    IF g # <<>> THEN LastGiven(g, f, Zero(f))
    ELSE IF f \in DOMAIN j.scalar THEN Value(f, j.scalar[f]) ELSE Zero(f)

WrittenList(g, j, f) ==
    IF g # <<>> THEN GivenList(g, f) ELSE IF f \in DOMAIN j.lists THEN j.lists[f] ELSE {}

WrittenUsers(g, j) ==
    IF g # <<>> THEN GivenUsers(g) ELSE [i \in DOMAIN j.users |-> UserFromJSON(j.users[i])]

WrittenOutbounds(g, j) ==
    IF g # <<>> THEN GivenOutbounds(g)
    ELSE {Loaded(n, j.outbounds[n]) : n \in DOMAIN j.outbounds}
            \cup IF j.outbound \in {"", Null} THEN {} ELSE {Loaded("", j.outbound)}

WrittenDefault(g, j) ==
    IF g # <<>> THEN LastGiven(g, "default_outbound", "") ELSE j.defaultOutbound

\* The same single outbound, named outbound or default_outbound once more.
Clash(d, e) ==
    \/ Single(d) /\ Single(e)
    \/ Named(d) /\ Named(e) /\ d.args[1] = e.args[1]
    \/ d.dir = "default_outbound" /\ e.dir = "default_outbound"

\* Every directive can be parsed and none is repeated that may not be.
DirectivesOK(g) ==
    /\ \A i \in DOMAIN g : ArgsOK(g[i])
    /\ \A i, k \in DOMAIN g : i # k => ~Clash(g[i], g[k])

\* Settings have values and no number is negative.  (Any text is a node_sni.)
SettingsOK(g, j) ==
    /\ \A f \in Scalars \ {"node_sni"} : Written(g, j, f) # Malformed
    /\ \A f \in Numbers : Written(g, j, f) >= 0

ListsOK(g, j) ==
    /\ \A f \in CIDRs \cup Ports : Malformed \notin WrittenList(g, j, f)
    /\ \A f \in Domains : "" \notin WrittenList(g, j, f)

\* Outbounds can be loaded and have proper names, and references have a target.
OutboundsOK(g, j) ==
    LET names == {o.name : o \in WrittenOutbounds(g, j)}
        users == WrittenUsers(g, j)
    IN  /\ names \cap {"direct", "default"} = {}
        /\ g = <<>> => "" \notin DOMAIN j.outbounds
        /\ \A o \in WrittenOutbounds(g, j) : o.module \in Modules \ Broken
        /\ {WrittenDefault(g, j)} \cup {u.outbound : u \in Range(users)}
              \subseteq names \cup {"", "direct"}

\* No two users share a name or a password, and none is without.
UsersOK(g, j) ==
    LET users == WrittenUsers(g, j)
    IN  \A i \in DOMAIN users :
           /\ users[i].name # "" /\ users[i].password # ""
           /\ \A k \in DOMAIN users \ {i} : /\ users[k].name # users[i].name
                                            /\ users[k].password # users[i].password

\* A configuration the gateway can run with.
WellFormed(g, j) ==
    DirectivesOK(g) /\ SettingsOK(g, j) /\ ListsOK(g, j) /\ OutboundsOK(g, j) /\ UsersOK(g, j)

(***************************************************************************)
(* Properties.                                                             *)
(***************************************************************************)

\* The stages together accept exactly the well-formed configurations, in
\* whatever order things were declared and from either syntax.
AcceptedIffWellFormed ==
    /\ pc = "running" => WellFormed(given, json)
    /\ pc = "rejected" => ~WellFormed(given, json)

\* Every setting has the value written last, or its default, and every limit and
\* timeout is positive.
SettingsInForce(g, j, scalar) ==
    /\ \A f \in Numbers :
          /\ scalar[f] = IF Written(g, j, f) = 0 THEN Defaults[f] ELSE Written(g, j, f)
          /\ scalar[f] > 0
    /\ \A f \in Scalars \ (Numbers \cup {"fallback", "padding_scheme"}) :
          scalar[f] = Written(g, j, f)
    /\ scalar["padding_scheme"] =
          IF Written(g, j, "padding_scheme") = "" THEN DefaultPaddingScheme
                                                  ELSE Written(g, j, "padding_scheme")

\* A user's traffic leaves through the outbound it names or, if it names none,
\* through default_outbound, the single outbound or the built-in one, in this
\* order.
EgressAsWritten(g, j, r) ==
    \A u \in Range(WrittenUsers(g, j)) :
        LET name == IF u.outbound # "" THEN u.outbound ELSE WrittenDefault(g, j)
            declared == {o \in WrittenOutbounds(g, j) : o.name = name}
        IN  outboundForUser(r, u.name) \in IF declared # {} THEN declared ELSE {Direct}

\* A running wrapper does what was written: the settings are in force (and a 0,
\* which the listener, the pools and the dialer take for "none", never reaches
\* them), and each user's traffic leaves through the outbound meant for it,
\* whatever was declared before or after it.
RunningAsWritten ==
    pc = "running" => /\ SettingsInForce(given, json, lw.scalar)
                      /\ EgressAsWritten(given, json, run)

\* The detector sends to the AnyTLS path exactly the password hashes that the
\* service then authenticates, each as one user; the other configured ones, of
\* disabled users, it rejects.
DetectorMatchesService ==
    pc = "running" =>
        /\ \A p \in DOMAIN run.detector :
              run.detector[p] <=> \E u \in run.service : u.password = p
        /\ \A u \in run.service :
              /\ u.password \in DOMAIN run.detector
              /\ \A v \in run.service \ {u} : v.password # u.password /\ v.name # u.name

\* config_test.go (TestUnmarshalCaddyfileAllowsFallbackFalse): a Caddyfile that
\* says "fallback false" gives a wrapper that does not fall back.
FallbackFalseInForce ==
    pc = "running" /\ Given(given, "fallback") # {} =>
        lw.scalar["fallback"] = Written(given, json, "fallback")

=============================================================================
