------------------------------ MODULE MCConfig ------------------------------
(* Instances of Config for TLC. *)
EXTENDS Config, TLC

D(dir, args) == [dir |-> dir, args |-> args]

MCModules == {"direct", "tun", "broken"}
MCBroken == {"broken"}

\* Scalars and lists at their boundaries ...
MCSettings ==
    {D("max_concurrent", <<v>>) : v \in {-1, 0, 7, Malformed}}
    \cup {D("idle_timeout", <<v>>) : v \in {-1, 3}}
    \cup {D("allow_private_targets", <<TRUE>>), D("fallback", <<FALSE>>), D("fallback", <<>>),
          D("padding_scheme", <<Malformed>>), D("node_port", <<443, 80>>),
          D("allow_port", <<443, 0>>), D("deny_cidr", <<"net">>), D("deny_cidr", <<Malformed>>),
          D("allow_domain", <<"">>),
          D("unknown", <<>>)}

\* ... and users and outbounds, which refer to each other.
MCReferences ==
    {D("user", <<n, p>>) : n \in {"a", "b"}, p \in {"p", "q", ""}}
    \cup {D("user", <<"a", "p", o>>) : o \in {"wg", "direct", "x"}}
    \cup {D("user", <<"b", "q", "wg">>), D("user", <<"", "r">>), D("user", <<"c">>)}
    \cup {D("outbound", <<"tun">>), D("outbound", <<"direct">>), D("outbound", <<"nomod">>),
          D("outbound", <<"wg", "tun">>), D("outbound", <<"x", "broken">>), D("outbound", <<"", "tun">>),
          D("outbound", <<"direct", "tun">>), D("outbound", <<"default", "tun">>)}
    \cup {D("default_outbound", <<o>>) : o \in {"wg", "direct", "x", ""}}

MCDirectives == MCSettings \cup MCReferences

JSONUser == [name : {"a"}, password : {"p"}, enabled : {TRUE, FALSE, Absent, Null}, outbound : {"", "wg"}]
JSONSecond == [name : {"a", "b"}, password : {"p", "q"}, enabled : {FALSE, Absent}, outbound : {""}]
MCJSON ==
    [scalar : {<<>>, "fallback" :> Null, "fallback" :> FALSE, "max_concurrent" :> 5,
               "probe_timeout" :> -1, "node_port" :> Malformed},
     lists : {<<>>, "allow_domain" :> {"ex"}, "deny_port" :> {Malformed}},
     users : {<<>>} \cup {<<u>> : u \in JSONUser} \cup {<<u, v>> : u \in JSONUser, v \in JSONSecond},
     outbound : {"", Null, "tun"}, outbounds : {<<>>, "wg" :> "tun", "" :> "tun"},
     defaultOutbound : {"", "wg"}]

=============================================================================
