------------------------------ MODULE MCEgress ------------------------------
(* An instance of Egress for TLC. *)
EXTENDS Egress, TLC

MCLower == "WWW" :> "www" @@ "EX" :> "ex"

pub4 == [ip |-> 1, fam |-> "v4"]
priv4 == [ip |-> 2, fam |-> "v4"]
priv4in6 == [ip |-> 2, fam |-> "4in6"]
pub6 == [ip |-> 3, fam |-> "v6"]
MCAddrs == {pub4, priv4, priv4in6, pub6}
MCPrivate == {priv4}

MCDests ==
    {Dest(<<"www", "ex">>, NoAddr, 443), Dest(<<"WWW", "ex", "">>, NoAddr, 443),
     Dest(<<"ex">>, NoAddr, 443), Dest(<<"www", "ex">>, NoAddr, 53),
     Dest(<<"www", "ex">>, NoAddr, 0), NoDest,
     Dest(NoName, pub4, 443), Dest(NoName, priv4in6, 53)}

\* Every combination of a few entries.
MCPolicies ==
    [denyPorts : {{}, {53}}, allowPorts : {{}, {443}},
     denyDomains : {{}, {<<"EX">>}}, allowDomains : {{}, {<<"*", "ex">>, <<"ex", "">>}, {<<"", "EX">>}},
     denyCIDRs : {{}, {{pub4}, {pub6}}, {{priv4}}},
     allowCIDRs : {{}, {{pub4}, {priv4}}, {{priv4}}}, allowPrivate : BOOLEAN]

\* All answers of up to three addresses, and a longer one, for a dial, which uses
\* all of them; for datagrams, which use the first address, fewer.
MCAnswersTCP == UNION {[1 .. n -> MCAddrs] : n \in 0 .. 3} \cup {<<pub6, pub6, pub4, pub4>>}
MCAnswersUDP == {<<>>, <<pub4>>, <<pub6, pub4>>, <<pub4, priv4in6>>}
MCAnswers == "tcp" :> MCAnswersTCP @@ "connect" :> MCAnswersUDP @@ "packets" :> MCAnswersUDP

=============================================================================
