----------------------------- MODULE MCStreams ------------------------------
(* An instance of Streams for TLC. *)
EXTENDS Streams

CONSTANTS s1, s2, s3, x1, x2

MCStreams3 == {s1, s2, s3}
MCSess == {x1, x2}
\* Two streams of one session and one of another.
MCSessionOf3 == [s \in MCStreams3 |-> IF s = s3 THEN x2 ELSE x1]
MCUoT3 == {s3}

\* Bound: the streams are under way two at a time, s1 with s2, which share a
\* session, or s2 with s3, which share the global limit only; the other one is
\* opened when the sessions are gone.  This only puts off acquireStream of a
\* stream, a step that no fairness assumption asks for.
MCTwoAtATime ==
    \/ pc'[s1] = "new"
    \/ pc'[s3] = "new"
    \/ registered = {} /\ (Finished(s1) \/ Finished(s3))

=============================================================================
