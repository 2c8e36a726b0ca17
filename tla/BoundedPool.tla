---------------------------- MODULE BoundedPool ----------------------------
(***************************************************************************)
(* What a concurrency limit of the gateway promises, without saying how it *)
(* is kept: a client asks once, is admitted only while fewer than Limit    *)
(* clients hold a place, is refused only while the pool is full, and gives *)
(* its place back at most once.  Limit = 0 is "no limit", as limits.go has *)
(* it; a configuration's 0 never gets there (Config, SettingsInForce).     *)
(*                                                                         *)
(* Sessions (max_concurrent) and Streams (max_concurrent_streams) are      *)
(* shown to implement it.                                                  *)
(***************************************************************************)
EXTENDS Naturals, FiniteSets

CONSTANTS Clients, Limit

VARIABLE state      \* [Clients -> PoolStates]

PoolStates == {"idle", "held", "refused", "released"}

Held == {c \in Clients : state[c] = "held"}

PoolTypeOK == state \in [Clients -> PoolStates]

PoolInit == state = [c \in Clients |-> "idle"]

Acquire(c) ==
    /\ state[c] = "idle"
    /\ Limit = 0 \/ Cardinality(Held) < Limit
    /\ state' = [state EXCEPT ![c] = "held"]

Refuse(c) ==
    /\ state[c] = "idle"
    /\ Limit > 0 /\ Cardinality(Held) >= Limit
    /\ state' = [state EXCEPT ![c] = "refused"]

Release(c) ==
    /\ state[c] = "held"
    /\ state' = [state EXCEPT ![c] = "released"]

PoolNext == \E c \in Clients : Acquire(c) \/ Refuse(c) \/ Release(c)

PoolSpec == PoolInit /\ [][PoolNext]_state

=============================================================================
