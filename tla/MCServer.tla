------------------------------ MODULE MCServer ------------------------------
(* Small servers for TLC. *)
EXTENDS Server, TLC

\* Clients are interchangeable: sound for the invariants and the action
\* properties, never used in a run with liveness.
Symmetry == Permutations(Requests)

\* Any client will do for a property of one client, for the same reason.
Someone == CHOOSE r \in Requests : TRUE

\* If generations are limited and streaming clients read or leave, a request
\* parked on the slot semaphore gets its permit (or leaves), however often
\* others arrive in the meantime.
ParkedIsServed ==
    LimitedOutput /\ ClientsReact =>
        (task[Someone] = "slot" ~> task[Someone] # "slot")
=============================================================================
