-------------------------------- MODULE Gate --------------------------------
(***************************************************************************)
(* What the two semaphores of src/src/server.rs promise together: a gate   *)
(* with a bounded inside, a smaller number of seats, and a line in which   *)
(* those inside without a seat are served first come, first served.  No    *)
(* counters, no handlers, no jobs: Server implements this (Server!GateSpec *)
(* maps Admitted, Active and slotQueue to the three variables).            *)
(***************************************************************************)
EXTENDS Naturals, Sequences, FiniteSets

CONSTANTS Requests, Seats, Capacity

VARIABLES inside, seated, line

gateVars == <<inside, seated, line>>

InLine == {line[i] : i \in 1 .. Len(line)}

GateInit == inside = {} /\ seated = {} /\ line = << >>

Enter(r) ==
    /\ r \notin inside
    /\ Cardinality(inside) < Capacity
    /\ inside' = inside \cup {r}
    /\ UNCHANGED <<seated, line>>

\* Sit down if a seat is free and nobody was here before, else queue up.
SitDown(r) ==
    /\ r \in inside \ (seated \cup InLine)
    /\ line = << >> /\ Cardinality(seated) < Seats
    /\ seated' = seated \cup {r}
    /\ UNCHANGED <<inside, line>>

QueueUp(r) ==
    /\ r \in inside \ (seated \cup InLine)
    /\ Cardinality(seated) = Seats
    /\ line' = Append(line, r)
    /\ UNCHANGED <<inside, seated>>

\* Give up the seat and go: the head of the line gets it in the same step.
StandUp(r) ==
    /\ r \in seated
    /\ inside' = inside \ {r}
    /\ \/ line = << >> /\ seated' = seated \ {r} /\ UNCHANGED line
       \/ /\ line # << >>
          /\ seated' = (seated \ {r}) \cup {Head(line)}
          /\ line' = Tail(line)

\* Go without having had a seat, also from the middle of the line.
GiveUp(r) ==
    /\ r \in inside \ seated
    /\ inside' = inside \ {r}
    /\ UNCHANGED seated
    /\ \/ r \notin InLine /\ UNCHANGED line
       \/ \E i \in 1 .. Len(line) :
             /\ line[i] = r
             /\ line' = [k \in 1 .. Len(line) - 1 |->
                            IF k < i THEN line[k] ELSE line[k + 1]]

GateNext ==
    \E r \in Requests :
        Enter(r) \/ SitDown(r) \/ QueueUp(r) \/ StandUp(r) \/ GiveUp(r)

GateSpec == GateInit /\ [][GateNext]_gateVars
=============================================================================
