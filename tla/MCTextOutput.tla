---------------------------- MODULE MCTextOutput ----------------------------
(* Stop strings for TLC, over the bytes a and b and one two-byte character. *)
EXTENDS TextOutput

Self == {<<"a", "b", "a">>}
Wide == {<<"b", "L2", "C">>}
Suffix == {<<"a", "a", "b">>, <<"b">>}
Overlap == {<<"a", "b", "b">>, <<"b", "a">>}
SeparateStops == {{}, Self, Wide, Suffix, Overlap}

\* One stop string strictly inside another.
NestedStops == {{<<"a", "b", "a">>, <<"b">>}}

ASSUME KindsOfStops ==
    /\ \A S \in SeparateStops : Apart(S)
    /\ \A S \in NestedStops : ~Apart(S)
=============================================================================
