------------------------------ MODULE MCSampler ------------------------------
(* Small requests for TLC, those that validate refuses among them. *)
EXTENDS Sampler

SmallTopPs == {<<0, 1>>, <<1, 4>>, <<1, 2>>, <<1, 1>>, <<2, 1>>}
SmallPenalties == {<<0, 1>>, <<1, 1>>, <<2, 1>>, <<1, 2>>}
SmallTopKs == {-2, -1, 0, 1, 2, 3, 4}
SmallLogits == {-2, 0, 2, 4, 5}
SmallExp == [d \in 0 .. Underflow |-> 2 ^ (Underflow - d)]
=============================================================================
