-------------------------- MODULE OrderedEnqueueMC --------------------------
(* Two racing requests, two activities of one actor, two possible bodies.    *)
EXTENDS OrderedEnqueue

CONSTANTS r1, r2, a1, a2, b1, b2, s1

MCDeliveries == {<<a1, b1>>, <<a1, b2>>, <<a2, b1>>}

MCStreamOf == [a \in Activities |-> s1]
=============================================================================
