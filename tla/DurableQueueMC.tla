--------------------------- MODULE DurableQueueMC ---------------------------
(* Two slots, one ordered stream with two keys and one unordered key.        *)
EXTENDS DurableQueue

CONSTANTS w1, w2, ka, kb, kc, s1

MCStreamOf == [k \in Keys |-> IF k = kc THEN NoStream ELSE s1]
=============================================================================
