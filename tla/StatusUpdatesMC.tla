--------------------------- MODULE StatusUpdatesMC ---------------------------
(* Two slots race over the distributions of one poll.                        *)
EXTENDS StatusUpdates, TLC

CONSTANTS i1, s1, s2

Symmetric == Permutations({s1, s2})
=============================================================================
