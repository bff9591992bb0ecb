------------------------------ MODULE OutboxMC ------------------------------
(* Two writers and two schedulers race over one plain event and two          *)
(* deliveries to one inbox; another process cancels.                         *)
EXTENDS Outbox, TLC

CONSTANTS p1, o1, o2, w1, w2, d1, d2, c1, inbox

MCInboxOf == [k \in Ordered |-> inbox]

Symmetric == Permutations({w1, w2}) \cup Permutations({d1, d2}) \cup Permutations({o1, o2})
=============================================================================
