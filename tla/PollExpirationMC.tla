-------------------------- MODULE PollExpirationMC --------------------------
(* A poll with a voter and two expiries it can have.                         *)
EXTENDS PollExpiration

CONSTANT v1
=============================================================================
