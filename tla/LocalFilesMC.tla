---------------------------- MODULE LocalFilesMC ----------------------------
(* One attachment, uploaded either way, on an account that may be suspended. *)
EXTENDS LocalFiles

CONSTANT m1
=============================================================================
