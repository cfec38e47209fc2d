--------------------------- MODULE MCKeyPrepend ---------------------------
(* Two processes that are restarted one after the other, two rows of a user, *)
(* and three keys, so that a second rotation can begin in the middle of one. *)
EXTENDS KeyPrepend

CONSTANTS p1, p2, m1, m2, k1, k2, k3, v1, v2
=============================================================================
