------------------------------ MODULE MCLogin ------------------------------
(* Small instances of Login for TLC. *)
EXTENDS Login

CONSTANTS u1, c1, s1, h1, h2
=============================================================================
