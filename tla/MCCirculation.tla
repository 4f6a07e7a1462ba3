--------------------------- MODULE MCCirculation ---------------------------
(* Small instances of Circulation for TLC. *)
EXTENDS Circulation

CONSTANTS c1, c2, r1, r2, h1, h2, b1, b2

MCCopyBranch == [c \in Copies |-> IF c = c1 THEN b1 ELSE b2]

(* A clerk of branch b1 and an administrator, who sees every branch. *)
MCScope == [h \in Requests |-> IF h = h1 THEN b1 ELSE AllBranches]
=============================================================================
