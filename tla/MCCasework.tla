----------------------------- MODULE MCCasework -----------------------------
(* A small instance of Casework for TLC. *)
EXTENDS Casework

CONSTANTS f1, a1, b1, b2, h1, h2, h3, h4

(* Staff of the branch, a moderator of the branch, an administrator, who   *)
(* has every permission and no branch, and a moderator of another branch.  *)
MCScope == [h \in Requests |-> CASE h = h3 -> AllBranches
                                 [] h = h4 -> b2
                                 [] OTHER  -> b1]
MCPermissions == [h \in Requests |-> IF h = h1 THEN {"submit", "read"}
                                     ELSE {"submit", "moderate", "read", "decide"}]
=============================================================================
