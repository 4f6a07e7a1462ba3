---------------------------- MODULE MCGovernance ----------------------------
(* A small instance of Governance for TLC. *)
EXTENDS Governance

CONSTANTS c1, h1, h2, h3

(* An author, a second session of the author, who is also a moderator, and *)
(* a moderator who may publish.                                            *)
MCOwn == [h \in Requests |-> IF h = h3 THEN {} ELSE {c1}]
MCVisible == [h \in Requests |-> {c1}]
MCPermissions == [h \in Requests |-> CASE h = h1 -> {"submit"}
                                       [] h = h2 -> {"submit", "moderate"}
                                       [] h = h3 -> {"moderate", "publish"}]
=============================================================================
