------------------------------ MODULE MCAccess ------------------------------
(* A small instance of Access for TLC. *)
EXTENDS Access

CONSTANTS u1, u2, b1, b2, r1, h1, h2

(* What the seed grants to the roles. *)
MCPermissionsOf ==
  [r \in Roles |-> {"readers:write", "readers:reveal_sensitive"} \cup
                   (IF r = "administrator" THEN {"users:admin"} ELSE {})]

(* An administrator and a member of the staff of one branch. *)
MCInitialGrants == [u \in Users |-> IF u = u1 THEN {"administrator"}
                                    ELSE {"operations_staff", b1}]
=============================================================================
