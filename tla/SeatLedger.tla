----------------------------- MODULE SeatLedger -----------------------------
(***************************************************************************)
(* What program enrollment promises, with every operation atomic: a table  *)
(* of enrollment rows and a capacity per program.  A row is confirmed only *)
(* while a seat is free and only when the reader has no row for the        *)
(* program yet, and a cancelled row stays cancelled.  Enrollment.tla, in   *)
(* which an enrollment is a sequence of SQL statements of concurrent       *)
(* requests, implements this module.                                       *)
(***************************************************************************)
EXTENDS Naturals, FiniteSets

CONSTANTS
  Programs,     \* ids of programs
  Readers,      \* ids of readers
  Capacities    \* the capacities staff may give a program

VARIABLES
  enrollment,   \* enrollment[p][r]: the status of the row, "none" without one
  capacity      \* capacity[p]: the seats of program p

ledgerVars == <<enrollment, capacity>>

Confirmed(p) == {r \in Readers : enrollment[p][r] = "confirmed"}

LedgerInit ==
  /\ enrollment \in [Programs -> [Readers -> {"none", "completed"}]]
  /\ capacity \in [Programs -> Capacities]

(* A seat is free and the reader has never had a row in the program. *)
Confirm(p, r) ==
  /\ enrollment[p][r] = "none"
  /\ Cardinality(Confirmed(p)) < capacity[p]
  /\ enrollment' = [enrollment EXCEPT ![p][r] = "confirmed"]
  /\ UNCHANGED capacity

Cancel(p, r) ==
  /\ enrollment[p][r] \in {"confirmed", "completed"}
  /\ enrollment' = [enrollment EXCEPT ![p][r] = "cancelled"]
  /\ UNCHANGED capacity

(* Staff may resize a program at will, below the seats already taken too. *)
Resize(p, c) ==
  /\ capacity' = [capacity EXCEPT ![p] = c]
  /\ UNCHANGED enrollment

LedgerNext ==
  \/ \E p \in Programs, r \in Readers : Confirm(p, r) \/ Cancel(p, r)
  \/ \E p \in Programs, c \in Capacities : Resize(p, c)

LedgerSpec == LedgerInit /\ [][LedgerNext]_ledgerVars
=============================================================================
