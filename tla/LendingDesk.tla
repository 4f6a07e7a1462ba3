---------------------------- MODULE LendingDesk ----------------------------
(***************************************************************************)
(* What circulation promises, with every operation atomic: copies, their   *)
(* status, and the readers who have them.  A copy is lent only off the     *)
(* shelf and only when nobody has it, unless staff set its status against  *)
(* the loans; it is taken back only from somebody who has it, and then     *)
(* nobody has it any more.  Circulation.tla, in which a checkout and a     *)
(* return are several SQL statements, implements this module.              *)
(***************************************************************************)

CONSTANTS
  Copies,         \* ids of copies
  Readers,        \* ids of readers
  StaffStatuses   \* the copy statuses staff use

VARIABLES
  status,    \* status[c]: the status of copy c, "absent" before it is added
  holders,   \* holders[c]: the readers who have copy c
  byHand     \* byHand[c]: the status of copy c was set against the loans

deskVars == <<status, holders, byHand>>

DeskInit ==
  /\ status \in [Copies -> {"available", "absent"}]
  /\ holders = [c \in Copies |-> {}]
  /\ byHand = [c \in Copies |-> FALSE]

Lend(c, r) ==
  /\ status[c] = "available"
  /\ ~byHand[c] => holders[c] = {}
  /\ status' = [status EXCEPT ![c] = "checked_out"]
  /\ holders' = [holders EXCEPT ![c] = @ \cup {r}]
  /\ UNCHANGED byHand

TakeBack(c) ==
  /\ status[c] = "checked_out" /\ holders[c] # {}
  /\ status' = [status EXCEPT ![c] = "available"]
  /\ holders' = [holders EXCEPT ![c] = {}]
  /\ byHand' = [byHand EXCEPT ![c] = FALSE]

(* A new copy, which nobody has. *)
Add(c, s) ==
  /\ status[c] = "absent" /\ holders[c] = {}
  /\ status' = [status EXCEPT ![c] = s]
  /\ byHand' = [byHand EXCEPT ![c] = (s = "checked_out")]
  /\ UNCHANGED holders

(* Staff set any status but "checked_out", whoever has the copy. *)
SetStatus(c, s) ==
  /\ status[c] # "absent" /\ s # "checked_out"
  /\ status' = [status EXCEPT ![c] = s]
  /\ byHand' = [byHand EXCEPT ![c] = holders[c] # {}]
  /\ UNCHANGED holders

DeskNext ==
  \/ \E c \in Copies, r \in Readers : Lend(c, r)
  \/ \E c \in Copies : TakeBack(c)
  \/ \E c \in Copies, s \in StaffStatuses : Add(c, s) \/ SetStatus(c, s)

DeskSpec == DeskInit /\ [][DeskNext]_deskVars
=============================================================================
