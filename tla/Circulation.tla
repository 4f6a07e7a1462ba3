---------------------------- MODULE Circulation ----------------------------
(***************************************************************************)
(* Lending copies: internal/domain/circulation, the copy operations of     *)
(* internal/domain/holdings that change a status, and the transactions of  *)
(* internal/store/postgres.                                                *)
(*                                                                         *)
(* A request resolves its copy, a return also looks up the active          *)
(* checkout, both outside any transaction; then a transaction locks the    *)
(* copy row, checks its status and writes the events and the new status.   *)
(* Staff may overwrite the status of a copy, on loan or not.               *)
(***************************************************************************)
EXTENDS Integers, FiniteSets

CONSTANTS
  Requests,        \* concurrent requests of the server
  Copies,          \* ids of copies
  Readers,         \* ids of readers
  Branches,        \* library branches
  CopyBranch,      \* the branch each copy stands in
  Scope,           \* the branch scope of each request's user
  Shelved,         \* copies on the shelf when the behaviour starts
  StaffStatuses,   \* the copy statuses staff use
  MaxLoans,        \* bound: no checkout begins for a reader who had the copy so often
  MaxEdits,        \* bound: changes by staff
  NoRequest        \* the holder of a lock nobody holds

AllBranches == "all"    \* the empty branch scope of an administrator

(* holdings/service.go: what a copy may be, and what staff may set. *)
CopyStatuses == {"available", "checked_out", "on_hold", "lost", "damaged",
                 "withdrawn", "in_transit", "processing"}
DirectlySettable == StaffStatuses \ {"checked_out"}

ASSUME CirculationAssumption ==
  /\ Copies # {} /\ Readers # {} /\ IsFiniteSet(Readers)
  /\ CopyBranch \in [Copies -> Branches]
  /\ Scope \in [Requests -> Branches \cup {AllBranches}]
  /\ Shelved \subseteq Copies
  /\ StaffStatuses \subseteq CopyStatuses
  /\ MaxLoans \in Nat /\ MaxEdits \in Nat
  /\ NoRequest \notin Requests

VARIABLES
  status,        \* copies.status_code, "absent" before the copy is added
  open,          \* checkout events with returned_at NULL, by copy and reader
  closed,        \* checkout events with returned_at set
  returned,      \* return events
  overridden,    \* the status was set by hand against the loans (for properties)
  copyLock,      \* the request whose transaction holds the copy row FOR UPDATE
  req,           \* what each request has read so far
  edits          \* changes by staff so far

tableVars == <<status, open, closed, returned, overridden>>
vars == <<tableVars, copyLock, req, edits>>

-----------------------------------------------------------------------------
Steps == {"idle", "active", "lock", "write"}

(***************************************************************************)
(* reader: the borrower, of a return the ReaderID of the active checkout   *)
(* it looked up; disturbed: another request, or staff, changed the copy    *)
(* since that lookup (read by properties only).                            *)
(***************************************************************************)
Request == [step : Steps, op : {"checkout", "return"}, copy : Copies, reader : Readers,
            disturbed : BOOLEAN]

Idle == [step |-> "idle", op |-> "checkout", copy |-> CHOOSE c \in Copies : TRUE,
         reader |-> CHOOSE r \in Readers : TRUE, disturbed |-> FALSE]

(* SELECT ... FOR UPDATE and UPDATE wait for the holder of the row; in the *)
(* variant the SELECT has lost its FOR UPDATE.                             *)
CopyFreeUnlocked(c) == copyLock[c] \in Requests \cup {NoRequest}
CopyFree(c) == copyLock[c] = NoRequest

InScope(h, branch) == Scope[h] \in {AllBranches, branch}

Borrowers(c) == {r \in Readers : open[c][r] > 0}

(* What the lookup of the active checkout may find; the variant forgets    *)
(* that returned_at must be NULL.                                          *)
AnyCheckout(c) == {r \in Readers : open[c][r] + closed[c][r] > 0}
ActiveCheckout(c) == {r \in Readers : open[c][r] > 0}

Init ==
  /\ status = [c \in Copies |-> IF c \in Shelved THEN "available" ELSE "absent"]
  /\ open = [c \in Copies |-> [r \in Readers |-> 0]]
  /\ closed = [c \in Copies |-> [r \in Readers |-> 0]]
  /\ returned = [c \in Copies |-> [r \in Readers |-> 0]]
  /\ overridden = [c \in Copies |-> FALSE]
  /\ copyLock = [c \in Copies |-> NoRequest]
  /\ req = [h \in Requests |-> Idle]
  /\ edits = 0

-----------------------------------------------------------------------------
(* The lookups before the transaction.                                     *)

(* resolveCopyID finds the copy in the user's branch.  The reader only has *)
(* to exist: nothing looks at the reader's status.                         *)
BeginCheckout(h, c, r) ==
  /\ req[h].step = "idle"
  /\ status[c] # "absent" /\ InScope(h, CopyBranch[c])
  /\ open[c][r] + closed[c][r] < MaxLoans
  /\ req' = [req EXCEPT ![h] = [Idle EXCEPT !.step = "lock", !.copy = c, !.reader = r]]
  /\ UNCHANGED <<tableVars, copyLock, edits>>

BeginReturn(h, c) ==
  /\ req[h].step = "idle"
  /\ status[c] # "absent" /\ InScope(h, CopyBranch[c])
  /\ req' = [req EXCEPT ![h] = [Idle EXCEPT !.step = "active", !.op = "return", !.copy = c]]
  /\ UNCHANGED <<tableVars, copyLock, edits>>

(* GetActiveCheckout takes the latest open checkout by created_at, the time *)
(* its transaction began: of several open ones any may be the latest.       *)
ReadActive(h) ==
  /\ req[h].step = "active"
  /\ \E r \in ActiveCheckout(req[h].copy) :
       req' = [req EXCEPT ![h].step = "lock", ![h].reader = r, ![h].disturbed = FALSE]
  /\ UNCHANGED <<tableVars, copyLock, edits>>

-----------------------------------------------------------------------------
(* The transaction.                                                        *)

Required(h) == IF req[h].op = "checkout" THEN "available" ELSE "checked_out"

LockCopy(h) ==
  LET c == req[h].copy IN
  /\ req[h].step = "lock"
  /\ CopyFree(c)
  /\ status[c] = Required(h)
  /\ copyLock' = [copyLock EXCEPT ![c] = h]
  /\ req' = [req EXCEPT ![h].step = "write"]
  /\ UNCHANGED <<tableVars, edits>>

(* The other requests for the copy have now looked at an old table. *)
Disturb(h, c) ==
  req' = [k \in Requests |->
            IF k = h THEN Idle
            ELSE IF req[k].step # "idle" /\ req[k].copy = c
                 THEN [req[k] EXCEPT !.disturbed = TRUE] ELSE req[k]]

CommitCheckout(h) ==
  LET c == req[h].copy IN
  /\ req[h].step = "write" /\ req[h].op = "checkout"
  /\ open' = [open EXCEPT ![c][req[h].reader] = @ + 1]
  /\ status' = [status EXCEPT ![c] = "checked_out"]
  /\ copyLock' = [copyLock EXCEPT ![c] = NoRequest]
  /\ Disturb(h, c)
  /\ UNCHANGED <<closed, returned, overridden, edits>>

(* The status a return leaves, and a value the table does not know. *)
UnknownStatus == "returned"
ReturnedStatus == "available"

(* The open checkouts of the copy are all closed.  The return event names  *)
(* the reader of the checkout looked up before the transaction.            *)
CommitReturn(h) ==
  LET c == req[h].copy
      r == req[h].reader IN
  /\ req[h].step = "write" /\ req[h].op = "return"
  /\ returned' = [returned EXCEPT ![c][r] = @ + 1]
  /\ open' = [open EXCEPT ![c] = [s \in Readers |-> 0]]
  /\ closed' = [closed EXCEPT ![c] = [s \in Readers |-> @[s] + open[c][s]]]
  /\ status' = [status EXCEPT ![c] = ReturnedStatus]
  /\ overridden' = [overridden EXCEPT ![c] = FALSE]
  /\ copyLock' = [copyLock EXCEPT ![c] = NoRequest]
  /\ Disturb(h, c)
  /\ UNCHANGED edits

Rollback(h) ==
  /\ copyLock' = [c \in Copies |-> IF copyLock[c] = h THEN NoRequest ELSE copyLock[c]]
  /\ req' = [req EXCEPT ![h] = Idle]
  /\ UNCHANGED <<tableVars, edits>>

(* No active checkout, or the copy is not in the status the request needs. *)
Refuse(h) ==
  /\ \/ req[h].step = "active" /\ ActiveCheckout(req[h].copy) = {}
     \/ /\ req[h].step = "lock" /\ CopyFree(req[h].copy)
        /\ status[req[h].copy] # Required(h)
  /\ Rollback(h)

(* A statement fails, the client goes away or the server dies. *)
Fail(h) == req[h].step # "idle" /\ Rollback(h)

-----------------------------------------------------------------------------
(* Staff.                                                                  *)

Edit == edits < MaxEdits /\ edits' = edits + 1

(* A copy may be added in any status, checked_out too; without one it is   *)
(* "processing".                                                           *)
AddCopy(c, s) ==
  /\ status[c] = "absent"
  /\ status' = [status EXCEPT ![c] = s]
  /\ overridden' = [overridden EXCEPT ![c] = (s = "checked_out")]
  /\ Edit
  /\ UNCHANGED <<open, closed, returned, copyLock, req>>

(* An unconditional UPDATE: it asks neither what the status was nor whether *)
(* the copy is on loan.                                                     *)
UpdateCopyStatus(c, s) ==
  /\ status[c] # "absent" /\ CopyFree(c)
  /\ status' = [status EXCEPT ![c] = s]
  /\ overridden' = [overridden EXCEPT ![c] = Borrowers(c) # {}]
  /\ req' = [k \in Requests |->
               IF req[k].step # "idle" /\ req[k].copy = c
               THEN [req[k] EXCEPT !.disturbed = TRUE] ELSE req[k]]
  /\ Edit
  /\ UNCHANGED <<open, closed, returned, copyLock>>

-----------------------------------------------------------------------------
RequestStep(h) ==
  \/ ReadActive(h) \/ CommitCheckout(h) \/ CommitReturn(h) \/ Refuse(h)

RequestNext ==
  \/ \E h \in Requests, c \in Copies, r \in Readers : BeginCheckout(h, c, r)
  \/ \E h \in Requests, c \in Copies : BeginReturn(h, c)
  \/ \E h \in Requests : RequestStep(h) \/ LockCopy(h) \/ Fail(h)

StaffNext ==
  \/ \E c \in Copies, s \in StaffStatuses : AddCopy(c, s)
  \/ \E c \in Copies, s \in DirectlySettable : UpdateCopyStatus(c, s)

Next == RequestNext \/ StaffNext

Spec == Init /\ [][Next]_vars

-----------------------------------------------------------------------------
(* Properties.                                                             *)

(* Types of the tables, the locks and the requests. *)
TypeOK ==
  /\ status \in [Copies -> CopyStatuses \cup {"absent"}]
  /\ open \in [Copies -> [Readers -> Nat]]
  /\ closed \in [Copies -> [Readers -> Nat]]
  /\ returned \in [Copies -> [Readers -> Nat]]
  /\ overridden \in [Copies -> BOOLEAN]
  /\ copyLock \in [Copies -> Requests \cup {NoRequest}]
  /\ req \in [Requests -> Request]
  /\ edits \in 0 .. MaxEdits

(* A copy nobody set by hand is checked out exactly when it has a loan,    *)
(* and then it has one: concurrent checkouts never lend it twice.          *)
OneLoan(c) == \E r \in Readers : open[c][r] = 1 /\ \A s \in Readers \ {r} : open[c][s] = 0
LoanMatchesStatus ==
  \A c \in Copies : ~overridden[c] =>
    IF status[c] = "checked_out" THEN OneLoan(c) ELSE Borrowers(c) = {}

(* A committed return always closes a loan and leaves none, whatever staff *)
(* did to the status: the transaction looks at the status only, and the    *)
(* loan was looked up before it.  Unless something happened to the copy    *)
(* after the lookup, the return event names a reader whose loan it closes. *)
ReturnIsSound ==
  [][\A h \in Requests, c \in Copies :
       CommitReturn(h) /\ c = req[h].copy =>
         /\ Borrowers(c) # {} /\ Borrowers(c)' = {}
         /\ ~req[h].disturbed => req[h].reader \in Borrowers(c)]_vars

(* Circulation implements the lending desk whose operations are atomic.    *)
Holders == [c \in Copies |-> Borrowers(c)]
Desk == INSTANCE LendingDesk WITH holders <- Holders, byHand <- overridden
ImplementsDesk == Desk!DeskSpec

=============================================================================
