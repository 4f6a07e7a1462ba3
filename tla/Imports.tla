------------------------------- MODULE Imports -------------------------------
(***************************************************************************)
(* Bulk import of readers and holdings: internal/domain/imports and        *)
(* internal/store/postgres/import_repo.go.                                 *)
(*                                                                         *)
(* An upload is parsed, staged and validated under an import job.  A       *)
(* commit inserts the staged rows in one transaction and then, in a        *)
(* statement of its own, writes the job's status; a manual rollback only   *)
(* writes the status.  The status is checked once, when the job is read.   *)
(* A row is what the properties tell apart: its unique key and whether it  *)
(* is valid in itself.                                                     *)
(***************************************************************************)
EXTENDS Integers, Sequences, FiniteSets

CONSTANTS
  Requests,     \* concurrent requests of the server
  Jobs,         \* ids of import jobs
  Keys,         \* reader numbers and ISBNs
  NoKey,        \* a row without one
  Known,        \* the reader numbers in the table before the behaviour starts
  Files,        \* what users may upload: records [type, wellFormed, rows]
  MaxCopies     \* bound: no commit begins for a job whose rows were inserted so often

Rows == [key : Keys \cup {NoKey}, ok : BOOLEAN]
NoFile == [type |-> "readers", wellFormed |-> TRUE, rows |-> <<>>]

ASSUME ImportsAssumption ==
  /\ Jobs # {} /\ NoKey \notin Keys /\ Known \subseteq Keys
  /\ Files \subseteq [type : {"readers", "holdings"}, wellFormed : BOOLEAN, rows : Seq(Rows)]
  /\ MaxCopies \in Nat

VARIABLES
  status,     \* import_jobs.status, "absent" before the upload
  errors,     \* import_jobs.error_count > 0
  staged,     \* the file whose rows are in import_rows, by job
  inserted,   \* by job and row: how many times the row is in the target table
  req         \* what each request has read and done so far

vars == <<status, errors, staged, inserted, req>>

Statuses == {"absent", "previewing", "preview_ready", "failed", "committed", "rolled_back"}

-----------------------------------------------------------------------------
Steps == {"idle", "parse", "load", "insert", "status"}

(***************************************************************************)
(* file: the upload; at: rows the commit has tried; done: those it has     *)
(* inserted; outcome, faulty: the status and whether an error count is     *)
(* still to be written.                                                    *)
(***************************************************************************)
Request == [step : Steps, job : Jobs, file : Files \cup {NoFile}, at : Nat, done : SUBSET Nat,
            outcome : Statuses, faulty : BOOLEAN]

Idle == [step |-> "idle", job |-> CHOOSE j \in Jobs : TRUE, file |-> NoFile, at |-> 0,
         done |-> {}, outcome |-> "failed", faulty |-> FALSE]

Init ==
  /\ status = [j \in Jobs |-> "absent"]
  /\ errors = [j \in Jobs |-> FALSE]
  /\ staged = [j \in Jobs |-> NoFile]
  /\ inserted = [j \in Jobs |-> <<>>]
  /\ req = [h \in Requests |-> Idle]

(* The rows an upload reports: those invalid in themselves and those that  *)
(* repeat the key of an earlier valid row.                                 *)
ErrorRows(rows) ==
  {i \in DOMAIN rows :
     \/ ~rows[i].ok
     \/ \E k \in 1 .. (i - 1) : rows[k].ok /\ rows[k].key = rows[i].key /\ rows[i].key # NoKey}

(* The keys that rows of a file occupy: reader numbers are unique in their *)
(* table, ISBNs are not.                                                   *)
UniqueKeys(file, some) ==
  IF file.type = "readers" THEN {file.rows[i].key : i \in some} \ {NoKey} ELSE {}

TableKeys ==
  Known \cup UNION {UniqueKeys(staged[j], {i \in DOMAIN inserted[j] : inserted[j][i] > 0}) : j \in Jobs}

(* The rows that could not be inserted; in the variant nobody counts them. *)
NoErrors(h) == 1 .. req[h].at \cap {}
CommitErrors(h) == 1 .. req[h].at \ req[h].done

(* Keys held by the transaction of h, until it ends or a statement of it   *)
(* fails.                                                                  *)
OpenKeys(h) ==
  IF req[h].step = "insert" /\ CommitErrors(h) = {}
  THEN UniqueKeys(staged[req[h].job], req[h].done) ELSE {}

(* What remains to be done after the statements so far: write the status.  *)
Report(h, outcome, faulty) ==
  req' = [req EXCEPT ![h].step = "status", ![h].outcome = outcome, ![h].faulty = faulty]

-----------------------------------------------------------------------------
(* Upload.                                                                 *)

BeginUpload(h, j, f) ==
  /\ req[h].step = "idle"
  /\ status[j] = "absent"
  /\ status' = [status EXCEPT ![j] = "previewing"]
  /\ req' = [req EXCEPT ![h] = [Idle EXCEPT !.step = "parse", !.job = j, !.file = f]]
  /\ UNCHANGED <<errors, staged, inserted>>

(* A file without the required columns fails the job at once; otherwise    *)
(* every row is staged, in one batch, the invalid ones too.                *)
Stage(h) ==
  LET j == req[h].job
      f == req[h].file IN
  /\ req[h].step = "parse"
  /\ IF f.wellFormed
     THEN /\ staged' = [staged EXCEPT ![j] = f]
          /\ inserted' = [inserted EXCEPT ![j] = [i \in DOMAIN f.rows |-> 0]]
          /\ IF ErrorRows(f.rows) = {} THEN Report(h, "preview_ready", FALSE)
                                       ELSE Report(h, "failed", TRUE)
     ELSE Report(h, "failed", TRUE) /\ UNCHANGED <<staged, inserted>>
  /\ UNCHANGED <<status, errors>>

-----------------------------------------------------------------------------
(* Commit and manual rollback.                                             *)

(* The checks on the job that was read. *)
Committable(j) == status[j] = "preview_ready" /\ ~errors[j]

BeginCommit(h, j) ==
  /\ req[h].step = "idle"
  /\ Committable(j)
  /\ \A i \in DOMAIN inserted[j] : inserted[j][i] < MaxCopies
  /\ req' = [req EXCEPT ![h] = [Idle EXCEPT !.step = "load", !.job = j]]
  /\ UNCHANGED <<status, errors, staged, inserted>>

(* The rows are loaded, then the transaction begins. *)
LoadRows(h) ==
  /\ req[h].step = "load"
  /\ req' = [req EXCEPT ![h].step = "insert"]
  /\ UNCHANGED <<status, errors, staged, inserted>>

(* The unique index refuses a key that is in the table, and makes the      *)
(* INSERT wait while another open transaction holds it, which the variant  *)
(* does not.                                                               *)
KeyNotInTable(h, key) == key \notin TableKeys \cup OpenKeys(h)
KeyFree(h, key) == key \notin TableKeys \cup UNION {OpenKeys(k) : k \in Requests}

(* After an error the transaction takes no further statement. *)
InsertRow(h) ==
  LET file == staged[req[h].job]
      next == req[h].at + 1 IN
  /\ req[h].step = "insert" /\ next \in DOMAIN file.rows
  /\ CommitErrors(h) = {}
  /\ \A key \in UniqueKeys(file, {next}) : KeyFree(h, key)
  /\ req' = [req EXCEPT ![h].at = next, ![h].done = @ \cup {next}]
  /\ UNCHANGED <<status, errors, staged, inserted>>

(* A duplicate key, a deadlock, an aborted transaction: the row is counted *)
(* as an error and the loop goes on.                                       *)
InsertFails(h) ==
  /\ req[h].step = "insert" /\ req[h].at < Len(staged[req[h].job].rows)
  /\ req' = [req EXCEPT ![h].at = @ + 1]
  /\ UNCHANGED <<status, errors, staged, inserted>>

AllTried(h) == req[h].step = "insert" /\ req[h].at = Len(staged[req[h].job].rows)

Abort(h) ==
  /\ AllTried(h) /\ CommitErrors(h) # {}
  /\ Report(h, "rolled_back", TRUE)
  /\ UNCHANGED <<status, errors, staged, inserted>>

(* The table with the rows of the transaction of h. *)
WithRows(h) ==
  [inserted EXCEPT ![req[h].job] =
     [i \in DOMAIN @ |-> IF i \in req[h].done THEN @[i] + 1 ELSE @[i]]]

CommitTx(h) ==
  /\ AllTried(h) /\ CommitErrors(h) = {}
  /\ inserted' = WithRows(h)
  /\ Report(h, "committed", FALSE)
  /\ UNCHANGED <<status, errors, staged>>

(* Commit answers an error: the rows are not there, or they are and only   *)
(* the answer was lost.  The variant writes a status the table does not    *)
(* know.                                                                   *)
UnknownOutcome == "aborted"
FailedOutcome == "rolled_back"

CommitFails(h) ==
  /\ AllTried(h) /\ CommitErrors(h) = {}
  /\ inserted' \in {inserted, WithRows(h)}
  /\ Report(h, FailedOutcome, TRUE)
  /\ UNCHANGED <<status, errors, staged>>

BeginRollback(h, j) ==
  /\ req[h].step = "idle"
  /\ status[j] = "preview_ready"
  /\ req' = [req EXCEPT ![h] = [Idle EXCEPT !.step = "status", !.job = j,
                                   !.outcome = "rolled_back", !.faulty = errors[j]]]
  /\ UNCHANGED <<status, errors, staged, inserted>>

(* UpdateJobStatus: whatever the status is by now.                         *)
WriteStatus(h) ==
  /\ req[h].step = "status"
  /\ status' = [status EXCEPT ![req[h].job] = req[h].outcome]
  /\ errors' = [errors EXCEPT ![req[h].job] = req[h].faulty]
  /\ req' = [req EXCEPT ![h] = Idle]
  /\ UNCHANGED <<staged, inserted>>

(* A statement fails, the client goes away or the server dies: an open     *)
(* transaction is rolled back, a status not yet written never is.          *)
Fail(h) ==
  /\ req[h].step # "idle"
  /\ req' = [req EXCEPT ![h] = Idle]
  /\ UNCHANGED <<status, errors, staged, inserted>>

-----------------------------------------------------------------------------
RequestNext ==
  \/ \E h \in Requests, j \in Jobs, f \in Files : BeginUpload(h, j, f)
  \/ \E h \in Requests, j \in Jobs : BeginCommit(h, j) \/ BeginRollback(h, j)
  \/ \E h \in Requests : \/ Stage(h) \/ LoadRows(h) \/ InsertRow(h) \/ Abort(h)
                         \/ CommitTx(h) \/ WriteStatus(h)

FaultNext == \E h \in Requests : InsertFails(h) \/ CommitFails(h) \/ Fail(h)

Next == RequestNext \/ FaultNext

Spec == Init /\ [][Next]_vars

-----------------------------------------------------------------------------
(* Properties.                                                             *)

(* Types of the tables and the requests. *)
TypeOK ==
  /\ status \in [Jobs -> Statuses]
  /\ errors \in [Jobs -> BOOLEAN]
  /\ staged \in [Jobs -> Files \cup {NoFile}]
  /\ DOMAIN inserted = Jobs /\ \A j \in Jobs : inserted[j] \in [DOMAIN staged[j].rows -> Nat]
  /\ req \in [Requests -> Request]

(* No partial import: in spite of failing rows, concurrent commits and     *)
(* crashes, the rows of a job are in the table equally often, and at least *)
(* once if the job is reported as committed.                               *)
ImportIsWhole ==
  \A j \in Jobs : \A i, k \in DOMAIN inserted[j] :
    /\ inserted[j][i] = inserted[j][k]
    /\ status[j] = "committed" => inserted[j][i] > 0

(* What reaches the table passed the preview: no job with a row that       *)
(* failed validation is inserted, and no key twice from one file.  Nothing *)
(* keeps two commits of a job apart, but a job that names a reader number  *)
(* is inserted once at most, and of two jobs that name the same one only   *)
(* one is: the second transaction waits, fails and is rolled back.         *)
InTable(j) == {i \in DOMAIN inserted[j] : inserted[j][i] > 0}
KeyAt(j, i) == staged[j].rows[i].key
CleanAndKeyedOnce ==
  \A j \in Jobs : \A i \in InTable(j) :
    /\ \A k \in DOMAIN inserted[j] : staged[j].rows[k].ok
    /\ KeyAt(j, i) # NoKey =>
         /\ \A k \in DOMAIN inserted[j] \ {i} : KeyAt(j, k) # KeyAt(j, i)
         /\ staged[j].type = "readers" =>
              /\ inserted[j][i] = 1
              /\ \A k \in Jobs \ {j} : staged[k].type = "readers" =>
                   \A m \in InTable(k) : KeyAt(k, m) # KeyAt(j, i)
=============================================================================
