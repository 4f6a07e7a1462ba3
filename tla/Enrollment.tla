----------------------------- MODULE Enrollment -----------------------------
(***************************************************************************)
(* Enrollment in library programs: internal/domain/enrollment, the parts   *)
(* of internal/domain/programs and internal/domain/readers it reads, and   *)
(* the transactions of internal/store/postgres.                            *)
(*                                                                         *)
(* A request is a goroutine of the HTTP server.  Enroll runs its           *)
(* eligibility checks as separate statements (each reads what is committed *)
(* at that moment and keeps no lock), then opens a READ COMMITTED          *)
(* transaction that locks the program row and checks seats, duplicates and *)
(* schedule again.  Between any two statements other requests may run and  *)
(* the request may fail.  A lookup that fails before a request holds any   *)
(* state is a stutter and has no action.                                   *)
(***************************************************************************)
EXTENDS Integers, Sequences, FiniteSets

CONSTANTS
  Requests,        \* concurrent requests of the server
  Programs,        \* ids of programs
  Readers,         \* ids of readers
  Branches,        \* library branches
  ProgramBranch,   \* the branch each program belongs to
  ReaderBranch,    \* the branch each reader belongs to
  Scope,           \* the branch scope of each request's user
  Capacities,      \* the capacities staff may give a program
  Slots,           \* time slots of programs: records [from, to]
  Offers,          \* the rows staff may write: records [capacity, slot, window]
  RuleUniverse,    \* the enrollment rules staff may add
  Existing,        \* programs published before the behaviour starts
  FirstCapacity,   \* the capacities the programs start with
  FirstSlot,       \* the slots the programs start with
  Alumni,          \* <<program, reader>> rows recorded as completed before it
  FirstPrereqs,    \* prerequisites configured before it
  MaxEdits,        \* bound: changes by staff and clock in a behaviour
  NoRequest        \* the holder of a lock nobody holds

AllBranches == "all"    \* the empty branch scope of an administrator
ProgramStatuses == {"draft", "published", "cancelled", "completed"}
ReaderStatuses == {"active", "frozen", "blacklisted", "pending_verification"}
Windows == {"before", "open", "after"}
RowStatuses == {"none", "confirmed", "cancelled", "completed"}
Rules == [id : Nat, type : {"whitelist", "blacklist"},
          field : {"status_code", "branch_id", "reader_number"},
          value : ReaderStatuses \cup Branches \cup Readers]

ASSUME EnrollmentAssumption ==
  /\ Programs # {} /\ Readers # {} /\ IsFiniteSet(Readers)
  /\ ProgramBranch \in [Programs -> Branches]
  /\ ReaderBranch \in [Readers -> Branches]
  /\ Scope \in [Requests -> Branches \cup {AllBranches}]
  /\ Capacities \subseteq Nat \ {0} /\ Capacities # {}
  /\ Slots \subseteq [from : Nat, to : Nat] /\ Slots # {}
  /\ Offers \subseteq [capacity : Capacities, slot : Slots, window : Windows]
  /\ RuleUniverse \subseteq Rules
  /\ Existing \subseteq Programs
  /\ FirstCapacity \in [Programs -> Capacities]
  /\ FirstSlot \in [Programs -> Slots]
  /\ Alumni \subseteq Existing \X Readers
  /\ FirstPrereqs \in [Programs -> SUBSET Programs]
  /\ MaxEdits \in Nat
  /\ NoRequest \notin Requests

VARIABLES
  status,        \* programs.status, "absent" before the program is created
  capacity,      \* programs.capacity
  slot,          \* programs.starts_at and ends_at
  window,        \* the clock against enrollment_opens_at and enrollment_closes_at
  rules,         \* enrollment_rules of each program
  prereqs,       \* program_prerequisites of each program
  readerStatus,  \* readers.status_code
  enrollment,    \* enrollments.status by program and reader, "none" without a row
  history,       \* enrollment_history of each row, oldest first
  programLock,   \* the request whose transaction holds the program row FOR UPDATE
  rowLock,       \* the request whose transaction holds the enrollment row FOR UPDATE
  req,           \* what each request has read so far
  edits          \* changes by staff and clock so far

programVars == <<status, capacity, slot, window, rules, prereqs, readerStatus>>
tableVars == <<enrollment, history>>
lockVars == <<programLock, rowLock>>
vars == <<programVars, tableVars, lockVars, req, edits>>

-----------------------------------------------------------------------------
(* The steps of a request.                                                 *)

Preflight == {"reader", "rules", "prereqs", "completed"}
InTx == {"count", "duplicate", "schedule", "insert"}
Steps == {"idle", "drop"} \cup Preflight \cup InTx

(***************************************************************************)
(* prog, reader: the request's parameters; seen: reader.StatusCode as read *)
(* by check 3 and used by the rules; todo: prerequisites still to check;   *)
(* cap, taken: capacity and confirmedCount of the transaction; prev: the   *)
(* row's status as locked by Drop; disturbed: some other request, staff or *)
(* the clock changed what the checks look at since the request began (it   *)
(* is read by properties only, never by an action).                        *)
(***************************************************************************)
Request == [step : Steps, prog : Programs, reader : Readers, seen : ReaderStatuses,
            todo : SUBSET Programs, cap : Nat, taken : Nat, prev : RowStatuses,
            disturbed : BOOLEAN]

Idle == [step |-> "idle", prog |-> CHOOSE p \in Programs : TRUE,
         reader |-> CHOOSE r \in Readers : TRUE, seen |-> "active", todo |-> {},
         cap |-> 0, taken |-> 0, prev |-> "none", disturbed |-> FALSE]

(* The locks of PostgreSQL: a second transaction, or an UPDATE, waits.  In  *)
(* the variants below each, the SELECT has lost its FOR UPDATE.             *)
ProgramFreeUnlocked(p) == programLock[p] \in Requests \cup {NoRequest}
ProgramFree(p) == programLock[p] = NoRequest
RowFreeUnlocked(p, r) == rowLock[p][r] \in Requests \cup {NoRequest}
RowFree(p, r) == rowLock[p][r] = NoRequest

InScope(h, branch) == Scope[h] \in {AllBranches, branch}

ConfirmedReaders(p) == {r \in Readers : enrollment[p][r] = "confirmed"}
Taken(p) == Cardinality(ConfirmedReaders(p))

(* starts_at before the other's ends_at, both ways; the variant asks for   *)
(* one start to fall into the other slot.                                  *)
StartsWithin(s, t) == t.from < s.from /\ s.from < t.to
Overlap(s, t) == s.from < t.to /\ t.from < s.to

(* The programs whose time slot keeps the reader from enrolling in p. *)
Clashes(p, r) ==
  {q \in Programs \ {p} : /\ enrollment[q][r] = "confirmed"
                          /\ status[q] \notin {"cancelled", "completed"}
                          /\ Overlap(slot[q], slot[p])}

(* A rule looks at the status read by check 3 and at fixed attributes. *)
RuleMatches(rule, r, seen) ==
  rule.value = CASE rule.field = "status_code"   -> seen
                 [] rule.field = "branch_id"     -> ReaderBranch[r]
                 [] rule.field = "reader_number" -> r

RulesAdmit(p, r, seen) ==
  LET matching(type) == {rule \in rules[p] : rule.type = type /\ RuleMatches(rule, r, seen)}
  IN  /\ matching("blacklist") = {}
      /\ (\E rule \in rules[p] : rule.type = "whitelist") => matching("whitelist") # {}

ReaderMayEnroll(s) == s = "active"

-----------------------------------------------------------------------------
(* Initial state: the published programs and the history they come with.   *)

Init ==
  /\ status = [p \in Programs |-> IF p \in Existing THEN "published" ELSE "absent"]
  /\ capacity = FirstCapacity
  /\ slot = FirstSlot
  /\ window = [p \in Programs |-> "open"]
  /\ rules = [p \in Programs |-> {}]
  /\ prereqs = FirstPrereqs
  /\ readerStatus = [r \in Readers |-> "active"]
  /\ enrollment = [p \in Programs |-> [r \in Readers |->
                     IF <<p, r>> \in Alumni THEN "completed" ELSE "none"]]
  /\ history = [p \in Programs |-> [r \in Readers |-> <<>>]]
  /\ programLock = [p \in Programs |-> NoRequest]
  /\ rowLock = [p \in Programs |-> [r \in Readers |-> NoRequest]]
  /\ req = [h \in Requests |-> Idle]
  /\ edits = 0

-----------------------------------------------------------------------------
(* Enroll, before the transaction: checks 1 to 6, one read per step.       *)

Goto(h, step) == req' = [req EXCEPT ![h].step = step]

(* The handler binds the request and reads the program: checks 1 and 2. *)
StartEnroll(h, p, r) ==
  /\ req[h].step = "idle"
  /\ InScope(h, ProgramBranch[p])
  /\ status[p] = "published"
  /\ window[p] = "open"
  /\ req' = [req EXCEPT ![h] = [Idle EXCEPT !.step = "reader", !.prog = p, !.reader = r]]
  /\ UNCHANGED <<programVars, tableVars, lockVars, edits>>

(* Check 3.  The status read here is the one the rules are matched against. *)
LoadReader(h) ==
  LET r == req[h].reader IN
  /\ req[h].step = "reader"
  /\ InScope(h, ReaderBranch[r])
  /\ ReaderMayEnroll(readerStatus[r])
  /\ req' = [req EXCEPT ![h].step = "rules", ![h].seen = readerStatus[r]]
  /\ UNCHANGED <<programVars, tableVars, lockVars, edits>>

(* Checks 4 and 5: blacklist rules first, then whitelist rules if any. *)
LoadRules(h) ==
  /\ req[h].step = "rules"
  /\ RulesAdmit(req[h].prog, req[h].reader, req[h].seen)
  /\ Goto(h, "prereqs")
  /\ UNCHANGED <<programVars, tableVars, lockVars, edits>>

LoadPrereqs(h) ==
  /\ req[h].step = "prereqs"
  /\ req' = [req EXCEPT ![h].step = "completed", ![h].todo = prereqs[req[h].prog]]
  /\ UNCHANGED <<programVars, tableVars, lockVars, edits>>

(* Check 6, one query per prerequisite. *)
CheckPrereq(h) ==
  /\ req[h].step = "completed"
  /\ \E q \in req[h].todo :
       /\ enrollment[q][req[h].reader] = "completed"
       /\ req' = [req EXCEPT ![h].todo = @ \ {q}]
  /\ UNCHANGED <<programVars, tableVars, lockVars, edits>>

-----------------------------------------------------------------------------
(* Enroll, inside the transaction: checks 7 to 9 and the insert.           *)

(* SELECT capacity ... FOR UPDATE waits for the holder of the row. *)
LockProgram(h) ==
  LET p == req[h].prog IN
  /\ req[h].step = "completed" /\ req[h].todo = {}
  /\ ProgramFree(p)
  /\ programLock' = [programLock EXCEPT ![p] = h]
  /\ req' = [req EXCEPT ![h].step = "count", ![h].cap = capacity[p]]
  /\ UNCHANGED <<programVars, tableVars, rowLock, edits>>

CountSeats(h) ==
  LET p == req[h].prog IN
  /\ req[h].step = "count"
  /\ Taken(p) < req[h].cap
  /\ req' = [req EXCEPT ![h].step = "duplicate", ![h].taken = Taken(p)]
  /\ UNCHANGED <<programVars, tableVars, lockVars, edits>>

(* Any row of the reader in the program refuses, a cancelled one too; the  *)
(* variant looks at live rows only.                                        *)
NoLiveRow(p, r) == enrollment[p][r] # "confirmed"
NoRow(p, r) == enrollment[p][r] = "none"

CheckDuplicate(h) ==
  /\ req[h].step = "duplicate"
  /\ NoRow(req[h].prog, req[h].reader)
  /\ Goto(h, "schedule")
  /\ UNCHANGED <<programVars, tableVars, lockVars, edits>>

CheckSchedule(h) ==
  /\ req[h].step = "schedule"
  /\ Clashes(req[h].prog, req[h].reader) = {}
  /\ Goto(h, "insert")
  /\ UNCHANGED <<programVars, tableVars, lockVars, edits>>

(* The other requests of the reader have now looked at an old table. *)
Finish(h, r) ==
  req' = [k \in Requests |->
            IF k = h THEN Idle
            ELSE IF req[k].step # "idle" /\ req[k].reader = r
                 THEN [req[k] EXCEPT !.disturbed = TRUE] ELSE req[k]]

(* Row and history entry become visible together when the transaction      *)
(* commits, which also releases the program row.                           *)
CommitEnroll(h) ==
  LET p == req[h].prog
      r == req[h].reader IN
  /\ req[h].step = "insert"
  /\ enrollment[p][r] = "none"
  /\ enrollment' = [enrollment EXCEPT ![p][r] = "confirmed"]
  /\ history' = [history EXCEPT ![p][r] = Append(@, [from |-> "none", to |-> "confirmed"])]
  /\ programLock' = [programLock EXCEPT ![p] = NoRequest]
  /\ Finish(h, r)
  /\ UNCHANGED <<programVars, rowLock, edits>>

(* The check of the current step refuses the request. *)
Refused(h) ==
  LET p == req[h].prog
      r == req[h].reader IN
  CASE req[h].step = "reader"    -> ~(InScope(h, ReaderBranch[r]) /\ ReaderMayEnroll(readerStatus[r]))
    [] req[h].step = "rules"     -> ~RulesAdmit(p, r, req[h].seen)
    [] req[h].step = "completed" -> \E q \in req[h].todo : enrollment[q][r] # "completed"
    [] req[h].step = "count"     -> Taken(p) >= req[h].cap
    [] req[h].step = "duplicate" -> ~NoRow(p, r)
    [] req[h].step = "schedule"  -> Clashes(p, r) # {}
    [] req[h].step = "insert"    -> enrollment[p][r] # "none"
    [] OTHER -> FALSE

(* The deferred Rollback: nothing is written, the row locks are released.  *)
(* In the variant an early return leaves the transaction open.             *)
LeaveOpen(h) == h \in Requests /\ UNCHANGED lockVars
Release(h) ==
  /\ programLock' = [p \in Programs |-> IF programLock[p] = h THEN NoRequest ELSE programLock[p]]
  /\ rowLock' = [p \in Programs |-> [r \in Readers |->
                   IF rowLock[p][r] = h THEN NoRequest ELSE rowLock[p][r]]]

Rollback(h) ==
  /\ Release(h)
  /\ req' = [req EXCEPT ![h] = Idle]
  /\ UNCHANGED <<programVars, tableVars, edits>>

Refuse(h) == Refused(h) /\ Rollback(h)

(* A statement fails, the client goes away or the server dies. *)
Fail(h) == req[h].step # "idle" /\ Rollback(h)

-----------------------------------------------------------------------------
(* Drop: the row is locked and read, then cancelled with its history.      *)

DropLock(h, p, r) ==
  /\ req[h].step = "idle"
  /\ enrollment[p][r] \notin {"none", "cancelled"}
  /\ InScope(h, ProgramBranch[p])
  /\ RowFree(p, r)
  /\ rowLock' = [rowLock EXCEPT ![p][r] = h]
  /\ req' = [req EXCEPT ![h] = [Idle EXCEPT !.step = "drop", !.prog = p, !.reader = r,
                                           !.prev = enrollment[p][r]]]
  /\ UNCHANGED <<programVars, tableVars, programLock, edits>>

(* The status a drop leaves, and a value the table does not know. *)
UnknownStatus == "dropped"
DroppedStatus == "cancelled"

CommitDrop(h) ==
  LET p == req[h].prog
      r == req[h].reader IN
  /\ req[h].step = "drop"
  /\ enrollment' = [enrollment EXCEPT ![p][r] = DroppedStatus]
  /\ history' = [history EXCEPT ![p][r] = Append(@, [from |-> req[h].prev, to |-> DroppedStatus])]
  /\ rowLock' = [rowLock EXCEPT ![p][r] = NoRequest]
  /\ Finish(h, r)
  /\ UNCHANGED <<programVars, programLock, edits>>

-----------------------------------------------------------------------------
(* Staff and the clock.  An UPDATE of a program row waits for the          *)
(* transaction that holds it; rules, prerequisites and readers are rows of *)
(* other tables, which no enrollment locks.                                *)

Edit ==
  /\ edits < MaxEdits
  /\ edits' = edits + 1
  /\ req' = [h \in Requests |-> IF req[h].step = "idle" THEN req[h]
                                ELSE [req[h] EXCEPT !.disturbed = TRUE]]
  /\ UNCHANGED <<tableVars, lockVars>>

CreateProgram(p, o) ==
  /\ status[p] = "absent"
  /\ status' = [status EXCEPT ![p] = "draft"]
  /\ capacity' = [capacity EXCEPT ![p] = o.capacity]
  /\ slot' = [slot EXCEPT ![p] = o.slot]
  /\ window' = [window EXCEPT ![p] = o.window]
  /\ Edit
  /\ UNCHANGED <<rules, prereqs, readerStatus>>

(* The whole row but its status is overwritten; the capacity is not        *)
(* compared with the seats taken, nor the slot with other enrollments.     *)
UpdateProgram(p, o) ==
  /\ status[p] # "absent" /\ ProgramFree(p)
  /\ capacity' = [capacity EXCEPT ![p] = o.capacity]
  /\ slot' = [slot EXCEPT ![p] = o.slot]
  /\ window' = [window EXCEPT ![p] = o.window]
  /\ Edit
  /\ UNCHANGED <<status, rules, prereqs, readerStatus>>

(* Every status may follow every other. *)
UpdateStatus(p, s) ==
  /\ status[p] # "absent" /\ ProgramFree(p)
  /\ status' = [status EXCEPT ![p] = s]
  /\ Edit
  /\ UNCHANGED <<capacity, slot, window, rules, prereqs, readerStatus>>

(* An inserted row takes a key-share lock on the program rows it refers    *)
(* to, which waits for the transaction holding them FOR UPDATE.            *)
AddRule(p, rule) ==
  /\ status[p] # "absent" /\ ProgramFree(p)
  /\ rule \notin rules[p]
  /\ rules' = [rules EXCEPT ![p] = @ \cup {rule}]
  /\ Edit
  /\ UNCHANGED <<status, capacity, slot, window, prereqs, readerStatus>>

RemoveRule(p, rule) ==
  /\ rule \in rules[p]
  /\ rules' = [rules EXCEPT ![p] = @ \ {rule}]
  /\ Edit
  /\ UNCHANGED <<status, capacity, slot, window, prereqs, readerStatus>>

AddPrereq(p, q) ==
  /\ p # q /\ status[p] # "absent" /\ status[q] # "absent"
  /\ ProgramFree(p) /\ ProgramFree(q)
  /\ q \notin prereqs[p]
  /\ prereqs' = [prereqs EXCEPT ![p] = @ \cup {q}]
  /\ Edit
  /\ UNCHANGED <<status, capacity, slot, window, rules, readerStatus>>

RemovePrereq(p, q) ==
  /\ q \in prereqs[p]
  /\ prereqs' = [prereqs EXCEPT ![p] = @ \ {q}]
  /\ Edit
  /\ UNCHANGED <<status, capacity, slot, window, rules, readerStatus>>

UpdateReaderStatus(r, s) ==
  /\ readerStatus' = [readerStatus EXCEPT ![r] = s]
  /\ Edit
  /\ UNCHANGED <<status, capacity, slot, window, rules, prereqs>>

(* The clock reaches enrollment_opens_at or passes enrollment_closes_at. *)
ClockTick(p) ==
  /\ \/ window[p] = "before" /\ window' = [window EXCEPT ![p] = "open"]
     \/ window[p] = "open"   /\ window' = [window EXCEPT ![p] = "after"]
  /\ Edit
  /\ UNCHANGED <<status, capacity, slot, rules, prereqs, readerStatus>>

-----------------------------------------------------------------------------
EnrollStep(h) ==
  \/ LoadReader(h) \/ LoadRules(h) \/ LoadPrereqs(h) \/ CheckPrereq(h)
  \/ CountSeats(h) \/ CheckDuplicate(h) \/ CheckSchedule(h)
  \/ CommitEnroll(h) \/ Refuse(h) \/ CommitDrop(h)

RequestNext ==
  \/ \E h \in Requests, p \in Programs, r \in Readers :
       StartEnroll(h, p, r) \/ DropLock(h, p, r)
  \/ \E h \in Requests : EnrollStep(h) \/ LockProgram(h) \/ Fail(h)

StaffNext ==
  \/ \E p \in Programs, o \in Offers : CreateProgram(p, o) \/ UpdateProgram(p, o)
  \/ \E p \in Programs, s \in ProgramStatuses : UpdateStatus(p, s)
  \/ \E p \in Programs, rule \in RuleUniverse : AddRule(p, rule) \/ RemoveRule(p, rule)
  \/ \E p, q \in Programs : AddPrereq(p, q) \/ RemovePrereq(p, q)
  \/ \E r \in Readers, s \in ReaderStatuses : UpdateReaderStatus(r, s)
  \/ \E p \in Programs : ClockTick(p)

Next == RequestNext \/ StaffNext

Spec == Init /\ [][Next]_vars

(* Requests alone, with staff and clock at rest. *)
RequestSpec == Init /\ [][RequestNext]_vars

(***************************************************************************)
(* A goroutine keeps running and the pool keeps answering; PostgreSQL      *)
(* queues the waiters of a row lock, so a waiter is not passed over for    *)
(* ever.  Nothing makes a request begin, fail or a staff member act.       *)
(***************************************************************************)
Fairness == \A h \in Requests : WF_vars(EnrollStep(h)) /\ SF_vars(LockProgram(h))

FairSpec == Spec /\ Fairness

-----------------------------------------------------------------------------
(* Properties.                                                             *)

(* Types of the tables, the locks and the requests. *)
TypeOK ==
  /\ status \in [Programs -> ProgramStatuses \cup {"absent"}]
  /\ capacity \in [Programs -> Capacities]
  /\ slot \in [Programs -> Slots]
  /\ window \in [Programs -> Windows]
  /\ rules \in [Programs -> SUBSET RuleUniverse]
  /\ prereqs \in [Programs -> SUBSET Programs]
  /\ readerStatus \in [Readers -> ReaderStatuses]
  /\ enrollment \in [Programs -> [Readers -> RowStatuses]]
  /\ history \in [Programs -> [Readers -> Seq([from : RowStatuses, to : RowStatuses])]]
  /\ programLock \in [Programs -> Requests \cup {NoRequest}]
  /\ rowLock \in [Programs -> [Readers -> Requests \cup {NoRequest}]]
  /\ req \in [Requests -> Request]
  /\ edits \in 0 .. MaxEdits

(* However the requests interleave, no step that confirms an enrollment    *)
(* leaves a program with more confirmed readers than seats.  (Staff may    *)
(* shrink a program below its confirmed readers; nobody is added then.)    *)
NoOversell ==
  [][\A p \in Programs :
       ConfirmedReaders(p)' \ ConfirmedReaders(p) # {} => Taken(p)' <= capacity'[p]]_vars

(* The remaining_seats an enrollment reports, capacity - count - 1, is at  *)
(* least 0 and never promises a seat that is taken when the row commits.   *)
ReportedSeatsAreFree ==
  [][\A h \in Requests, p \in Programs : CommitEnroll(h) /\ p = req[h].prog =>
       /\ req[h].taken < req[h].cap
       /\ req[h].cap - req[h].taken - 1 <= capacity'[p] - Taken(p)']_vars

(* The unique constraint on (program, reader) is never what stops a        *)
(* request, which would answer an internal error instead of a conflict:    *)
(* the duplicate guard still holds when the INSERT runs.                   *)
InsertNeverCollides ==
  \A h \in Requests :
    req[h].step \in {"schedule", "insert"} => enrollment[req[h].prog][req[h].reader] = "none"

(* The history of a row is one chain of changes that ends in its status,   *)
(* under concurrent drops too: no change is recorded twice or from a       *)
(* status the row did not have.                                            *)
Chained(s) == \A i \in 1 .. (Len(s) - 1) : s[i].to = s[i + 1].from
HistoryChained ==
  \A p \in Programs, r \in Readers :
    IF history[p][r] = <<>> THEN enrollment[p][r] \in {"none", "completed"}
    ELSE /\ Chained(history[p][r])
         /\ history[p][r][Len(history[p][r])].to = enrollment[p][r]

(* Checks 1 to 6 are not repeated in the transaction, and the schedule     *)
(* check locks no other program, so they bind only while nothing they      *)
(* looked at changes: an enrollment commits into a published, open program *)
(* for an active reader with its prerequisites, whom no blacklist rule and *)
(* some whitelist rule names, if there is one, and who is in no other live *)
(* program at the same instant, unless staff, the clock or another request *)
(* of the reader intervened after the request began.                       *)
Named(rule, r) ==
  \/ rule.field = "status_code" /\ rule.value = readerStatus[r]
  \/ rule.field = "branch_id" /\ rule.value = ReaderBranch[r]
  \/ rule.field = "reader_number" /\ rule.value = r
Eligible(p, r) ==
  /\ status[p] = "published" /\ window[p] = "open"
  /\ readerStatus[r] = "active"
  /\ \A q \in prereqs[p] : enrollment[q][r] = "completed"
  /\ ~\E rule \in rules[p] : rule.type = "blacklist" /\ Named(rule, r)
  /\ (\E rule \in rules[p] : rule.type = "whitelist")
       => \E rule \in rules[p] : rule.type = "whitelist" /\ Named(rule, r)
Busy(p) == slot[p].from .. (slot[p].to - 1)
UndisturbedIsSound ==
  [][\A h \in Requests : CommitEnroll(h) /\ ~req[h].disturbed =>
       LET p == req[h].prog
           r == req[h].reader
       IN  /\ Eligible(p, r)
           /\ \A q \in Programs \ {p} :
                enrollment[q][r] = "confirmed" /\ status[q] \in {"draft", "published"}
                  => Busy(p) \cap Busy(q) = {}]_vars

(* The header of service.go promises that the schedule check is safe from  *)
(* races: a reader is never confirmed in two live programs at one instant. *)
(* It locks the program being enrolled in and not the reader, so two       *)
(* requests for two programs of the same reader do not exclude each other. *)
NoDoubleBooking ==
  \A r \in Readers, p, q \in Programs :
    p # q /\ {status[p], status[q]} \cap {"cancelled", "completed"} = {}
      => ~ /\ enrollment[p][r] = "confirmed"
           /\ enrollment[q][r] = "confirmed"
           /\ Overlap(slot[p], slot[q])

(* Enrollment implements the ledger in which every operation is atomic.    *)
Ledger == INSTANCE SeatLedger WITH
            Programs <- Programs, Readers <- Readers, Capacities <- Capacities,
            enrollment <- enrollment, capacity <- capacity
ImplementsLedger == Ledger!LedgerSpec

(* Every request ends, with a commit or a refusal: no lock is kept by a    *)
(* request that has ended, and no request waits for one for ever.          *)
EveryRequestEnds == \A h \in Requests : req[h].step # "idle" ~> req[h].step = "idle"
=============================================================================
