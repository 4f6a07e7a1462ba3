-------------------------- MODULE EnrollmentProofs --------------------------
(***************************************************************************)
(* Proofs about Enrollment, for every value of its constants.              *)
(***************************************************************************)
EXTENDS Enrollment, FiniteSetTheorems, TLAPS

-----------------------------------------------------------------------------
(* Types.                                                                  *)

LEMMA IdleType == Idle \in Request /\ Idle.step = "idle"
<1>1. /\ (CHOOSE p \in Programs : TRUE) \in Programs
      /\ (CHOOSE r \in Readers : TRUE) \in Readers
  BY EnrollmentAssumption
<1>2. "idle" \in Steps
  BY DEF Steps
<1> QED
  BY <1>1, <1>2 DEF Idle, Request, ReaderStatuses, RowStatuses

LEMMA InitType == Init => TypeOK
<1> SUFFICES ASSUME Init PROVE TypeOK
  OBVIOUS
<1>1. req \in [Requests -> Request]
  BY IdleType DEF Init
<1>2. history \in [Programs -> [Readers -> Seq([from : RowStatuses, to : RowStatuses])]]
  BY DEF Init
<1> QED
  BY <1>1, <1>2, EnrollmentAssumption
  DEF Init, TypeOK, ProgramStatuses, Windows, ReaderStatuses, RowStatuses

(* The seats taken are counted: there are finitely many readers. *)
LEMMA TakenType ==
  ASSUME NEW p
  PROVE  IsFiniteSet(ConfirmedReaders(p)) /\ Taken(p) \in Nat
<1>1. IsFiniteSet(ConfirmedReaders(p))
  BY EnrollmentAssumption, FS_Subset DEF ConfirmedReaders
<1> QED
  BY <1>1, FS_CardinalityType DEF Taken

(* The steps of one request that touch no table and no lock. *)
Reads(h) ==
  \/ \E p \in Programs, r \in Readers : StartEnroll(h, p, r)
  \/ LoadReader(h) \/ LoadRules(h) \/ LoadPrereqs(h) \/ CheckPrereq(h)
  \/ CountSeats(h) \/ CheckDuplicate(h) \/ CheckSchedule(h)

(* A read changes the reading request only. *)
LEMMA ReadType ==
  ASSUME TypeOK, NEW h \in Requests, Reads(h)
  PROVE  /\ req' \in [Requests -> Request]
         /\ UNCHANGED <<programVars, tableVars, lockVars, edits>>
         /\ \A k \in Requests : k # h => req'[k] = req[k]
<1>0. req \in [Requests -> Request] /\ readerStatus \in [Readers -> ReaderStatuses]
  BY DEF TypeOK
<1>1. ASSUME NEW p \in Programs, NEW r \in Readers, StartEnroll(h, p, r)
      PROVE  /\ req' \in [Requests -> Request]
             /\ UNCHANGED <<programVars, tableVars, lockVars, edits>>
             /\ \A k \in Requests : k # h => req'[k] = req[k]
  BY <1>0, <1>1, IdleType DEF StartEnroll, Request, Steps, Preflight
<1>2. CASE LoadReader(h)
  BY <1>0, <1>2 DEF LoadReader, Request, Steps, Preflight
<1>3. CASE LoadRules(h) \/ CheckDuplicate(h) \/ CheckSchedule(h)
  BY <1>0, <1>3 DEF LoadRules, CheckDuplicate, CheckSchedule, Goto, Request, Steps, Preflight, InTx
<1>4. CASE LoadPrereqs(h)
  <2>1. prereqs[req[h].prog] \in SUBSET Programs
    BY <1>0 DEF TypeOK, Request
  <2> QED
    BY <1>0, <1>4, <2>1 DEF LoadPrereqs, Request, Steps, Preflight
<1>5. CASE CheckPrereq(h)
  BY <1>0, <1>5 DEF CheckPrereq, Request, Steps, Preflight
<1>6. CASE CountSeats(h)
  <2>1. Taken(req[h].prog) \in Nat
    BY TakenType
  <2>2. /\ req' = [req EXCEPT ![h].step = "duplicate", ![h].taken = Taken(req[h].prog)]
        /\ UNCHANGED <<programVars, tableVars, lockVars, edits>>
    BY <1>6 DEF CountSeats
  <2>3. \A n \in Nat : [req[h] EXCEPT !.step = "duplicate", !.taken = n] \in Request
    BY <1>0 DEF Request, Steps, InTx
  <2> QED
    BY <1>0, <2>1, <2>2, <2>3
<1> QED
  BY <1>1, <1>2, <1>3, <1>4, <1>5, <1>6 DEF Reads

(* What a staff step leaves alone: tables, locks and all that a request has *)
(* read; and the capacity of a program whose row is locked.                 *)
SameReads(k) ==
  /\ req'[k].step = req[k].step /\ req'[k].prog = req[k].prog /\ req'[k].reader = req[k].reader
  /\ req'[k].cap = req[k].cap /\ req'[k].taken = req[k].taken /\ req'[k].prev = req[k].prev

LEMMA StaffEffect ==
  ASSUME TypeOK, StaffNext
  PROVE  /\ TypeOK'
         /\ UNCHANGED <<tableVars, lockVars>>
         /\ \A k \in Requests : SameReads(k)
         /\ \A p \in Programs :
              /\ status[p] # "absent" => status'[p] # "absent"
              /\ capacity'[p] = capacity[p] \/ status[p] = "absent" \/ ProgramFree(p)
<1>0. Edit => /\ req' \in [Requests -> Request]
              /\ UNCHANGED <<tableVars, lockVars>>
              /\ \A k \in Requests : SameReads(k)
              /\ edits' \in 0 .. MaxEdits
  <2> SUFFICES ASSUME Edit
               PROVE  /\ req' \in [Requests -> Request]
                      /\ UNCHANGED <<tableVars, lockVars>>
                      /\ \A k \in Requests : SameReads(k)
                      /\ edits' \in 0 .. MaxEdits
    OBVIOUS
  <2>1. req \in [Requests -> Request] /\ edits \in 0 .. MaxEdits
    BY DEF TypeOK
  <2>2. edits' \in 0 .. MaxEdits
    BY <2>1, EnrollmentAssumption DEF Edit
  <2> QED
    BY <2>1, <2>2 DEF Edit, SameReads, Request
<1>1. ASSUME NEW p \in Programs, NEW o \in Offers, CreateProgram(p, o) \/ UpdateProgram(p, o)
      PROVE  /\ Edit
             /\ UNCHANGED <<rules, prereqs, readerStatus>>
             /\ status' \in [Programs -> ProgramStatuses \cup {"absent"}]
             /\ capacity' \in [Programs -> Capacities]
             /\ slot' \in [Programs -> Slots]
             /\ window' \in [Programs -> Windows]
             /\ \A q \in Programs :
                  /\ status[q] # "absent" => status'[q] # "absent"
                  /\ capacity'[q] = capacity[q] \/ status[q] = "absent" \/ ProgramFree(q)
  <2>1. o.capacity \in Capacities /\ o.slot \in Slots /\ o.window \in Windows
    BY EnrollmentAssumption
  <2>2. CASE CreateProgram(p, o)
    BY <2>1, <2>2 DEF CreateProgram, TypeOK, ProgramStatuses
  <2>3. CASE UpdateProgram(p, o)
    BY <2>1, <2>3 DEF UpdateProgram, TypeOK
  <2> QED
    BY <1>1, <2>2, <2>3
<1>2. ASSUME NEW p \in Programs, NEW s \in ProgramStatuses, UpdateStatus(p, s)
      PROVE  /\ Edit
             /\ UNCHANGED <<capacity, slot, window, rules, prereqs, readerStatus>>
             /\ status' \in [Programs -> ProgramStatuses \cup {"absent"}]
             /\ \A q \in Programs : status[q] # "absent" => status'[q] # "absent"
  BY <1>2 DEF UpdateStatus, TypeOK, ProgramStatuses
<1>3. ASSUME NEW p \in Programs, NEW rule \in RuleUniverse, AddRule(p, rule) \/ RemoveRule(p, rule)
      PROVE  /\ Edit
             /\ UNCHANGED <<status, capacity, slot, window, prereqs, readerStatus>>
             /\ rules' \in [Programs -> SUBSET RuleUniverse]
  <2>1. rules \in [Programs -> SUBSET RuleUniverse]
    BY DEF TypeOK
  <2>2. rules[p] \cup {rule} \in SUBSET RuleUniverse /\ rules[p] \ {rule} \in SUBSET RuleUniverse
    BY <2>1
  <2>3. CASE AddRule(p, rule)
    BY <2>1, <2>2, <2>3 DEF AddRule
  <2>4. CASE RemoveRule(p, rule)
    BY <2>1, <2>2, <2>4 DEF RemoveRule
  <2> QED
    BY <1>3, <2>3, <2>4
<1>4. ASSUME NEW p \in Programs, NEW q \in Programs, AddPrereq(p, q) \/ RemovePrereq(p, q)
      PROVE  /\ Edit
             /\ UNCHANGED <<status, capacity, slot, window, rules, readerStatus>>
             /\ prereqs' \in [Programs -> SUBSET Programs]
  <2>1. prereqs \in [Programs -> SUBSET Programs]
    BY DEF TypeOK
  <2>2. prereqs[p] \cup {q} \in SUBSET Programs /\ prereqs[p] \ {q} \in SUBSET Programs
    BY <2>1
  <2>3. CASE AddPrereq(p, q)
    BY <2>1, <2>2, <2>3 DEF AddPrereq
  <2>4. CASE RemovePrereq(p, q)
    BY <2>1, <2>2, <2>4 DEF RemovePrereq
  <2> QED
    BY <1>4, <2>3, <2>4
<1>5. ASSUME NEW r \in Readers, NEW s \in ReaderStatuses, UpdateReaderStatus(r, s)
      PROVE  /\ Edit
             /\ UNCHANGED <<status, capacity, slot, window, rules, prereqs>>
             /\ readerStatus' \in [Readers -> ReaderStatuses]
  BY <1>5 DEF UpdateReaderStatus, TypeOK
<1>6. ASSUME NEW p \in Programs, ClockTick(p)
      PROVE  /\ Edit
             /\ UNCHANGED <<status, capacity, slot, rules, prereqs, readerStatus>>
             /\ window' \in [Programs -> Windows]
  BY <1>6 DEF ClockTick, TypeOK, Windows
<1>7. /\ Edit
      /\ status' \in [Programs -> ProgramStatuses \cup {"absent"}]
      /\ capacity' \in [Programs -> Capacities]
      /\ slot' \in [Programs -> Slots]
      /\ window' \in [Programs -> Windows]
      /\ rules' \in [Programs -> SUBSET RuleUniverse]
      /\ prereqs' \in [Programs -> SUBSET Programs]
      /\ readerStatus' \in [Readers -> ReaderStatuses]
      /\ \A p \in Programs :
           /\ status[p] # "absent" => status'[p] # "absent"
           /\ capacity'[p] = capacity[p] \/ status[p] = "absent" \/ ProgramFree(p)
  BY <1>1, <1>2, <1>3, <1>4, <1>5, <1>6 DEF StaffNext, TypeOK
<1> QED
  BY <1>0, <1>7 DEF TypeOK, tableVars, lockVars

(* A commit marks the other requests of the reader and changes no more of them. *)
LEMMA FinishEffect ==
  ASSUME req \in [Requests -> Request], NEW h \in Requests, NEW r \in Readers, Finish(h, r)
  PROVE  /\ req' \in [Requests -> Request]
         /\ req'[h] = Idle
         /\ \A k \in Requests : k # h => SameReads(k)
BY IdleType DEF Finish, SameReads, Request

LEMMA NextType == ASSUME TypeOK, [Next]_vars PROVE TypeOK'
<1>0. req \in [Requests -> Request]
  BY DEF TypeOK
<1>1. ASSUME NEW h \in Requests, Reads(h) PROVE TypeOK'
  BY <1>1, ReadType DEF TypeOK, programVars, tableVars, lockVars
<1>2. ASSUME NEW h \in Requests, LockProgram(h) PROVE TypeOK'
  <2>1. req' \in [Requests -> Request]
    <3>1. capacity[req[h].prog] \in Nat
      BY <1>0, EnrollmentAssumption DEF TypeOK, Request
    <3> QED
      BY <1>0, <1>2, <3>1 DEF LockProgram, Request, Steps, InTx
  <2>2. programLock' \in [Programs -> Requests \cup {NoRequest}]
    BY <1>0, <1>2 DEF LockProgram, TypeOK, Request
  <2> QED
    BY <1>2, <2>1, <2>2 DEF LockProgram, TypeOK, programVars, tableVars
<1>3. ASSUME NEW h \in Requests, CommitEnroll(h) PROVE TypeOK'
  <2> DEFINE p == req[h].prog
             r == req[h].reader
             e == [from |-> "none", to |-> "confirmed"]
  <2>1. p \in Programs /\ r \in Readers /\ Finish(h, r)
    BY <1>0, <1>3 DEF Request, CommitEnroll
  <2>2. req' \in [Requests -> Request]
    BY <1>0, <2>1, FinishEffect
  <2>3. enrollment' \in [Programs -> [Readers -> RowStatuses]]
    BY <1>3, <2>1 DEF CommitEnroll, TypeOK, RowStatuses
  <2>4. Append(history[p][r], e) \in Seq([from : RowStatuses, to : RowStatuses])
    BY <2>1 DEF TypeOK, RowStatuses
  <2>5. history' \in [Programs -> [Readers -> Seq([from : RowStatuses, to : RowStatuses])]]
    BY <1>3, <2>1, <2>4 DEF CommitEnroll, TypeOK
  <2>6. programLock' \in [Programs -> Requests \cup {NoRequest}]
    BY <1>3, <2>1 DEF CommitEnroll, TypeOK
  <2> QED
    BY <1>3, <2>2, <2>3, <2>5, <2>6 DEF CommitEnroll, TypeOK, programVars
<1>4. ASSUME NEW h \in Requests, Rollback(h) PROVE TypeOK'
  <2>1. req' \in [Requests -> Request]
    BY <1>0, <1>4, IdleType DEF Rollback
  <2>2. /\ programLock' \in [Programs -> Requests \cup {NoRequest}]
        /\ rowLock' \in [Programs -> [Readers -> Requests \cup {NoRequest}]]
    BY <1>4 DEF Rollback, Release, TypeOK
  <2> QED
    BY <1>4, <2>1, <2>2 DEF Rollback, TypeOK, programVars, tableVars
<1>5. ASSUME NEW h \in Requests, NEW p \in Programs, NEW r \in Readers, DropLock(h, p, r)
      PROVE  TypeOK'
  <2>1. req' \in [Requests -> Request]
    <3>1. enrollment[p][r] \in RowStatuses
      BY DEF TypeOK
    <3> QED
      BY <1>0, <1>5, <3>1, IdleType DEF DropLock, Request, Steps
  <2>2. rowLock' \in [Programs -> [Readers -> Requests \cup {NoRequest}]]
    BY <1>5 DEF DropLock, TypeOK
  <2> QED
    BY <1>5, <2>1, <2>2 DEF DropLock, TypeOK, programVars, tableVars
<1>6. ASSUME NEW h \in Requests, CommitDrop(h) PROVE TypeOK'
  <2> DEFINE p == req[h].prog
             r == req[h].reader
             e == [from |-> req[h].prev, to |-> "cancelled"]
  <2>1. p \in Programs /\ r \in Readers /\ Finish(h, r) /\ req[h].prev \in RowStatuses
    BY <1>0, <1>6 DEF Request, CommitDrop
  <2>2. req' \in [Requests -> Request]
    BY <1>0, <2>1, FinishEffect
  <2>3. enrollment' \in [Programs -> [Readers -> RowStatuses]]
    BY <1>6, <2>1 DEF CommitDrop, TypeOK, RowStatuses, DroppedStatus
  <2>4. Append(history[p][r], e) \in Seq([from : RowStatuses, to : RowStatuses])
    BY <2>1 DEF TypeOK, RowStatuses
  <2>5. history' \in [Programs -> [Readers -> Seq([from : RowStatuses, to : RowStatuses])]]
    BY <1>6, <2>1, <2>4 DEF CommitDrop, TypeOK, DroppedStatus
  <2>6. rowLock' \in [Programs -> [Readers -> Requests \cup {NoRequest}]]
    BY <1>6, <2>1 DEF CommitDrop, TypeOK
  <2> QED
    BY <1>6, <2>2, <2>3, <2>5, <2>6 DEF CommitDrop, TypeOK, programVars
<1>7. CASE StaffNext
  BY <1>7, StaffEffect
<1>8. CASE UNCHANGED vars
  BY <1>8 DEF TypeOK, vars, programVars, tableVars, lockVars
<1> QED
  BY <1>1, <1>2, <1>3, <1>4, <1>5, <1>6, <1>7, <1>8
  DEF Next, RequestNext, EnrollStep, Reads, Refuse, Fail

(* The tables, the locks and the requests keep their types, whatever the   *)
(* requests, staff and clock do.                                           *)
THEOREM TypeCorrect == Spec => []TypeOK
BY InitType, NextType, PTL DEF Spec

-----------------------------------------------------------------------------
(* The inductive invariant.                                                *)

(* A program row is held by the transaction that works on it, and by no other. *)
ProgramLockInv ==
  \A h \in Requests, p \in Programs :
    programLock[p] = h <=> req[h].step \in InTx /\ req[h].prog = p

(* An enrollment row is held by the drop that works on it. *)
RowLockInv ==
  \A h \in Requests, p \in Programs, r \in Readers :
    rowLock[p][r] = h <=> req[h].step = "drop" /\ req[h].prog = p /\ req[h].reader = r

(* What a transaction read after locking the program row still holds: the  *)
(* capacity is the one it read, and no seat has been taken since it counted. *)
SeatInv ==
  \A h \in Requests, p \in Programs : req[h].step \in InTx /\ req[h].prog = p =>
    /\ status[p] # "absent"
    /\ req[h].cap = capacity[p]
    /\ req[h].step # "count" => req[h].taken < req[h].cap /\ Taken(p) <= req[h].taken

(* A request that has found a program keeps finding it. *)
ProgramInv ==
  \A h \in Requests : req[h].step \in Preflight => status[req[h].prog] # "absent"

(* The row a drop has locked still has the status it read. *)
DropInv ==
  \A h \in Requests : req[h].step = "drop" =>
    /\ enrollment[req[h].prog][req[h].reader] = req[h].prev
    /\ req[h].prev \notin {"none", "cancelled"}

(* Only a row that exists has a history. *)
HistoryInv ==
  \A p \in Programs, r \in Readers : enrollment[p][r] = "none" => history[p][r] = <<>>

IInv == /\ TypeOK /\ ProgramLockInv /\ RowLockInv /\ SeatInv /\ ProgramInv
        /\ DropInv /\ HistoryInv /\ InsertNeverCollides /\ HistoryChained

LEMMA InitInv == Init => IInv
<1> SUFFICES ASSUME Init PROVE IInv
  OBVIOUS
<1>1. \A h \in Requests : req[h].step = "idle"
  BY IdleType DEF Init
<1>2. \A p \in Programs : programLock[p] \notin Requests
  BY EnrollmentAssumption DEF Init
<1>3. \A p \in Programs, r \in Readers : rowLock[p][r] \notin Requests
  BY EnrollmentAssumption DEF Init
<1>4. ProgramLockInv /\ RowLockInv /\ SeatInv /\ ProgramInv /\ DropInv /\ InsertNeverCollides
  BY <1>1, <1>2, <1>3
  DEF ProgramLockInv, RowLockInv, SeatInv, ProgramInv, DropInv, InsertNeverCollides, InTx, Preflight
<1>5. HistoryInv /\ HistoryChained
  BY DEF Init, HistoryInv, HistoryChained
<1> QED
  BY <1>4, <1>5, InitType DEF IInv

(* The seats taken depend on the enrollment table only. *)
LEMMA TakenSame ==
  ASSUME UNCHANGED enrollment, NEW p
  PROVE  Taken(p)' = Taken(p) /\ ConfirmedReaders(p)' = ConfirmedReaders(p)
BY DEF Taken, ConfirmedReaders

(* Where a read leads: a preflight check to a preflight check of a program *)
(* that exists, a check of the transaction to the next one.                *)
PreflightRead(h) ==
  \/ \E p \in Programs, r \in Readers : StartEnroll(h, p, r)
  \/ LoadReader(h) \/ LoadRules(h) \/ LoadPrereqs(h) \/ CheckPrereq(h)

LEMMA PreflightEffect ==
  ASSUME TypeOK, ProgramInv, NEW h \in Requests, PreflightRead(h)
  PROVE  /\ req[h].step \in {"idle"} \cup Preflight
         /\ req'[h].step \in Preflight
         /\ status[req'[h].prog] # "absent"
<1>0. req \in [Requests -> Request]
  BY DEF TypeOK
<1>1. ASSUME NEW p \in Programs, NEW r \in Readers, StartEnroll(h, p, r)
      PROVE  /\ req[h].step = "idle"
             /\ req'[h].step \in Preflight
             /\ status[req'[h].prog] # "absent"
  BY <1>0, <1>1 DEF StartEnroll, Preflight, Idle
<1>2. CASE LoadReader(h)
  BY <1>0, <1>2 DEF LoadReader, Preflight, ProgramInv, Request
<1>3. CASE LoadRules(h)
  BY <1>0, <1>3 DEF LoadRules, Goto, Preflight, ProgramInv, Request
<1>4. CASE LoadPrereqs(h)
  BY <1>0, <1>4 DEF LoadPrereqs, Preflight, ProgramInv, Request
<1>5. CASE CheckPrereq(h)
  BY <1>0, <1>5 DEF CheckPrereq, Preflight, ProgramInv, Request
<1> QED
  BY <1>1, <1>2, <1>3, <1>4, <1>5 DEF PreflightRead

LEMMA PreflightStep ==
  ASSUME IInv, NEW h \in Requests, PreflightRead(h)
  PROVE  IInv'
<1>1. /\ UNCHANGED <<programVars, tableVars, lockVars, edits>>
      /\ \A k \in Requests : k # h => req'[k] = req[k]
      /\ TypeOK'
  BY ReadType DEF IInv, PreflightRead, Reads, TypeOK, programVars, tableVars, lockVars
<1>2. /\ req[h].step \notin InTx \cup {"drop"}
      /\ req'[h].step \in Preflight /\ req'[h].step \notin InTx \cup {"drop"}
      /\ status[req'[h].prog] # "absent"
  BY PreflightEffect DEF IInv, InTx, Preflight
<1>3. ProgramLockInv' /\ RowLockInv' /\ ProgramInv' /\ DropInv'
  BY <1>1, <1>2 DEF IInv, ProgramLockInv, RowLockInv, ProgramInv, DropInv,
                    programVars, tableVars, lockVars
<1>4. SeatInv'
  <2> SUFFICES ASSUME NEW k \in Requests, NEW p \in Programs,
                      req'[k].step \in InTx, req'[k].prog = p
               PROVE  /\ status'[p] # "absent"
                      /\ req'[k].cap = capacity'[p]
                      /\ req'[k].step # "count" => /\ req'[k].taken < req'[k].cap
                                                   /\ Taken(p)' <= req'[k].taken
    BY DEF SeatInv
  <2>1. Taken(p)' = Taken(p)
    BY <1>1, TakenSame DEF tableVars
  <2> QED
    BY <1>1, <1>2, <2>1 DEF IInv, SeatInv, programVars
<1>5. InsertNeverCollides'
  BY <1>1, <1>2 DEF IInv, InsertNeverCollides, tableVars, InTx
<1>6. HistoryInv' /\ HistoryChained'
  BY <1>1 DEF IInv, HistoryInv, HistoryChained, tableVars
<1> QED
  BY <1>1, <1>3, <1>4, <1>5, <1>6 DEF IInv

(* The checks of the transaction establish what the insert relies on. *)
LEMMA TxCheckStep ==
  ASSUME IInv, NEW h \in Requests, CountSeats(h) \/ CheckDuplicate(h) \/ CheckSchedule(h)
  PROVE  IInv'
<1>0. req \in [Requests -> Request]
  BY DEF IInv, TypeOK
<1>1. /\ UNCHANGED <<programVars, tableVars, lockVars, edits>>
      /\ \A k \in Requests : k # h => req'[k] = req[k]
      /\ TypeOK'
  BY ReadType DEF IInv, Reads, TypeOK, programVars, tableVars, lockVars
<1>2. /\ req[h].step \in InTx /\ req'[h].step \in InTx /\ req'[h].step # "count"
      /\ req'[h].prog = req[h].prog /\ req'[h].reader = req[h].reader /\ req'[h].cap = req[h].cap
      /\ \/ /\ req[h].step # "count" /\ req'[h].taken = req[h].taken
         \/ Taken(req[h].prog) < req[h].cap /\ req'[h].taken = Taken(req[h].prog)
      /\ \/ req'[h].step \notin {"schedule", "insert"}
         \/ NoRow(req[h].prog, req[h].reader)
         \/ req[h].step = "schedule"
  <2>1. CASE CountSeats(h)
    <3>1. req'[h] = [req[h] EXCEPT !.step = "duplicate", !.taken = Taken(req[h].prog)]
      BY <1>0, <2>1 DEF CountSeats
    <3> QED
      BY <1>0, <2>1, <3>1 DEF CountSeats, InTx, Request
  <2>2. CASE CheckDuplicate(h)
    <3>1. req'[h] = [req[h] EXCEPT !.step = "schedule"]
      BY <1>0, <2>2 DEF CheckDuplicate, Goto
    <3> QED
      BY <1>0, <2>2, <3>1 DEF CheckDuplicate, InTx, Request
  <2>3. CASE CheckSchedule(h)
    <3>1. req'[h] = [req[h] EXCEPT !.step = "insert"]
      BY <1>0, <2>3 DEF CheckSchedule, Goto
    <3> QED
      BY <1>0, <2>3, <3>1 DEF CheckSchedule, InTx, Request
  <2> QED
    BY <2>1, <2>2, <2>3
<1>3. ProgramLockInv' /\ RowLockInv' /\ ProgramInv' /\ DropInv'
  BY <1>1, <1>2 DEF IInv, ProgramLockInv, RowLockInv, ProgramInv, DropInv,
                    programVars, tableVars, lockVars, InTx, Preflight
<1>4. SeatInv'
  <2> SUFFICES ASSUME NEW k \in Requests, NEW p \in Programs,
                      req'[k].step \in InTx, req'[k].prog = p
               PROVE  /\ status'[p] # "absent"
                      /\ req'[k].cap = capacity'[p]
                      /\ req'[k].step # "count" => /\ req'[k].taken < req'[k].cap
                                                   /\ Taken(p)' <= req'[k].taken
    BY DEF SeatInv
  <2>1. Taken(p)' = Taken(p) /\ Taken(p) \in Nat
    BY <1>1, TakenSame, TakenType DEF tableVars
  <2>2. CASE k # h
    BY <1>1, <2>1, <2>2 DEF IInv, SeatInv, programVars
  <2>3. CASE k = h
    BY <1>1, <1>2, <2>1, <2>3 DEF IInv, SeatInv, programVars
  <2> QED
    BY <2>2, <2>3
<1>5. InsertNeverCollides'
  BY <1>1, <1>2 DEF IInv, InsertNeverCollides, NoRow, tableVars
<1>6. HistoryInv' /\ HistoryChained'
  BY <1>1 DEF IInv, HistoryInv, HistoryChained, tableVars
<1> QED
  BY <1>1, <1>3, <1>4, <1>5, <1>6 DEF IInv

(* The transaction begins when nobody holds the program row. *)
LEMMA LockProgramStep ==
  ASSUME IInv, NEW h \in Requests, LockProgram(h)
  PROVE  IInv'
<1>0. req \in [Requests -> Request]
  BY DEF IInv, TypeOK
<1>1. TypeOK'
  BY NextType DEF IInv, Next, RequestNext
<1>p. PICK p \in Programs : p = req[h].prog
  BY <1>0 DEF Request
<1>2. /\ UNCHANGED <<programVars, tableVars, rowLock>>
      /\ programLock[p] = NoRequest
      /\ \A q \in Programs : programLock'[q] = IF q = p THEN h ELSE programLock[q]
      /\ req[h].step = "completed"
      /\ \A k \in Requests : k # h => req'[k] = req[k]
  BY <1>0, <1>p DEF LockProgram, ProgramFree, IInv, TypeOK
<1>3. /\ req'[h].step = "count" /\ req'[h].prog = p /\ req'[h].cap = capacity[p]
      /\ status[p] # "absent"
  <2>1. req'[h] = [req[h] EXCEPT !.step = "count", !.cap = capacity[p]]
    BY <1>0, <1>p DEF LockProgram
  <2> QED
    BY <1>0, <1>2, <1>p, <2>1 DEF Request, IInv, ProgramInv, Preflight
<1>4. ProgramLockInv'
  BY <1>2, <1>3, <1>p, EnrollmentAssumption DEF IInv, ProgramLockInv, InTx
<1>5. RowLockInv' /\ ProgramInv' /\ DropInv'
  BY <1>2, <1>3 DEF IInv, RowLockInv, ProgramInv, DropInv, programVars, tableVars, Preflight
<1>6. SeatInv'
  <2> SUFFICES ASSUME NEW k \in Requests, NEW q \in Programs,
                      req'[k].step \in InTx, req'[k].prog = q
               PROVE  /\ status'[q] # "absent"
                      /\ req'[k].cap = capacity'[q]
                      /\ req'[k].step # "count" => /\ req'[k].taken < req'[k].cap
                                                   /\ Taken(q)' <= req'[k].taken
    BY DEF SeatInv
  <2>1. Taken(q)' = Taken(q)
    BY <1>2, TakenSame DEF tableVars
  <2> QED
    BY <1>2, <1>3, <2>1 DEF IInv, SeatInv, programVars
<1>7. InsertNeverCollides'
  BY <1>2, <1>3 DEF IInv, InsertNeverCollides, tableVars
<1>8. HistoryInv' /\ HistoryChained'
  BY <1>2 DEF IInv, HistoryInv, HistoryChained, tableVars
<1> QED
  BY <1>1, <1>4, <1>5, <1>6, <1>7, <1>8 DEF IInv

(* A rollback gives back what the request holds and writes nothing. *)
LEMMA RollbackStep ==
  ASSUME IInv, NEW h \in Requests, Refuse(h) \/ Fail(h)
  PROVE  IInv'
<1>0. req \in [Requests -> Request]
  BY DEF IInv, TypeOK
<1>1. TypeOK'
  BY NextType DEF IInv, Next, RequestNext, EnrollStep
<1>2. /\ UNCHANGED <<programVars, tableVars>>
      /\ Release(h)
      /\ req'[h].step = "idle"
      /\ \A k \in Requests : k # h => req'[k] = req[k]
  BY <1>0, IdleType DEF Refuse, Fail, Rollback
<1>3. ProgramLockInv'
  BY <1>2, EnrollmentAssumption DEF Release, IInv, TypeOK, ProgramLockInv, InTx
<1>4. RowLockInv'
  BY <1>2, EnrollmentAssumption DEF Release, IInv, TypeOK, RowLockInv
<1>5. ProgramInv' /\ DropInv'
  BY <1>2 DEF IInv, ProgramInv, DropInv, programVars, tableVars, Preflight
<1>6. SeatInv'
  <2> SUFFICES ASSUME NEW k \in Requests, NEW q \in Programs,
                      req'[k].step \in InTx, req'[k].prog = q
               PROVE  /\ status'[q] # "absent"
                      /\ req'[k].cap = capacity'[q]
                      /\ req'[k].step # "count" => /\ req'[k].taken < req'[k].cap
                                                   /\ Taken(q)' <= req'[k].taken
    BY DEF SeatInv
  <2>1. Taken(q)' = Taken(q)
    BY <1>2, TakenSame DEF tableVars
  <2> QED
    BY <1>2, <2>1 DEF IInv, SeatInv, programVars, InTx
<1>7. InsertNeverCollides'
  BY <1>2 DEF IInv, InsertNeverCollides, tableVars
<1>8. HistoryInv' /\ HistoryChained'
  BY <1>2 DEF IInv, HistoryInv, HistoryChained, tableVars
<1> QED
  BY <1>1, <1>3, <1>4, <1>5, <1>6, <1>7, <1>8 DEF IInv

LEMMA DropLockStep ==
  ASSUME IInv, NEW h \in Requests, NEW p \in Programs, NEW r \in Readers, DropLock(h, p, r)
  PROVE  IInv'
<1>0. req \in [Requests -> Request]
  BY DEF IInv, TypeOK
<1>1. TypeOK'
  BY NextType DEF IInv, Next, RequestNext
<1>2. /\ UNCHANGED <<programVars, tableVars, programLock>>
      /\ rowLock[p][r] = NoRequest
      /\ \A q \in Programs, s \in Readers :
           rowLock'[q][s] = IF q = p /\ s = r THEN h ELSE rowLock[q][s]
      /\ req[h].step = "idle"
      /\ req'[h].step = "drop" /\ req'[h].prog = p /\ req'[h].reader = r
      /\ req'[h].prev = enrollment[p][r] /\ enrollment[p][r] \notin {"none", "cancelled"}
      /\ \A k \in Requests : k # h => req'[k] = req[k]
  BY <1>0 DEF DropLock, RowFree, Idle, IInv, TypeOK
<1>3. ProgramLockInv' /\ ProgramInv' /\ DropInv'
  BY <1>2 DEF IInv, ProgramLockInv, ProgramInv, DropInv, programVars, tableVars, Preflight, InTx
<1>4. RowLockInv'
  BY <1>2, EnrollmentAssumption DEF IInv, RowLockInv
<1>6. SeatInv'
  <2> SUFFICES ASSUME NEW k \in Requests, NEW q \in Programs,
                      req'[k].step \in InTx, req'[k].prog = q
               PROVE  /\ status'[q] # "absent"
                      /\ req'[k].cap = capacity'[q]
                      /\ req'[k].step # "count" => /\ req'[k].taken < req'[k].cap
                                                   /\ Taken(q)' <= req'[k].taken
    BY DEF SeatInv
  <2>1. Taken(q)' = Taken(q)
    BY <1>2, TakenSame DEF tableVars
  <2> QED
    BY <1>2, <2>1 DEF IInv, SeatInv, programVars, InTx
<1>7. InsertNeverCollides'
  BY <1>2 DEF IInv, InsertNeverCollides, tableVars
<1>8. HistoryInv' /\ HistoryChained'
  BY <1>2 DEF IInv, HistoryInv, HistoryChained, tableVars
<1> QED
  BY <1>1, <1>3, <1>4, <1>6, <1>7, <1>8 DEF IInv

(* A change that starts where the chain ends prolongs it. *)
Change == [from : RowStatuses, to : RowStatuses]

LEMMA ChainAppend ==
  ASSUME NEW s \in Seq(Change), NEW e \in Change, Chained(s),
         s # <<>> => s[Len(s)].to = e.from
  PROVE  /\ Append(s, e) # <<>>
         /\ Chained(Append(s, e))
         /\ Append(s, e)[Len(Append(s, e))] = e
<1> DEFINE t == Append(s, e)
<1>1. /\ Len(s) \in Nat /\ Len(t) = Len(s) + 1 /\ t[Len(s) + 1] = e
      /\ \A i \in 1 .. Len(s) : t[i] = s[i]
  OBVIOUS
<1>2. t # <<>>
  BY <1>1
<1>3. ASSUME NEW i \in 1 .. (Len(t) - 1) PROVE t[i].to = t[i + 1].from
  <2>1. CASE i = Len(s)
    <3>1. s # <<>>
      BY <1>1, <2>1
    <3> QED
      BY <1>1, <2>1, <3>1
  <2>2. CASE i # Len(s)
    <3>1. i \in 1 .. (Len(s) - 1) /\ i + 1 \in 1 .. Len(s)
      BY <1>1, <2>2
    <3> QED
      BY <1>1, <3>1 DEF Chained
  <2> QED
    BY <2>1, <2>2
<1>4. Chained(t)
  BY <1>3 DEF Chained
<1> QED
  BY <1>1, <1>2, <1>4

(* What a committed enrollment does to the tables: one row, one seat. *)
LEMMA CommitEffect ==
  ASSUME IInv, NEW h \in Requests, NEW p \in Programs, NEW r \in Readers,
         p = req[h].prog, r = req[h].reader, CommitEnroll(h)
  PROVE  /\ req[h].step = "insert" /\ enrollment[p][r] = "none" /\ history[p][r] = <<>>
         /\ UNCHANGED <<programVars, rowLock, edits>>
         /\ req'[h] = Idle
         /\ \A k \in Requests : k # h => SameReads(k)
         /\ \A q \in Programs : programLock'[q] = IF q = p THEN NoRequest ELSE programLock[q]
         /\ \A q \in Programs, s \in Readers :
              /\ enrollment'[q][s] = IF q = p /\ s = r THEN "confirmed" ELSE enrollment[q][s]
              /\ history'[q][s] = IF q = p /\ s = r THEN <<[from |-> "none", to |-> "confirmed"]>>
                                  ELSE history[q][s]
         /\ Taken(p)' = Taken(p) + 1
         /\ \A q \in Programs : q # p => /\ ConfirmedReaders(q)' = ConfirmedReaders(q)
                                          /\ Taken(q)' = Taken(q)
<1>0. req \in [Requests -> Request]
  BY DEF IInv, TypeOK
<1>1. /\ req[h].step = "insert" /\ enrollment[p][r] = "none" /\ history[p][r] = <<>>
      /\ UNCHANGED <<programVars, rowLock, edits>>
      /\ Finish(h, r)
  BY DEF CommitEnroll, IInv, HistoryInv
<1>2. req'[h] = Idle /\ \A k \in Requests : k # h => SameReads(k)
  BY <1>0, <1>1, FinishEffect
<1>3. \A q \in Programs : programLock'[q] = IF q = p THEN NoRequest ELSE programLock[q]
  BY DEF CommitEnroll, IInv, TypeOK
<1>4. \A q \in Programs, s \in Readers :
        enrollment'[q][s] = IF q = p /\ s = r THEN "confirmed" ELSE enrollment[q][s]
  BY DEF CommitEnroll, IInv, TypeOK
<1>5. ASSUME NEW q \in Programs, NEW s \in Readers
      PROVE  history'[q][s] = IF q = p /\ s = r THEN <<[from |-> "none", to |-> "confirmed"]>>
                              ELSE history[q][s]
  <2>1. history' = [history EXCEPT ![p][r] =
                      Append(history[p][r], [from |-> "none", to |-> "confirmed"])]
    BY DEF CommitEnroll
  <2>2. Append(history[p][r], [from |-> "none", to |-> "confirmed"])
          = <<[from |-> "none", to |-> "confirmed"]>>
    BY <1>1
  <2> QED
    BY <2>1, <2>2 DEF IInv, TypeOK
<1>6. ConfirmedReaders(p)' = ConfirmedReaders(p) \cup {r} /\ r \notin ConfirmedReaders(p)
  BY <1>1, <1>4 DEF ConfirmedReaders
<1>7. Taken(p)' = Taken(p) + 1
  BY <1>6, TakenType, FS_AddElement DEF Taken
<1>8. ASSUME NEW q \in Programs, q # p
      PROVE  ConfirmedReaders(q)' = ConfirmedReaders(q) /\ Taken(q)' = Taken(q)
  BY <1>4, <1>8 DEF ConfirmedReaders, Taken
<1> QED
  BY <1>1, <1>2, <1>3, <1>4, <1>5, <1>7, <1>8

LEMMA CommitEnrollStep ==
  ASSUME IInv, NEW h \in Requests, CommitEnroll(h)
  PROVE  IInv'
<1>0. req \in [Requests -> Request]
  BY DEF IInv, TypeOK
<1>1. TypeOK'
  BY NextType DEF IInv, Next, RequestNext, EnrollStep
<1>p. PICK p \in Programs, r \in Readers : p = req[h].prog /\ r = req[h].reader
  BY <1>0 DEF Request
<1>2. /\ req[h].step = "insert" /\ enrollment[p][r] = "none"
      /\ UNCHANGED <<programVars, rowLock>>
      /\ req'[h].step = "idle"
      /\ \A k \in Requests : k # h => SameReads(k)
      /\ \A q \in Programs : programLock'[q] = IF q = p THEN NoRequest ELSE programLock[q]
      /\ \A q \in Programs, s \in Readers :
           enrollment'[q][s] = IF q = p /\ s = r THEN "confirmed" ELSE enrollment[q][s]
  BY <1>p, CommitEffect, IdleType
<1>3. ProgramLockInv'
  BY <1>2, <1>p, EnrollmentAssumption DEF IInv, ProgramLockInv, SameReads, InTx
<1>4. RowLockInv' /\ ProgramInv'
  BY <1>2 DEF IInv, RowLockInv, ProgramInv, SameReads, programVars, Preflight
<1>5. DropInv'
  <2> SUFFICES ASSUME NEW k \in Requests, req'[k].step = "drop"
               PROVE  /\ enrollment'[req'[k].prog][req'[k].reader] = req'[k].prev
                      /\ req'[k].prev \notin {"none", "cancelled"}
    BY DEF DropInv
  <2>1. k # h /\ SameReads(k)
    BY <1>2
  <2>2. /\ req[k].prog \in Programs /\ req[k].reader \in Readers
        /\ enrollment[req[k].prog][req[k].reader] = req[k].prev
        /\ req[k].prev \notin {"none", "cancelled"}
    BY <1>0, <2>1 DEF IInv, DropInv, SameReads, Request
  <2> QED
    BY <1>2, <2>1, <2>2 DEF SameReads
<1>6. SeatInv'
  <2> SUFFICES ASSUME NEW k \in Requests, NEW q \in Programs,
                      req'[k].step \in InTx, req'[k].prog = q
               PROVE  /\ status'[q] # "absent"
                      /\ req'[k].cap = capacity'[q]
                      /\ req'[k].step # "count" => /\ req'[k].taken < req'[k].cap
                                                   /\ Taken(q)' <= req'[k].taken
    BY DEF SeatInv
  <2>1. k # h /\ SameReads(k)
    BY <1>2 DEF InTx
  <2>2. programLock[p] = h /\ programLock[q] = k
    BY <1>2, <1>p, <2>1 DEF IInv, ProgramLockInv, SameReads, InTx
  <2>3. Taken(q)' = Taken(q)
    BY <1>p, <2>1, <2>2, CommitEffect
  <2> QED
    BY <1>2, <2>1, <2>3 DEF IInv, SeatInv, SameReads, programVars
<1>7. InsertNeverCollides'
  <2> SUFFICES ASSUME NEW k \in Requests, req'[k].step \in {"schedule", "insert"}
               PROVE  enrollment'[req'[k].prog][req'[k].reader] = "none"
    BY DEF InsertNeverCollides
  <2>1. k # h /\ SameReads(k) /\ req[k].prog \in Programs /\ req[k].reader \in Readers
    BY <1>0, <1>2 DEF Request
  <2>2. programLock[p] = h /\ programLock[req[k].prog] = k
    BY <1>2, <1>p, <2>1 DEF IInv, ProgramLockInv, SameReads, InTx
  <2> QED
    BY <1>2, <2>1, <2>2 DEF IInv, InsertNeverCollides, SameReads
<1>8. HistoryInv' /\ HistoryChained'
  <2>1. \A q \in Programs, s \in Readers :
          history'[q][s] = IF q = p /\ s = r THEN <<[from |-> "none", to |-> "confirmed"]>>
                           ELSE history[q][s]
    BY <1>p, CommitEffect
  <2> QED
    BY <1>2, <2>1 DEF IInv, HistoryInv, HistoryChained, Chained
<1> QED
  BY <1>1, <1>3, <1>4, <1>5, <1>6, <1>7, <1>8 DEF IInv

(* A drop cancels one row, which gives a seat back or leaves the count alone. *)
LEMMA DropEffect ==
  ASSUME IInv, NEW h \in Requests, NEW p \in Programs, NEW r \in Readers,
         p = req[h].prog, r = req[h].reader, CommitDrop(h)
  PROVE  /\ req[h].step = "drop"
         /\ enrollment[p][r] = req[h].prev /\ enrollment[p][r] \notin {"none", "cancelled"}
         /\ UNCHANGED <<programVars, programLock, edits>>
         /\ req'[h] = Idle
         /\ \A k \in Requests : k # h => SameReads(k)
         /\ \A q \in Programs, s \in Readers :
              /\ rowLock'[q][s] = IF q = p /\ s = r THEN NoRequest ELSE rowLock[q][s]
              /\ enrollment'[q][s] = IF q = p /\ s = r THEN "cancelled" ELSE enrollment[q][s]
         /\ \A q \in Programs : /\ ConfirmedReaders(q)' \subseteq ConfirmedReaders(q)
                                /\ Taken(q)' \in Nat /\ Taken(q)' <= Taken(q)
<1>0. req \in [Requests -> Request]
  BY DEF IInv, TypeOK
<1>1. /\ req[h].step = "drop"
      /\ enrollment[p][r] = req[h].prev /\ enrollment[p][r] \notin {"none", "cancelled"}
      /\ UNCHANGED <<programVars, programLock, edits>>
      /\ Finish(h, r)
  BY DEF CommitDrop, IInv, DropInv
<1>2. req'[h] = Idle /\ \A k \in Requests : k # h => SameReads(k)
  BY <1>0, <1>1, FinishEffect
<1>3. \A q \in Programs, s \in Readers :
        rowLock'[q][s] = IF q = p /\ s = r THEN NoRequest ELSE rowLock[q][s]
  BY DEF CommitDrop, IInv, TypeOK
<1>4. \A q \in Programs, s \in Readers :
        enrollment'[q][s] = IF q = p /\ s = r THEN "cancelled" ELSE enrollment[q][s]
  BY DEF CommitDrop, DroppedStatus, IInv, TypeOK
<1>5. ASSUME NEW q \in Programs
      PROVE  /\ ConfirmedReaders(q)' \subseteq ConfirmedReaders(q)
             /\ Taken(q)' \in Nat /\ Taken(q)' <= Taken(q)
  <2>1. ConfirmedReaders(q)' \subseteq ConfirmedReaders(q)
    BY <1>4 DEF ConfirmedReaders
  <2> QED
    BY <2>1, TakenType, FS_Subset, FS_CardinalityType DEF Taken
<1> QED
  BY <1>1, <1>2, <1>3, <1>4, <1>5

LEMMA CommitDropStep ==
  ASSUME IInv, NEW h \in Requests, CommitDrop(h)
  PROVE  IInv'
<1>0. req \in [Requests -> Request]
  BY DEF IInv, TypeOK
<1>1. TypeOK'
  BY NextType DEF IInv, Next, RequestNext, EnrollStep
<1>p. PICK p \in Programs, r \in Readers : p = req[h].prog /\ r = req[h].reader
  BY <1>0 DEF Request
<1>2. /\ req[h].step = "drop"
      /\ enrollment[p][r] = req[h].prev /\ enrollment[p][r] \notin {"none", "cancelled"}
      /\ UNCHANGED <<programVars, programLock>>
      /\ req'[h].step = "idle"
      /\ \A k \in Requests : k # h => SameReads(k)
      /\ \A q \in Programs, s \in Readers :
           /\ rowLock'[q][s] = IF q = p /\ s = r THEN NoRequest ELSE rowLock[q][s]
           /\ enrollment'[q][s] = IF q = p /\ s = r THEN "cancelled" ELSE enrollment[q][s]
  BY <1>p, DropEffect, IdleType
<1>3. ProgramLockInv' /\ ProgramInv'
  BY <1>2 DEF IInv, ProgramLockInv, ProgramInv, SameReads, programVars, InTx, Preflight
<1>4. RowLockInv'
  <2> SUFFICES ASSUME NEW k \in Requests, NEW q \in Programs, NEW s \in Readers
               PROVE  rowLock'[q][s] = k
                        <=> req'[k].step = "drop" /\ req'[k].prog = q /\ req'[k].reader = s
    BY DEF RowLockInv
  <2>1. rowLock[p][r] = h /\ k # NoRequest
    BY <1>2, <1>p, EnrollmentAssumption DEF IInv, RowLockInv
  <2>2. rowLock[q][s] = k <=> req[k].step = "drop" /\ req[k].prog = q /\ req[k].reader = s
    BY DEF IInv, RowLockInv
  <2>3. CASE k = h
    BY <1>2, <1>p, <2>1, <2>2, <2>3
  <2>4. CASE k # h
    BY <1>2, <2>1, <2>2, <2>4 DEF SameReads
  <2> QED
    BY <2>3, <2>4
<1>5. DropInv'
  <2> SUFFICES ASSUME NEW k \in Requests, req'[k].step = "drop"
               PROVE  /\ enrollment'[req'[k].prog][req'[k].reader] = req'[k].prev
                      /\ req'[k].prev \notin {"none", "cancelled"}
    BY DEF DropInv
  <2>1. k # h /\ SameReads(k) /\ req[k].prog \in Programs /\ req[k].reader \in Readers
    BY <1>0, <1>2 DEF Request
  <2>2. rowLock[p][r] = h /\ rowLock[req[k].prog][req[k].reader] = k
    BY <1>2, <1>p, <2>1 DEF IInv, RowLockInv, SameReads
  <2> QED
    BY <1>2, <2>1, <2>2 DEF IInv, DropInv, SameReads
<1>6. SeatInv'
  <2> SUFFICES ASSUME NEW k \in Requests, NEW q \in Programs,
                      req'[k].step \in InTx, req'[k].prog = q
               PROVE  /\ status'[q] # "absent"
                      /\ req'[k].cap = capacity'[q]
                      /\ req'[k].step # "count" => /\ req'[k].taken < req'[k].cap
                                                   /\ Taken(q)' <= req'[k].taken
    BY DEF SeatInv
  <2>1. k # h /\ SameReads(k)
    BY <1>2 DEF InTx
  <2>2. Taken(q)' <= Taken(q) /\ Taken(q) \in Nat /\ Taken(q)' \in Nat
    BY <1>p, DropEffect, TakenType
  <2>3. req[k].taken \in Nat
    BY <1>0 DEF Request
  <2> QED
    BY <1>2, <2>1, <2>2, <2>3 DEF IInv, SeatInv, SameReads, programVars
<1>7. InsertNeverCollides'
  <2> SUFFICES ASSUME NEW k \in Requests, req'[k].step \in {"schedule", "insert"}
               PROVE  enrollment'[req'[k].prog][req'[k].reader] = "none"
    BY DEF InsertNeverCollides
  <2>1. k # h /\ SameReads(k) /\ req[k].prog \in Programs /\ req[k].reader \in Readers
    BY <1>0, <1>2 DEF Request
  <2>2. enrollment[req[k].prog][req[k].reader] = "none"
    BY <2>1 DEF IInv, InsertNeverCollides, SameReads
  <2> QED
    BY <1>2, <2>1, <2>2 DEF SameReads
<1>8. HistoryInv' /\ HistoryChained'
  <2> DEFINE e == [from |-> req[h].prev, to |-> "cancelled"]
  <2>1. \A q \in Programs, s \in Readers :
          history'[q][s] = IF q = p /\ s = r THEN Append(history[p][r], e) ELSE history[q][s]
    BY <1>p DEF CommitDrop, DroppedStatus, IInv, TypeOK
  <2>2. history[p][r] \in Seq(Change) /\ e \in Change
    BY <1>0, <1>p DEF IInv, TypeOK, Change, Request, RowStatuses
  <2>3. /\ Chained(history[p][r])
        /\ history[p][r] # <<>> => history[p][r][Len(history[p][r])].to = e.from
    <3>1. CASE history[p][r] = <<>>
      BY <3>1 DEF Chained
    <3>2. CASE history[p][r] # <<>>
      BY <1>2, <3>2 DEF IInv, HistoryChained
    <3> QED
      BY <3>1, <3>2
  <2>4. /\ Append(history[p][r], e) # <<>>
        /\ Chained(Append(history[p][r], e))
        /\ Append(history[p][r], e)[Len(Append(history[p][r], e))] = e
    BY <2>2, <2>3, ChainAppend
  <2> HIDE DEF e
  <2>5. e.to = "cancelled"
    BY DEF e
  <2>6. HistoryInv'
    BY <1>2, <2>1 DEF IInv, HistoryInv
  <2>7. HistoryChained'
    <3> SUFFICES ASSUME NEW q \in Programs, NEW s \in Readers
                 PROVE  IF history'[q][s] = <<>> THEN enrollment'[q][s] \in {"none", "completed"}
                        ELSE /\ Chained(history'[q][s])
                             /\ history'[q][s][Len(history'[q][s])].to = enrollment'[q][s]
      BY DEF HistoryChained, Chained
    <3>1. CASE q = p /\ s = r
      BY <1>2, <2>1, <2>4, <2>5, <3>1
    <3>2. CASE ~(q = p /\ s = r)
      BY <1>2, <2>1, <3>2 DEF IInv, HistoryChained
    <3> QED
      BY <3>1, <3>2
  <2> QED
    BY <2>6, <2>7
<1> QED
  BY <1>1, <1>3, <1>4, <1>5, <1>6, <1>7, <1>8 DEF IInv

(* Staff cannot change the capacity of a program under a transaction. *)
LEMMA StaffStep ==
  ASSUME IInv, StaffNext
  PROVE  IInv'
<1>0. TypeOK /\ req \in [Requests -> Request]
  BY DEF IInv, TypeOK
<1>1. /\ TypeOK'
      /\ UNCHANGED <<tableVars, lockVars>>
      /\ \A k \in Requests : SameReads(k)
      /\ \A p \in Programs :
           /\ status[p] # "absent" => status'[p] # "absent"
           /\ capacity'[p] = capacity[p] \/ status[p] = "absent" \/ ProgramFree(p)
  BY <1>0, StaffEffect
<1>2. ProgramLockInv' /\ RowLockInv' /\ DropInv' /\ InsertNeverCollides'
  BY <1>1 DEF IInv, ProgramLockInv, RowLockInv, DropInv, InsertNeverCollides, SameReads,
              tableVars, lockVars
<1>3. ProgramInv'
  BY <1>0, <1>1 DEF IInv, ProgramInv, SameReads, Request
<1>4. SeatInv'
  <2> SUFFICES ASSUME NEW k \in Requests, NEW q \in Programs,
                      req'[k].step \in InTx, req'[k].prog = q
               PROVE  /\ status'[q] # "absent"
                      /\ req'[k].cap = capacity'[q]
                      /\ req'[k].step # "count" => /\ req'[k].taken < req'[k].cap
                                                   /\ Taken(q)' <= req'[k].taken
    BY DEF SeatInv
  <2>1. SameReads(k) /\ req[k].step \in InTx /\ req[k].prog = q
    BY <1>1 DEF SameReads
  <2>2. programLock[q] = k /\ k # NoRequest
    BY <2>1, EnrollmentAssumption DEF IInv, ProgramLockInv
  <2>3. status[q] # "absent" /\ status'[q] # "absent" /\ capacity'[q] = capacity[q]
    BY <1>1, <2>1, <2>2 DEF IInv, SeatInv, ProgramFree
  <2>4. Taken(q)' = Taken(q)
    BY <1>1, TakenSame DEF tableVars
  <2> QED
    BY <2>1, <2>3, <2>4 DEF IInv, SeatInv, SameReads
<1>5. HistoryInv' /\ HistoryChained'
  BY <1>1 DEF IInv, HistoryInv, HistoryChained, tableVars
<1> QED
  BY <1>1, <1>2, <1>3, <1>4, <1>5 DEF IInv

LEMMA StutterStep ==
  ASSUME IInv, UNCHANGED vars
  PROVE  IInv'
<1>1. TypeOK'
  BY NextType DEF IInv
<1>2. /\ ProgramLockInv' /\ RowLockInv' /\ ProgramInv' /\ DropInv'
      /\ InsertNeverCollides' /\ HistoryInv' /\ HistoryChained'
  BY DEF vars, programVars, tableVars, lockVars, IInv, ProgramLockInv, RowLockInv, ProgramInv,
         DropInv, InsertNeverCollides, HistoryInv, HistoryChained
<1>3. SeatInv'
  BY DEF vars, programVars, tableVars, IInv, SeatInv, Taken, ConfirmedReaders
<1> QED
  BY <1>1, <1>2, <1>3 DEF IInv

LEMMA NextInv == ASSUME IInv, [Next]_vars PROVE IInv'
<1>1. ASSUME NEW h \in Requests, NEW p \in Programs, NEW r \in Readers,
             StartEnroll(h, p, r) \/ DropLock(h, p, r)
      PROVE  IInv'
  BY <1>1, PreflightStep, DropLockStep DEF PreflightRead
<1>2. ASSUME NEW h \in Requests, EnrollStep(h) \/ LockProgram(h) \/ Fail(h)
      PROVE  IInv'
  BY <1>2, PreflightStep, TxCheckStep, CommitEnrollStep, RollbackStep, CommitDropStep, LockProgramStep
  DEF EnrollStep, PreflightRead
<1>3. CASE StaffNext
  BY <1>3, StaffStep
<1>4. CASE UNCHANGED vars
  BY <1>4, StutterStep
<1> QED
  BY <1>1, <1>2, <1>3, <1>4 DEF Next, RequestNext

(* The strengthened invariant holds in every state of every behaviour: a   *)
(* lock belongs to a request at the step that holds it, and what a         *)
(* transaction read under the lock of its program is still so.             *)
THEOREM Invariance == Spec => []IInv
BY InitInv, NextInv, PTL DEF Spec

-----------------------------------------------------------------------------
(* The safety properties.                                                  *)

(* The duplicate guard still holds when the INSERT runs, so the unique     *)
(* constraint on (program, reader) never has to stop a request.            *)
THEOREM NeverCollides == Spec => []InsertNeverCollides
<1>1. IInv => InsertNeverCollides
  BY DEF IInv
<1> QED
  BY <1>1, Invariance, PTL

(* The history of every row is one chain of changes ending in its status. *)
THEOREM HistoryIsChained == Spec => []HistoryChained
<1>1. IInv => HistoryChained
  BY DEF IInv
<1> QED
  BY <1>1, Invariance, PTL

(* What a step does to the enrollment table: nothing, one row confirmed    *)
(* while the transaction's count is still right, or one row cancelled.     *)
LEMMA TableStep ==
  ASSUME IInv, [Next]_vars
  PROVE  \/ UNCHANGED enrollment
         \/ \E h \in Requests : CommitEnroll(h) \/ CommitDrop(h)
<1>1. ASSUME NEW h \in Requests, Reads(h) PROVE UNCHANGED enrollment
  BY <1>1, ReadType DEF IInv, tableVars
<1>2. ASSUME NEW h \in Requests, LockProgram(h) \/ Refuse(h) \/ Fail(h) PROVE UNCHANGED enrollment
  BY <1>2 DEF LockProgram, Refuse, Fail, Rollback, tableVars
<1>3. ASSUME NEW h \in Requests, NEW p \in Programs, NEW r \in Readers, DropLock(h, p, r)
      PROVE  UNCHANGED enrollment
  BY <1>3 DEF DropLock, tableVars
<1>4. CASE StaffNext
  BY <1>4, StaffEffect DEF IInv, tableVars
<1>5. CASE UNCHANGED vars
  BY <1>5 DEF vars, tableVars
<1> QED
  BY <1>1, <1>2, <1>3, <1>4, <1>5 DEF Next, RequestNext, EnrollStep, Reads

(* No step that confirms a reader leaves a program with more confirmed     *)
(* readers than seats.                                                     *)
THEOREM NeverOversold == Spec => NoOversell
<1>1. ASSUME IInv, [Next]_vars, NEW p \in Programs,
             ConfirmedReaders(p)' \ ConfirmedReaders(p) # {}
      PROVE  Taken(p)' <= capacity'[p]
  <2>1. CASE UNCHANGED enrollment
    BY <1>1, <2>1 DEF ConfirmedReaders
  <2>2. ASSUME NEW h \in Requests, CommitDrop(h) PROVE FALSE
    <3>1. PICK q \in Programs, r \in Readers : q = req[h].prog /\ r = req[h].reader
      BY <1>1 DEF IInv, TypeOK, Request
    <3> QED
      BY <1>1, <2>2, <3>1, DropEffect
  <2>3. ASSUME NEW h \in Requests, CommitEnroll(h) PROVE Taken(p)' <= capacity'[p]
    <3>1. PICK q \in Programs, r \in Readers : q = req[h].prog /\ r = req[h].reader
      BY <1>1 DEF IInv, TypeOK, Request
    <3>2. q = p /\ Taken(p)' = Taken(p) + 1 /\ req[h].step = "insert" /\ UNCHANGED capacity
      BY <1>1, <2>3, <3>1, CommitEffect DEF programVars
    <3>3. Taken(p) < capacity[p]
      <4>1. req[h].taken < req[h].cap /\ Taken(p) <= req[h].taken /\ req[h].cap = capacity[p]
        BY <1>1, <3>1, <3>2 DEF IInv, SeatInv, InTx
      <4>2. req[h].taken \in Nat /\ req[h].cap \in Nat
        BY <1>1 DEF IInv, TypeOK, Request
      <4> QED
        BY <4>1, <4>2, TakenType
    <3>4. capacity[p] \in Nat
      BY <1>1, EnrollmentAssumption DEF IInv, TypeOK
    <3> QED
      BY <3>2, <3>3, <3>4, TakenType
  <2> QED
    BY <1>1, <2>1, <2>2, <2>3, TableStep
<1>2. IInv /\ [Next]_vars =>
        [\A p \in Programs :
           ConfirmedReaders(p)' \ ConfirmedReaders(p) # {} => Taken(p)' <= capacity'[p]]_vars
  BY <1>1
<1> QED
  BY <1>2, Invariance, PTL DEF Spec, NoOversell

(* The remaining seats an enrollment reports are free when it commits. *)
THEOREM ReportIsRight == Spec => ReportedSeatsAreFree
<1>1. ASSUME IInv, NEW h \in Requests, NEW p \in Programs, CommitEnroll(h), p = req[h].prog
      PROVE  /\ req[h].taken < req[h].cap
             /\ req[h].cap - req[h].taken - 1 <= capacity'[p] - Taken(p)'
  <2>1. PICK r \in Readers : r = req[h].reader
    BY <1>1 DEF IInv, TypeOK, Request
  <2>2. Taken(p)' = Taken(p) + 1 /\ req[h].step = "insert" /\ UNCHANGED capacity
    BY <1>1, <2>1, CommitEffect DEF programVars
  <2>3. req[h].taken < req[h].cap /\ Taken(p) <= req[h].taken /\ req[h].cap = capacity[p]
    BY <1>1, <2>2 DEF IInv, SeatInv, InTx
  <2>4. req[h].taken \in Nat /\ req[h].cap \in Nat /\ Taken(p) \in Nat
    BY <1>1, TakenType DEF IInv, TypeOK, Request
  <2> QED
    BY <2>2, <2>3, <2>4
<1>2. IInv =>
        [\A h \in Requests, p \in Programs : CommitEnroll(h) /\ p = req[h].prog =>
           /\ req[h].taken < req[h].cap
           /\ req[h].cap - req[h].taken - 1 <= capacity'[p] - Taken(p)']_vars
  BY <1>1
<1> QED
  BY <1>2, Invariance, PTL DEF ReportedSeatsAreFree

-----------------------------------------------------------------------------
(* The refinement: every step of Enrollment is a step of the atomic ledger *)
(* or leaves it alone.                                                     *)

LEMMA LedgerInitRefined == Init => Ledger!LedgerInit
BY EnrollmentAssumption DEF Init, Ledger!LedgerInit

(* The instance counts as this module does. *)
LEMMA LedgerCounts == ASSUME NEW p PROVE Ledger!Cardinality(Ledger!Confirmed(p)) = Taken(p)
<1>1. Ledger!Confirmed(p) = ConfirmedReaders(p)
  BY DEF Ledger!Confirmed, ConfirmedReaders
<1>2. ASSUME NEW S PROVE Ledger!Cardinality(S) = Cardinality(S)
  BY DEF Ledger!Cardinality, Cardinality
<1> QED
  BY <1>1, <1>2 DEF Taken

LEMMA LedgerStepRefined ==
  ASSUME IInv, [Next]_vars
  PROVE  [Ledger!LedgerNext]_(Ledger!ledgerVars)
<1>1. ASSUME NEW h \in Requests, CommitEnroll(h) PROVE Ledger!LedgerNext
  <2>1. PICK p \in Programs, r \in Readers : p = req[h].prog /\ r = req[h].reader
    BY <1>1 DEF IInv, TypeOK, Request
  <2>2. /\ req[h].step = "insert" /\ enrollment[p][r] = "none"
        /\ enrollment' = [enrollment EXCEPT ![p][r] = "confirmed"] /\ UNCHANGED capacity
    BY <1>1, <2>1 DEF CommitEnroll, programVars
  <2>3. Taken(p) < capacity[p]
    <3>1. req[h].taken < req[h].cap /\ Taken(p) <= req[h].taken /\ req[h].cap = capacity[p]
      BY <2>1, <2>2 DEF IInv, SeatInv, InTx
    <3>2. req[h].taken \in Nat /\ req[h].cap \in Nat
      BY DEF IInv, TypeOK, Request
    <3> QED
      BY <3>1, <3>2, TakenType
  <2>4. Ledger!Cardinality(Ledger!Confirmed(p)) < capacity[p]
    BY <2>3, LedgerCounts
  <2> QED
    BY <2>2, <2>4 DEF Ledger!LedgerNext, Ledger!Confirm
<1>2. ASSUME NEW h \in Requests, CommitDrop(h) PROVE Ledger!LedgerNext
  <2>1. PICK p \in Programs, r \in Readers : p = req[h].prog /\ r = req[h].reader
    BY <1>2 DEF IInv, TypeOK, Request
  <2>2. enrollment[p][r] \in RowStatuses /\ enrollment[p][r] \notin {"none", "cancelled"}
    <3>1. enrollment[p][r] \notin {"none", "cancelled"}
      BY <1>2, <2>1, DropEffect
    <3> QED
      BY <3>1 DEF IInv, TypeOK
  <2>3. enrollment' = [enrollment EXCEPT ![p][r] = "cancelled"] /\ UNCHANGED capacity
    BY <1>2, <2>1 DEF CommitDrop, DroppedStatus, programVars
  <2> QED
    BY <2>2, <2>3 DEF RowStatuses, Ledger!LedgerNext, Ledger!Cancel
<1>3. ASSUME NEW p \in Programs, NEW o \in Offers, CreateProgram(p, o) \/ UpdateProgram(p, o)
      PROVE  Ledger!LedgerNext
  <2>1. o.capacity \in Capacities
    BY EnrollmentAssumption
  <2>2. capacity' = [capacity EXCEPT ![p] = o.capacity] /\ UNCHANGED enrollment
    BY <1>3 DEF CreateProgram, UpdateProgram, Edit, tableVars
  <2> QED
    BY <2>1, <2>2 DEF Ledger!LedgerNext, Ledger!Resize
<1>4. ASSUME StaffNext, ~\E p \in Programs, o \in Offers : CreateProgram(p, o) \/ UpdateProgram(p, o)
      PROVE  UNCHANGED <<enrollment, capacity>>
  <2>1. UNCHANGED enrollment
    BY <1>4, StaffEffect DEF IInv, tableVars
  <2>2. UNCHANGED capacity
    BY <1>4 DEF StaffNext, UpdateStatus, AddRule, RemoveRule, AddPrereq, RemovePrereq,
                UpdateReaderStatus, ClockTick
  <2> QED
    BY <2>1, <2>2
<1>5. ASSUME NEW h \in Requests, Reads(h) PROVE UNCHANGED <<enrollment, capacity>>
  BY <1>5, ReadType DEF IInv, tableVars, programVars
<1>6. ASSUME NEW h \in Requests, LockProgram(h) \/ Refuse(h) \/ Fail(h)
      PROVE  UNCHANGED <<enrollment, capacity>>
  BY <1>6 DEF LockProgram, Refuse, Fail, Rollback, tableVars, programVars
<1>7. ASSUME NEW h \in Requests, NEW p \in Programs, NEW r \in Readers, DropLock(h, p, r)
      PROVE  UNCHANGED <<enrollment, capacity>>
  BY <1>7 DEF DropLock, tableVars, programVars
<1>8. CASE UNCHANGED vars
  BY <1>8 DEF vars, tableVars, programVars, Ledger!ledgerVars
<1> QED
  BY <1>1, <1>2, <1>3, <1>4, <1>5, <1>6, <1>7, <1>8
  DEF Next, RequestNext, EnrollStep, Reads, Ledger!ledgerVars

(* Enrollment, a sequence of statements of concurrent requests, implements *)
(* the ledger in which every operation is atomic.                          *)
THEOREM LedgerImplemented == Spec => ImplementsLedger
BY LedgerInitRefined, LedgerStepRefined, Invariance, PTL
DEF Spec, ImplementsLedger, Ledger!LedgerSpec

-----------------------------------------------------------------------------
(* Eligibility of the undisturbed.                                         *)

(* What the checks of a request found, by the step they have led it to.    *)
PastReader == {"rules", "prereqs", "completed"} \cup InTx
PastRules == {"prereqs", "completed"} \cup InTx

ProgramFound(k) == req[k].step \in Preflight \cup InTx =>
  status[req[k].prog] = "published" /\ window[req[k].prog] = "open"

ReaderFound(k) == req[k].step \in PastReader =>
  req[k].seen = "active" /\ readerStatus[req[k].reader] = "active"

RulesFound(k) == req[k].step \in PastRules => RulesAdmit(req[k].prog, req[k].reader, "active")

PrereqsFound(k) == req[k].step \in {"completed"} \cup InTx =>
  \A q \in prereqs[req[k].prog] :
    \/ req[k].step = "completed" /\ q \in req[k].todo
    \/ enrollment[q][req[k].reader] = "completed"


ScheduleFound(k) == req[k].step = "insert" => Clashes(req[k].prog, req[k].reader) = {}

Found(k) == /\ ProgramFound(k) /\ ReaderFound(k) /\ RulesFound(k)
            /\ PrereqsFound(k) /\ ScheduleFound(k)

(* As long as nobody interferes, what the checks found is still so. *)
FoundInv == \A k \in Requests : req[k].disturbed \/ Found(k)

LEMMA InitFound == Init => FoundInv
<1> SUFFICES ASSUME Init, NEW k \in Requests PROVE Found(k)
  BY DEF FoundInv
<1>1. req[k].step = "idle"
  BY IdleType DEF Init
<1> QED
  BY <1>1 DEF Found, ProgramFound, ReaderFound, RulesFound, PrereqsFound, ScheduleFound,
              PastReader, PastRules, InTx, Preflight

(* A request whose step leads nowhere has found nothing yet. *)
LEMMA IdleFound ==
  ASSUME NEW k \in Requests, req'[k].step \in {"idle", "drop"}
  PROVE  Found(k)'
BY DEF Found, ProgramFound, ReaderFound, RulesFound, PrereqsFound, ScheduleFound,
       PastReader, PastRules, InTx, Preflight

(* What a request found stays as it is while the programs and the rows of  *)
(* its reader do.                                                          *)
LEMMA FoundKept ==
  ASSUME req \in [Requests -> Request], NEW k \in Requests, Found(k),
         req'[k] = req[k], UNCHANGED programVars,
         \A q \in Programs : enrollment'[q][req[k].reader] = enrollment[q][req[k].reader],
         prereqs \in [Programs -> SUBSET Programs]
  PROVE  Found(k)'
<1> DEFINE p == req[k].prog
           r == req[k].reader
<1>1. p \in Programs /\ r \in Readers
  BY DEF Request
<1>2. ProgramFound(k)' /\ ReaderFound(k)'
  BY DEF Found, ProgramFound, ReaderFound, programVars
<1>3. RulesFound(k)'
  BY DEF Found, RulesFound, RulesAdmit, RuleMatches, programVars
<1>4. PrereqsFound(k)'
  BY <1>1 DEF Found, PrereqsFound, programVars
<1>5. ScheduleFound(k)'
  BY <1>1 DEF Found, ScheduleFound, Clashes, Overlap, programVars
<1> QED
  BY <1>2, <1>3, <1>4, <1>5 DEF Found

(* The checks of a request establish, one after the other, what it found. *)
LEMMA OwnFound ==
  ASSUME IInv, NEW h \in Requests, ~req[h].disturbed => Found(h),
         Reads(h) \/ LockProgram(h), ~req'[h].disturbed
  PROVE  Found(h)'
<1>0. req \in [Requests -> Request] /\ prereqs \in [Programs -> SUBSET Programs]
  BY DEF IInv, TypeOK
<1>u. UNCHANGED <<programVars, enrollment>>
  BY ReadType DEF IInv, LockProgram, tableVars
<1>1. ASSUME NEW p \in Programs, NEW r \in Readers, StartEnroll(h, p, r) PROVE Found(h)'
  <2>1. req'[h].step = "reader" /\ req'[h].prog = p /\ status[p] = "published" /\ window[p] = "open"
    BY <1>0, <1>1 DEF StartEnroll, Idle
  <2> QED
    BY <1>u, <2>1 DEF Found, ProgramFound, ReaderFound, RulesFound, PrereqsFound, ScheduleFound,
                      PastReader, PastRules, InTx, Preflight, programVars
<1>2. ASSUME ~\E p \in Programs, r \in Readers : StartEnroll(h, p, r) PROVE Found(h)'
  <2> DEFINE p == req[h].prog
             r == req[h].reader
  <2>1. p \in Programs /\ r \in Readers
    BY <1>0 DEF Request
  <2>f. /\ req'[h].prog = p /\ req'[h].reader = r /\ req'[h].disturbed = req[h].disturbed
        /\ req[h].step \in Preflight \cup InTx /\ req'[h].step \in Preflight \cup InTx
    <3>1. CASE LoadReader(h)
      BY <1>0, <3>1 DEF LoadReader, Request, Preflight
    <3>2. CASE LoadRules(h)
      BY <1>0, <3>2 DEF LoadRules, Goto, Request, Preflight
    <3>3. CASE LoadPrereqs(h)
      BY <1>0, <3>3 DEF LoadPrereqs, Request, Preflight
    <3>4. CASE CheckPrereq(h)
      BY <1>0, <3>4 DEF CheckPrereq, Request, Preflight
    <3>5. CASE LockProgram(h)
      BY <1>0, <3>5 DEF LockProgram, Request, Preflight, InTx
    <3>6. CASE CountSeats(h)
      BY <1>0, <3>6 DEF CountSeats, Request, InTx
    <3>7. CASE CheckDuplicate(h) \/ CheckSchedule(h)
      BY <1>0, <3>7 DEF CheckDuplicate, CheckSchedule, Goto, Request, InTx
    <3> QED
      BY <1>2, <3>1, <3>2, <3>3, <3>4, <3>5, <3>6, <3>7 DEF Reads
  <2>g. Found(h)
    BY <2>f
  <2>2. ProgramFound(h)'
    BY <1>u, <2>f, <2>g DEF Found, ProgramFound, programVars
  <2>3. ReaderFound(h)'
    <3>1. CASE LoadReader(h)
      BY <1>0, <1>u, <3>1 DEF LoadReader, ReaderMayEnroll, Request, ReaderFound, PastReader, programVars
    <3>2. CASE ~LoadReader(h)
      <4>1. req[h].step \in PastReader /\ req'[h].seen = req[h].seen
        <5>1. CASE LoadRules(h)
          BY <1>0, <5>1 DEF LoadRules, Goto, Request, PastReader
        <5>2. CASE LoadPrereqs(h)
          BY <1>0, <5>2 DEF LoadPrereqs, Request, PastReader
        <5>3. CASE CheckPrereq(h)
          BY <1>0, <5>3 DEF CheckPrereq, Request, PastReader
        <5>4. CASE LockProgram(h)
          BY <1>0, <5>4 DEF LockProgram, Request, PastReader
        <5>5. CASE CountSeats(h)
          BY <1>0, <5>5 DEF CountSeats, Request, PastReader, InTx
        <5>6. CASE CheckDuplicate(h) \/ CheckSchedule(h)
          BY <1>0, <5>6 DEF CheckDuplicate, CheckSchedule, Goto, Request, PastReader, InTx
        <5> QED
          BY <1>2, <3>2, <5>1, <5>2, <5>3, <5>4, <5>5, <5>6 DEF Reads
      <4> QED
        BY <1>u, <2>f, <2>g, <4>1 DEF Found, ReaderFound, programVars
    <3> QED
      BY <3>1, <3>2
  <2>4. RulesFound(h)'
    <3>1. ASSUME NEW q \in Programs, NEW s \in Readers
          PROVE  RulesAdmit(q, s, "active")' = RulesAdmit(q, s, "active")
      BY <1>u DEF RulesAdmit, RuleMatches, programVars
    <3>2. CASE LoadRules(h)
      <4>1. RulesAdmit(p, r, req[h].seen) /\ req[h].seen = "active"
        BY <2>g, <3>2 DEF LoadRules, Found, ReaderFound, PastReader
      <4> QED
        BY <2>1, <2>f, <3>1, <4>1 DEF RulesFound
    <3>3. CASE LoadReader(h)
      <4>1. req'[h].step = "rules"
        BY <1>0, <3>3 DEF LoadReader, Request
      <4> QED
        BY <4>1 DEF RulesFound, PastRules, InTx
    <3>4. CASE ~LoadReader(h) /\ ~LoadRules(h)
      <4>1. req[h].step \in PastRules
        BY <1>2, <3>4 DEF Reads, LoadPrereqs, CheckPrereq, LockProgram, CountSeats, CheckDuplicate,
                          CheckSchedule, PastRules, InTx
      <4> QED
        BY <2>1, <2>f, <2>g, <3>1, <4>1 DEF Found, RulesFound
    <3> QED
      BY <3>2, <3>3, <3>4
  <2>5. PrereqsFound(h)'
    <3>1. CASE LoadReader(h) \/ LoadRules(h)
      <4>1. req'[h].step \in {"rules", "prereqs"}
        BY <1>0, <3>1 DEF LoadReader, LoadRules, Goto, Request
      <4> QED
        BY <4>1 DEF PrereqsFound, InTx
    <3>2. CASE LoadPrereqs(h)
      <4>1. req'[h].step = "completed" /\ req'[h].todo = prereqs[p]
        BY <1>0, <3>2 DEF LoadPrereqs, Request
      <4> QED
        BY <1>u, <2>f, <4>1 DEF PrereqsFound, programVars
    <3>3. CASE CheckPrereq(h)
      <4>1. PICK q \in req[h].todo : /\ enrollment[q][r] = "completed"
                                     /\ req' = [req EXCEPT ![h].todo = @ \ {q}]
        BY <3>3 DEF CheckPrereq
      <4>2. req[h].step = "completed" /\ req'[h].step = "completed" /\ req'[h].todo = req[h].todo \ {q}
        BY <1>0, <3>3, <4>1 DEF CheckPrereq, Request
      <4> QED
        BY <1>u, <2>f, <2>g, <4>1, <4>2 DEF Found, PrereqsFound, programVars
    <3>4. CASE LockProgram(h)
      <4>1. req[h].step = "completed" /\ req[h].todo = {}
        BY <3>4 DEF LockProgram
      <4> QED
        BY <1>u, <2>f, <2>g, <4>1 DEF Found, PrereqsFound, programVars
    <3>5. CASE CountSeats(h) \/ CheckDuplicate(h) \/ CheckSchedule(h)
      <4>1. req[h].step \in InTx /\ req[h].step # "completed"
        BY <3>5 DEF CountSeats, CheckDuplicate, CheckSchedule, InTx
      <4> QED
        BY <1>u, <2>f, <2>g, <4>1 DEF Found, PrereqsFound, programVars
    <3> QED
      BY <1>2, <3>1, <3>2, <3>3, <3>4, <3>5 DEF Reads
  <2>6. ScheduleFound(h)'
    <3>1. CASE CheckSchedule(h)
      <4>1. ASSUME NEW q \in Programs, NEW s \in Readers
            PROVE  Clashes(q, s)' = Clashes(q, s)
        BY <1>u DEF Clashes, Overlap, programVars
      <4> QED
        BY <2>1, <2>f, <3>1, <4>1 DEF CheckSchedule, ScheduleFound
    <3>2. CASE ~CheckSchedule(h)
      <4>1. req'[h].step # "insert"
        <5>1. CASE LoadReader(h) \/ LoadRules(h) \/ LoadPrereqs(h) \/ CheckDuplicate(h)
          BY <1>0, <5>1 DEF LoadReader, LoadRules, LoadPrereqs, CheckDuplicate, Goto, Request
        <5>2. CASE CheckPrereq(h)
          BY <1>0, <5>2 DEF CheckPrereq, Request
        <5>3. CASE LockProgram(h) \/ CountSeats(h)
          BY <1>0, <5>3 DEF LockProgram, CountSeats, Request
        <5> QED
          BY <1>2, <3>2, <5>1, <5>2, <5>3 DEF Reads
      <4> QED
        BY <4>1 DEF ScheduleFound
    <3> QED
      BY <3>1, <3>2
  <2> QED
    BY <2>2, <2>3, <2>4, <2>5, <2>6 DEF Found
<1> QED
  BY <1>1, <1>2

(* A commit disturbs the other requests of its reader, and leaves alone    *)
(* what those of other readers look at.                                    *)
LEMMA CommitFound ==
  ASSUME IInv, FoundInv, NEW h \in Requests, CommitEnroll(h) \/ CommitDrop(h),
         NEW k \in Requests, ~req'[k].disturbed
  PROVE  Found(k)'
<1>0. /\ req \in [Requests -> Request] /\ prereqs \in [Programs -> SUBSET Programs]
      /\ enrollment \in [Programs -> [Readers -> RowStatuses]]
  BY DEF IInv, TypeOK
<1>p. PICK p \in Programs, r \in Readers : p = req[h].prog /\ r = req[h].reader
  BY <1>0 DEF Request
<1>1. /\ UNCHANGED programVars /\ Finish(h, r)
      /\ \E e : enrollment' = [enrollment EXCEPT ![p][r] = e]
  BY <1>p DEF CommitEnroll, CommitDrop
<1>2. CASE req'[k].step = "idle"
  BY <1>2, IdleFound
<1>3. CASE req'[k].step # "idle"
  <2>1. k # h
    BY <1>1, <1>3, IdleType DEF Finish
  <2>2. req'[k] = req[k] /\ (req[k].step = "idle" \/ req[k].reader # r)
    BY <1>0, <1>1, <2>1 DEF Finish, Request
  <2>3. req[k].reader # r /\ req[k].reader \in Readers
    BY <1>0, <1>3, <2>2 DEF Request
  <2>4. \A q \in Programs : enrollment'[q][req[k].reader] = enrollment[q][req[k].reader]
    BY <1>0, <1>1, <2>3
  <2>5. Found(k)
    BY <2>2 DEF FoundInv
  <2> QED
    BY <1>0, <1>1, <2>2, <2>4, <2>5, FoundKept
<1> QED
  BY <1>2, <1>3

LEMMA NextFound == ASSUME IInv, FoundInv, [Next]_vars PROVE FoundInv'
<1> SUFFICES ASSUME NEW k \in Requests, ~req'[k].disturbed PROVE Found(k)'
  BY DEF FoundInv
<1>0. req \in [Requests -> Request] /\ prereqs \in [Programs -> SUBSET Programs] /\ TypeOK
  BY DEF IInv, TypeOK
<1>1. ASSUME NEW h \in Requests, Reads(h) \/ LockProgram(h) PROVE Found(k)'
  <2>1. CASE k = h
    BY <1>1, <2>1, OwnFound DEF FoundInv
  <2>2. CASE k # h
    <3>1. req'[k] = req[k] /\ UNCHANGED <<programVars, enrollment>>
      BY <1>0, <1>1, <2>2, ReadType DEF LockProgram, tableVars
    <3> QED
      BY <1>0, <3>1, FoundKept DEF FoundInv
  <2> QED
    BY <2>1, <2>2
<1>2. ASSUME NEW h \in Requests, CommitEnroll(h) \/ CommitDrop(h) PROVE Found(k)'
  BY <1>2, CommitFound
<1>3. ASSUME NEW h \in Requests, Rollback(h) PROVE Found(k)'
  <2>1. CASE k = h
    <3>1. req'[k].step = "idle"
      BY <1>0, <1>3, <2>1, IdleType DEF Rollback
    <3> QED
      BY <3>1, IdleFound
  <2>2. CASE k # h
    <3>1. req'[k] = req[k] /\ UNCHANGED <<programVars, enrollment>>
      BY <1>0, <1>3, <2>2 DEF Rollback, tableVars
    <3> QED
      BY <1>0, <3>1, FoundKept DEF FoundInv
  <2> QED
    BY <2>1, <2>2
<1>4. ASSUME NEW h \in Requests, NEW p \in Programs, NEW r \in Readers, DropLock(h, p, r)
      PROVE  Found(k)'
  <2>1. CASE k = h
    <3>1. req'[k].step = "drop"
      BY <1>0, <1>4, <2>1 DEF DropLock, Idle
    <3> QED
      BY <3>1, IdleFound
  <2>2. CASE k # h
    <3>1. req'[k] = req[k] /\ UNCHANGED <<programVars, enrollment>>
      BY <1>0, <1>4, <2>2 DEF DropLock, tableVars
    <3> QED
      BY <1>0, <3>1, FoundKept DEF FoundInv
  <2> QED
    BY <2>1, <2>2
<1>5. CASE StaffNext
  <2>1. Edit
    BY <1>5 DEF StaffNext, CreateProgram, UpdateProgram, UpdateStatus, AddRule, RemoveRule,
                AddPrereq, RemovePrereq, UpdateReaderStatus, ClockTick
  <2>2. req'[k].step = "idle"
    BY <1>0, <2>1 DEF Edit, Request
  <2> QED
    BY <2>2, IdleFound
<1>6. CASE UNCHANGED vars
  BY <1>0, <1>6, FoundKept DEF FoundInv, vars, tableVars
<1> QED
  BY <1>1, <1>2, <1>3, <1>4, <1>5, <1>6
  DEF Next, RequestNext, EnrollStep, Reads, Refuse, Fail

(* Rules that admit an active reader name it as the properties say. *)
LEMMA MatchIsNamed ==
  ASSUME NEW rule \in Rules, NEW r \in Readers, readerStatus[r] = "active"
  PROVE  RuleMatches(rule, r, "active") <=> Named(rule, r)
BY DEF Rules, RuleMatches, Named

(* Slots that do not overlap share no instant. *)
LEMMA ApartNotBusy ==
  ASSUME slot \in [Programs -> Slots], NEW p \in Programs, NEW q \in Programs,
         ~Overlap(slot[q], slot[p])
  PROVE  Busy(p) \cap Busy(q) = {}
<1>1. /\ slot[p].from \in Nat /\ slot[p].to \in Nat
      /\ slot[q].from \in Nat /\ slot[q].to \in Nat
  BY EnrollmentAssumption
<1> QED
  BY <1>1 DEF Overlap, Busy

(* An enrollment nobody disturbed commits into a published, open program   *)
(* for an active reader with its prerequisites, admitted by the rules and  *)
(* in no other live program at the same instant.                           *)
THEOREM UndisturbedSound == Spec => UndisturbedIsSound
<1> DEFINE Sound == \A h \in Requests : CommitEnroll(h) /\ ~req[h].disturbed =>
             LET p == req[h].prog
                 r == req[h].reader
             IN  /\ Eligible(p, r)
                 /\ \A q \in Programs \ {p} :
                      enrollment[q][r] = "confirmed" /\ status[q] \in {"draft", "published"}
                        => Busy(p) \cap Busy(q) = {}
<1>1. ASSUME IInv, FoundInv, NEW h \in Requests, NEW p \in Programs, NEW r \in Readers,
             p = req[h].prog, r = req[h].reader, CommitEnroll(h), ~req[h].disturbed
      PROVE  /\ Eligible(p, r)
             /\ \A q \in Programs \ {p} :
                  enrollment[q][r] = "confirmed" /\ status[q] \in {"draft", "published"}
                    => Busy(p) \cap Busy(q) = {}
  <2>1. Found(h) /\ req[h].step = "insert"
    BY <1>1 DEF FoundInv, CommitEnroll
  <2>2. /\ status[p] = "published" /\ window[p] = "open"
        /\ readerStatus[r] = "active"
        /\ \A q \in prereqs[p] : enrollment[q][r] = "completed"
        /\ RulesAdmit(p, r, "active")
        /\ Clashes(p, r) = {}
    BY <1>1, <2>1 DEF Found, ProgramFound, ReaderFound, RulesFound, PrereqsFound, ScheduleFound,
                      PastReader, PastRules, InTx
  <2>3. \A rule \in rules[p] : RuleMatches(rule, r, "active") <=> Named(rule, r)
    <3>1. rules[p] \subseteq Rules
      BY <1>1, EnrollmentAssumption DEF IInv, TypeOK
    <3> QED
      BY <2>2, <3>1, MatchIsNamed
  <2>4. Eligible(p, r)
    BY <2>2, <2>3 DEF RulesAdmit, Eligible
  <2>5. ASSUME NEW q \in Programs \ {p}, enrollment[q][r] = "confirmed",
               status[q] \in {"draft", "published"}
        PROVE  Busy(p) \cap Busy(q) = {}
    <3>1. ~Overlap(slot[q], slot[p])
      BY <2>2, <2>5 DEF Clashes
    <3> QED
      BY <1>1, <3>1, ApartNotBusy DEF IInv, TypeOK
  <2> QED
    BY <2>4, <2>5
<1>2. IInv /\ FoundInv => Sound
  <2> SUFFICES ASSUME IInv, FoundInv, NEW h \in Requests, CommitEnroll(h), ~req[h].disturbed
               PROVE  LET p == req[h].prog
                          r == req[h].reader
                      IN  /\ Eligible(p, r)
                          /\ \A q \in Programs \ {p} :
                               enrollment[q][r] = "confirmed" /\ status[q] \in {"draft", "published"}
                                 => Busy(p) \cap Busy(q) = {}
    OBVIOUS
  <2>1. req[h].prog \in Programs /\ req[h].reader \in Readers
    BY DEF IInv, TypeOK, Request
  <2> QED
    BY <1>1, <2>1
<1>3. IInv /\ FoundInv => [Sound]_vars
  BY <1>2
<1>4. IInv /\ FoundInv /\ [Next]_vars => FoundInv'
  BY NextFound
<1>5. Init => FoundInv
  BY InitFound
<1> QED
  BY <1>3, <1>4, <1>5, Invariance, PTL DEF Spec, UndisturbedIsSound

=============================================================================
