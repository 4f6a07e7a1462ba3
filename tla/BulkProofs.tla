---------------------------- MODULE BulkProofs -----------------------------
(***************************************************************************)
(* Proofs about what goes in and out of the database in bulk, for every    *)
(* value of the constants: Imports first, then Reports, which computes     *)
(* aggregates and exports.  The two share no variable.                     *)
(***************************************************************************)
EXTENDS Imports, Reports, FiniteSetTheorems, TLAPS

-----------------------------------------------------------------------------
(* Imports: the inductive invariant.                                       *)

Previewed == {"preview_ready", "committed", "rolled_back"}
Clean(j) == ErrorRows(staged[j].rows) = {}

(* A job has rows in the table only after a preview without errors, and    *)
(* then has each of them equally often.                                    *)
JobFits(j) ==
  /\ status[j] = "absent" => staged[j] = NoFile
  /\ IF status[j] \in Previewed THEN Clean(j) ELSE \A i \in DOMAIN inserted[j] : inserted[j][i] = 0
  /\ \A i, k \in DOMAIN inserted[j] : inserted[j][i] = inserted[j][k]
  /\ status[j] = "committed" => \A i \in DOMAIN inserted[j] : inserted[j][i] > 0
JobInv == \A j \in Jobs : JobFits(j)

(* The request that uploads a job is the only one about it until it has    *)
(* written the result of the preview; all others come later.               *)
About(h, j) == req[h].step # "idle" /\ req[h].job = j
Uploads(h) ==
  \/ req[h].step = "parse"
  \/ req[h].step = "status" /\ req[h].outcome \in {"preview_ready", "failed"}
RequestFits(h) ==
  LET j == req[h].job IN
  /\ Uploads(h) =>
       /\ status[j] = "previewing"
       /\ \A k \in Requests \ {h} : ~About(k, j)
       /\ req[h].step = "parse" => staged[j] = NoFile
       /\ req[h].step = "status" /\ req[h].outcome = "preview_ready" => Clean(j)
  /\ req[h].step # "idle" /\ ~Uploads(h) => status[j] \in Previewed
  /\ req[h].step = "status" =>
       /\ req[h].outcome \in {"preview_ready", "failed", "committed", "rolled_back"}
       /\ req[h].outcome = "committed" => \A i \in DOMAIN inserted[j] : inserted[j][i] > 0
  /\ req[h].step = "load" => req[h].at = 0 /\ req[h].done = {}
  /\ req[h].step = "insert" =>
       req[h].at <= Len(staged[j].rows) /\ req[h].done \subseteq 1 .. req[h].at
RequestInv == \A h \in Requests : RequestFits(h)

(* A key is in the table or held by one open transaction, never both.      *)
KeyInv ==
  \A h \in Requests :
    /\ OpenKeys(h) \cap TableKeys = {}
    /\ \A k \in Requests \ {h} : OpenKeys(h) \cap OpenKeys(k) = {}

(* The rows that hold a reader number are in the table once.               *)
Holds(j, i, key) ==
  i \in InTable(j) /\ staged[j].type = "readers" /\ KeyAt(j, i) = key /\ key # NoKey
OnceInv ==
  \A j, k \in Jobs : \A i, m, key :
    Holds(j, i, key) /\ Holds(k, m, key) => j = k /\ i = m /\ inserted[j][i] = 1

IInv == TypeOK /\ JobInv /\ RequestInv /\ KeyInv /\ OnceInv

-----------------------------------------------------------------------------
(* The operators of the model.                                             *)

LEMMA FileType ==
  ASSUME TypeOK, NEW j \in Jobs
  PROVE  /\ staged[j].type \in {"readers", "holdings"} /\ staged[j].rows \in Seq(Rows)
         /\ DOMAIN staged[j].rows = 1 .. Len(staged[j].rows) /\ Len(staged[j].rows) \in Nat
         /\ DOMAIN inserted[j] = 1 .. Len(staged[j].rows)
         /\ \A i \in DOMAIN inserted[j] : inserted[j][i] \in Nat
<1>1. staged[j] \in [type : {"readers", "holdings"}, wellFormed : BOOLEAN, rows : Seq(Rows)]
  <2>1. NoFile \in [type : {"readers", "holdings"}, wellFormed : BOOLEAN, rows : Seq(Rows)]
    BY DEF NoFile
  <2> QED
    BY <2>1, ImportsAssumption DEF TypeOK
<1>2. staged[j].type \in {"readers", "holdings"} /\ staged[j].rows \in Seq(Rows)
  BY <1>1
<1> QED
  BY <1>2 DEF TypeOK

LEMMA RequestType ==
  ASSUME TypeOK, NEW h \in Requests
  PROVE  /\ req[h] \in Request /\ req[h].job \in Jobs /\ req[h].at \in Nat
         /\ req[h].done \subseteq Nat /\ req[h].step \in Steps
BY DEF TypeOK, Request

(* The reader numbers in the table are those it had and those of rows that *)
(* an import has inserted.                                                 *)
KeysFromRows ==
  \A key : key \in TableKeys <=> key \in Known \/ \E j \in Jobs : \E i : Holds(j, i, key)

LEMMA TableKey == KeysFromRows
<1>1. ASSUME NEW key, NEW j \in Jobs
      PROVE  key \in UniqueKeys(staged[j], {i \in DOMAIN inserted[j] : inserted[j][i] > 0})
               <=> \E i : Holds(j, i, key)
  <2>1. CASE staged[j].type = "readers"
    BY <2>1 DEF UniqueKeys, Holds, InTable, KeyAt
  <2>2. CASE staged[j].type # "readers"
    BY <2>2 DEF UniqueKeys, Holds
  <2> QED
    BY <2>1, <2>2
<1> QED
  BY <1>1 DEF KeysFromRows, TableKeys

(* The keys of an open transaction are those of the rows it has inserted.  *)
Inserts(h, i, key) ==
  /\ req[h].step = "insert" /\ CommitErrors(h) = {} /\ i \in req[h].done
  /\ staged[req[h].job].type = "readers" /\ KeyAt(req[h].job, i) = key /\ key # NoKey

LEMMA OpenKey ==
  ASSUME NEW h \in Requests, NEW key
  PROVE  key \in OpenKeys(h) <=> \E i : Inserts(h, i, key)
<1>1. CASE req[h].step = "insert" /\ CommitErrors(h) = {} /\ staged[req[h].job].type = "readers"
  BY <1>1 DEF OpenKeys, UniqueKeys, Inserts, KeyAt
<1>2. CASE ~(req[h].step = "insert" /\ CommitErrors(h) = {} /\ staged[req[h].job].type = "readers")
  BY <1>2 DEF OpenKeys, UniqueKeys, Inserts
<1> QED
  BY <1>1, <1>2

(* In a file without errors every row is valid and no key comes twice.     *)
LEMMA CleanRows ==
  ASSUME TypeOK, NEW j \in Jobs, Clean(j)
  PROVE  /\ \A i \in DOMAIN staged[j].rows : staged[j].rows[i].ok
         /\ \A i, k \in DOMAIN staged[j].rows :
              i # k /\ KeyAt(j, i) = KeyAt(j, k) => KeyAt(j, i) = NoKey
<1> DEFINE file == staged[j].rows
<1>1. DOMAIN file = 1 .. Len(file) /\ Len(file) \in Nat
  BY FileType
<1>2. \A i \in DOMAIN file :
        /\ file[i].ok
        /\ \A k \in 1 .. (i - 1) : ~(file[k].ok /\ file[k].key = file[i].key /\ file[i].key # NoKey)
  BY DEF Clean, ErrorRows
<1>3. ASSUME NEW i \in DOMAIN file, NEW k \in DOMAIN file, k < i, file[i].key = file[k].key
      PROVE  file[i].key = NoKey
  <2>1. k \in 1 .. (i - 1) /\ file[k].ok
    BY <1>1, <1>2, <1>3
  <2> QED
    BY <1>2, <1>3, <2>1
<1>4. \A i, k \in DOMAIN file : i # k => i < k \/ k < i
  BY <1>1
<1> QED
  BY <1>2, <1>3, <1>4 DEF KeyAt

LEMMA IdleType == Idle \in Request /\ Idle.step = "idle"
BY ImportsAssumption DEF Idle, Request, Steps, Statuses

LEMMA InitInv == Init => IInv
<1> SUFFICES ASSUME Init PROVE IInv
  OBVIOUS
<1>1. \A h \in Requests : req[h] = Idle
  BY DEF Init
<1>2. \A j \in Jobs : /\ status[j] = "absent" /\ staged[j] = NoFile
                      /\ inserted[j] = <<>> /\ DOMAIN inserted[j] = {}
  BY DEF Init
<1>3. DOMAIN NoFile.rows = {}
  BY DEF NoFile
<1>4. TypeOK
  BY <1>1, <1>2, <1>3, IdleType DEF Init, TypeOK, Statuses
<1>5. JobInv
  BY <1>2 DEF JobInv, JobFits, Previewed
<1>6. RequestInv
  BY <1>1, IdleType DEF RequestInv, RequestFits, Uploads
<1>7. KeyInv
  <2>1. \A h \in Requests : OpenKeys(h) = {}
    BY <1>1, IdleType DEF OpenKeys
  <2> QED
    BY <2>1 DEF KeyInv
<1>8. OnceInv
  BY <1>2 DEF OnceInv, Holds, InTable
<1> QED
  BY <1>4, <1>5, <1>6, <1>7, <1>8 DEF IInv

-----------------------------------------------------------------------------
(* The steps of a request that change neither a job nor the table.         *)

LEMMA OwnStepInv ==
  ASSUME IInv, NEW h \in Requests, NEW r \in Request, req' = [req EXCEPT ![h] = r],
         UNCHANGED <<status, errors, staged, inserted>>,
         r.step # "idle" => status[r.job] \in Previewed,
         RequestFits(h)',
         \A key \in OpenKeys(h)' :
           key \notin TableKeys /\ \A k \in Requests \ {h} : key \notin OpenKeys(k)
  PROVE  IInv'
<1> USE DEF IInv
<1>1. req'[h] = r /\ (\A k \in Requests \ {h} : req'[k] = req[k]) /\ TypeOK'
  BY DEF TypeOK
<1>2. JobInv' /\ OnceInv'
  BY DEF JobInv, JobFits, Clean, OnceInv, Holds, InTable, KeyAt
<1>3. ASSUME NEW k \in Requests \ {h} PROVE RequestFits(k)'
  <2>1. \A g \in Requests \ {h}, j \in Jobs : About(g, j)' = About(g, j)
    BY <1>1 DEF About
  <2>2. Uploads(k) => ~About(h, req[k].job)'
    BY <1>1 DEF RequestInv, RequestFits, About, Previewed
  <2>3. RequestFits(k) /\ req[k].job \in Jobs
    BY RequestType DEF RequestInv
  <2> QED
    BY <1>1, <2>1, <2>2, <2>3 DEF RequestFits, Uploads, Clean
<1>4. KeyInv'
  <2>1. \A k \in Requests \ {h} : OpenKeys(k)' = OpenKeys(k)
    BY <1>1 DEF OpenKeys, CommitErrors, UniqueKeys
  <2>2. TableKeys' = TableKeys
    BY DEF TableKeys, UniqueKeys
  <2> QED
    BY <2>1, <2>2 DEF KeyInv
<1> QED
  BY <1>1, <1>2, <1>3, <1>4 DEF RequestInv

(* A step after which the request holds no key. *)
LEMMA KeylessStepInv ==
  ASSUME IInv, NEW h \in Requests, NEW r \in Request, req' = [req EXCEPT ![h] = r],
         UNCHANGED <<status, errors, staged, inserted>>,
         r.step # "idle" => status[r.job] \in Previewed,
         RequestFits(h)', r.step # "insert" \/ r.done = {}
  PROVE  IInv'
<1>1. req'[h] = r
  BY DEF IInv, TypeOK
<1>2. OpenKeys(h)' = {}
  BY <1>1 DEF OpenKeys, UniqueKeys
<1> QED
  BY <1>2, OwnStepInv

LEMMA BeginInv ==
  ASSUME IInv, NEW h \in Requests, NEW j \in Jobs, BeginCommit(h, j) \/ BeginRollback(h, j)
  PROVE  IInv'
<1>1. CASE BeginCommit(h, j)
  <2> DEFINE r == [Idle EXCEPT !.step = "load", !.job = j]
  <2>1. r \in Request /\ r.step = "load" /\ r.job = j /\ r.at = 0 /\ r.done = {}
    BY IdleType DEF Request, Steps, Idle
  <2>2. /\ req' = [req EXCEPT ![h] = r] /\ UNCHANGED <<status, errors, staged, inserted>>
        /\ status[j] \in Previewed
    BY <1>1 DEF BeginCommit, Committable, Previewed
  <2> HIDE DEF r
  <2>3. RequestFits(h)'
    BY <2>1, <2>2 DEF IInv, TypeOK, RequestFits, Uploads
  <2> QED
    BY <2>1, <2>2, <2>3, KeylessStepInv
<1>2. CASE BeginRollback(h, j)
  <2> DEFINE r == [Idle EXCEPT !.step = "status", !.job = j, !.outcome = "rolled_back", !.faulty = errors[j]]
  <2>1. r \in Request /\ r.step = "status" /\ r.job = j /\ r.outcome = "rolled_back"
    BY IdleType DEF Request, Steps, Statuses, IInv, TypeOK
  <2>2. /\ req' = [req EXCEPT ![h] = r] /\ UNCHANGED <<status, errors, staged, inserted>>
        /\ status[j] \in Previewed
    BY <1>2 DEF BeginRollback, Previewed
  <2> HIDE DEF r
  <2>3. RequestFits(h)'
    BY <2>1, <2>2 DEF IInv, TypeOK, RequestFits, Uploads
  <2> QED
    BY <2>1, <2>2, <2>3, KeylessStepInv
<1> QED
  BY <1>1, <1>2

LEMMA LoadInv ==
  ASSUME IInv, NEW h \in Requests, LoadRows(h)
  PROVE  IInv'
<1> DEFINE r == [req[h] EXCEPT !.step = "insert"]
<1>1. /\ req \in [Requests -> Request] /\ req[h] \in Request /\ RequestFits(h) /\ TypeOK
      /\ req[h].job \in Jobs /\ req[h].step = "load"
  BY RequestType DEF IInv, TypeOK, RequestInv, LoadRows
<1>2. /\ r \in Request /\ r.step = "insert" /\ r.job = req[h].job
      /\ r.at = req[h].at /\ r.done = req[h].done
  BY <1>1 DEF Request, Steps
<1>3. req' = [req EXCEPT ![h] = r] /\ UNCHANGED <<status, errors, staged, inserted>>
  BY <1>1 DEF LoadRows
<1> HIDE DEF r
<1>4. r.at = 0 /\ r.done = {} /\ status[r.job] \in Previewed
  BY <1>1, <1>2 DEF RequestFits, Uploads
<1>5. Len(staged[r.job].rows) \in Nat
  BY <1>1, <1>2, FileType
<1>6. RequestFits(h)'
  BY <1>1, <1>2, <1>3, <1>4, <1>5 DEF RequestFits, Uploads
<1> QED
  BY <1>2, <1>3, <1>4, <1>6, KeylessStepInv

(* A request about to report the end of a commit that inserted nothing, or *)
(* one that is over.                                                       *)
LEMMA ReportInv ==
  ASSUME IInv, NEW h \in Requests, req[h].step = "insert",
         Report(h, "rolled_back", TRUE), UNCHANGED <<status, errors, staged, inserted>>
  PROVE  IInv'
<1> DEFINE r == [req[h] EXCEPT !.step = "status", !.outcome = "rolled_back", !.faulty = TRUE]
<1>1. /\ req \in [Requests -> Request] /\ req[h] \in Request /\ RequestFits(h)
  BY DEF IInv, TypeOK, RequestInv
<1>2. r \in Request /\ r.step = "status" /\ r.job = req[h].job /\ r.outcome = "rolled_back"
  BY <1>1 DEF Request, Steps, Statuses
<1>3. req' = [req EXCEPT ![h] = r]
  BY <1>1 DEF Report
<1> HIDE DEF r
<1>4. status[r.job] \in Previewed
  BY <1>1, <1>2 DEF RequestFits, Uploads
<1>5. RequestFits(h)'
  BY <1>1, <1>2, <1>3, <1>4 DEF RequestFits, Uploads
<1> QED
  BY <1>2, <1>3, <1>4, <1>5, KeylessStepInv

LEMMA FailInv ==
  ASSUME IInv, NEW h \in Requests, Fail(h)
  PROVE  IInv'
<1>1. req' = [req EXCEPT ![h] = Idle] /\ UNCHANGED <<status, errors, staged, inserted>>
  BY DEF Fail
<1>2. RequestFits(h)'
  BY <1>1, IdleType DEF IInv, TypeOK, RequestFits, Uploads
<1> QED
  BY <1>1, <1>2, IdleType, KeylessStepInv

(* A row that is refused: after it the transaction is aborted, its keys    *)
(* are free. *)
LEMMA InsertFailsInv ==
  ASSUME IInv, NEW h \in Requests, InsertFails(h)
  PROVE  IInv'
<1> DEFINE r == [req[h] EXCEPT !.at = req[h].at + 1]
<1>1. /\ req \in [Requests -> Request] /\ req[h] \in Request /\ RequestFits(h) /\ TypeOK
      /\ req[h].job \in Jobs /\ req[h].step = "insert" /\ req[h].at \in Nat
      /\ req[h].at < Len(staged[req[h].job].rows)
  BY RequestType DEF IInv, TypeOK, RequestInv, InsertFails
<1>2. /\ r \in Request /\ r.step = "insert" /\ r.job = req[h].job
      /\ r.at = req[h].at + 1 /\ r.done = req[h].done
  BY <1>1 DEF Request
<1>3. req' = [req EXCEPT ![h] = r] /\ UNCHANGED <<status, errors, staged, inserted>>
  BY <1>1 DEF InsertFails
<1> HIDE DEF r
<1>4. status[r.job] \in Previewed /\ r.done \subseteq 1 .. req[h].at
  BY <1>1, <1>2 DEF RequestFits, Uploads
<1>5. Len(staged[r.job].rows) \in Nat
  BY <1>1, <1>2, FileType
<1>6. RequestFits(h)'
  <2>1. r.done \subseteq 1 .. r.at /\ r.at <= Len(staged[r.job].rows)
    BY <1>1, <1>2, <1>4, <1>5
  <2> QED
    BY <1>1, <1>2, <1>3, <1>4, <2>1 DEF RequestFits, Uploads
<1>7. OpenKeys(h)' = {}
  <2>1. r.at \in 1 .. r.at \ r.done
    BY <1>1, <1>2, <1>4
  <2>2. CommitErrors(h)' # {}
    BY <1>1, <1>3, <2>1 DEF CommitErrors
  <2> QED
    BY <2>2 DEF OpenKeys
<1> QED
  BY <1>2, <1>3, <1>4, <1>6, <1>7, OwnStepInv

(* A row that is inserted: its key was in the table and in the hands of    *)
(* another transaction nowhere. *)
LEMMA InsertRowInv ==
  ASSUME IInv, NEW h \in Requests, InsertRow(h)
  PROVE  IInv'
<1> DEFINE next == req[h].at + 1
           r == [req[h] EXCEPT !.at = next, !.done = req[h].done \cup {next}]
<1>1. /\ req \in [Requests -> Request] /\ req[h] \in Request /\ RequestFits(h) /\ TypeOK
      /\ req[h].job \in Jobs /\ req[h].step = "insert" /\ req[h].at \in Nat
      /\ req[h].done \subseteq Nat
      /\ next \in DOMAIN staged[req[h].job].rows /\ CommitErrors(h) = {}
      /\ \A key \in UniqueKeys(staged[req[h].job], {next}) : KeyFree(h, key)
  BY RequestType DEF IInv, TypeOK, RequestInv, InsertRow
<1>2. /\ r \in Request /\ r.step = "insert" /\ r.job = req[h].job
      /\ r.at = next /\ r.done = req[h].done \cup {next}
  <2>1. next \in Nat /\ req[h].done \cup {next} \in SUBSET Nat
    BY <1>1
  <2> HIDE DEF next
  <2>2. r \in Request
    BY <1>1, <2>1 DEF Request
  <2> QED
    BY <1>1, <2>2 DEF Request
<1>3. req' = [req EXCEPT ![h] = r] /\ UNCHANGED <<status, errors, staged, inserted>>
  BY <1>1 DEF InsertRow
<1>4. next \in Nat /\ next = req[h].at + 1
  BY <1>1
<1> HIDE DEF r, next
<1>5. status[r.job] \in Previewed /\ req[h].done \subseteq 1 .. req[h].at
  BY <1>1, <1>2 DEF RequestFits, Uploads
<1>6. RequestFits(h)'
  <2>1. r.at <= Len(staged[r.job].rows)
    BY <1>1, <1>2, FileType
  <2>2. r.done \subseteq 1 .. r.at
    BY <1>1, <1>2, <1>4, <1>5
  <2> QED
    BY <1>1, <1>2, <1>3, <1>5, <2>1, <2>2 DEF RequestFits, Uploads
<1>7. ASSUME NEW key \in OpenKeys(h)'
      PROVE  key \notin TableKeys /\ \A k \in Requests \ {h} : key \notin OpenKeys(k)
  <2>1. OpenKeys(h)' \subseteq UniqueKeys(staged[r.job], r.done)
    BY <1>1, <1>3 DEF OpenKeys, UniqueKeys
  <2>2. CASE key \in UniqueKeys(staged[r.job], {next})
    BY <1>1, <1>2, <2>2 DEF KeyFree
  <2>3. CASE key \in UniqueKeys(staged[r.job], req[h].done)
    BY <1>1, <1>2, <2>3 DEF IInv, KeyInv, OpenKeys
  <2>4. key \in UniqueKeys(staged[r.job], {next}) \cup UniqueKeys(staged[r.job], req[h].done)
    BY <1>2, <2>1 DEF UniqueKeys
  <2> QED
    BY <2>2, <2>3, <2>4
<1> QED
  BY <1>2, <1>3, <1>5, <1>6, <1>7, OwnStepInv

-----------------------------------------------------------------------------
(* The steps that change a job or the table.                               *)

(* A request that is not about a job keeps its keys and its fit when only  *)
(* that job changes. *)
LEMMA OtherJobs ==
  ASSUME IInv, NEW h \in Requests, NEW j \in Jobs, NEW k \in Requests \ {h},
         req'[k] = req[k], ~About(k, j),
         \A i \in Jobs \ {j} :
           status'[i] = status[i] /\ staged'[i] = staged[i] /\ inserted'[i] = inserted[i],
         \A g \in Requests \ {h} : req'[g] = req[g],
         About(h, j)' \/ ~ (\E i \in Jobs : About(h, i)')
  PROVE  RequestFits(k)' /\ OpenKeys(k)' = OpenKeys(k)
<1>1. req[k].job \in Jobs /\ RequestFits(k)
  BY RequestType DEF IInv, RequestInv
<1>2. CASE req[k].step = "idle"
  BY <1>2 DEF RequestFits, Uploads, OpenKeys
<1>3. CASE req[k].step # "idle"
  <2>1. req[k].job \in Jobs \ {j}
    BY <1>1, <1>3 DEF About
  <2>2. ~About(h, req[k].job)'
    BY <2>1 DEF About
  <2>3. \A g \in Requests \ {h} : About(g, req[k].job)' = About(g, req[k].job)
    BY DEF About
  <2>4. RequestFits(k)'
    BY <1>1, <2>1, <2>2, <2>3 DEF RequestFits, Uploads, Clean
  <2>5. OpenKeys(k)' = OpenKeys(k)
    <3>1. staged'[req'[k].job] = staged[req[k].job] /\ CommitErrors(k)' = CommitErrors(k)
      BY <2>1 DEF CommitErrors
    <3> QED
      BY <3>1 DEF OpenKeys, UniqueKeys
  <2> QED
    BY <2>4, <2>5
<1> QED
  BY <1>2, <1>3

LEMMA UploadInv ==
  ASSUME IInv, NEW h \in Requests, NEW j \in Jobs, NEW f \in Files, BeginUpload(h, j, f)
  PROVE  IInv'
<1> USE DEF IInv
<1> DEFINE r == [Idle EXCEPT !.step = "parse", !.job = j, !.file = f]
<1>1. r \in Request /\ r.step = "parse" /\ r.job = j
  BY IdleType DEF Request, Steps
<1>2. /\ status[j] = "absent" /\ status' = [status EXCEPT ![j] = "previewing"]
      /\ req' = [req EXCEPT ![h] = r] /\ UNCHANGED <<errors, staged, inserted>>
  BY DEF BeginUpload
<1> HIDE DEF r
<1>3. /\ req'[h] = r /\ \A k \in Requests \ {h} : req'[k] = req[k]
      /\ status'[j] = "previewing" /\ \A i \in Jobs \ {j} : status'[i] = status[i]
  BY <1>2 DEF TypeOK
<1>4. TypeOK'
  BY <1>1, <1>2 DEF TypeOK, Statuses
<1>5. \A k \in Requests : ~About(k, j)
  BY <1>2 DEF RequestInv, RequestFits, About, Previewed
<1>6. staged[j] = NoFile /\ DOMAIN inserted[j] = {}
  BY <1>2 DEF JobInv, JobFits, TypeOK, NoFile
<1>7. JobInv'
  BY <1>2, <1>3, <1>6 DEF JobInv, JobFits, Clean, Previewed
<1>8. \A k \in Requests \ {h} : RequestFits(k)' /\ OpenKeys(k)' = OpenKeys(k)
  <2>1. About(h, j)'
    BY <1>1, <1>3 DEF About
  <2> QED
    BY <1>2, <1>3, <1>5, <2>1, OtherJobs
<1>9. RequestFits(h)' /\ OpenKeys(h)' = {}
  BY <1>1, <1>2, <1>3, <1>5, <1>6 DEF RequestFits, Uploads, About, OpenKeys
<1>10. KeyInv'
  <2>1. TableKeys' = TableKeys
    BY <1>2 DEF TableKeys, UniqueKeys
  <2> QED
    BY <1>8, <1>9, <2>1 DEF KeyInv
<1>11. OnceInv'
  BY <1>2 DEF OnceInv, Holds, InTable, KeyAt
<1> QED
  BY <1>4, <1>7, <1>8, <1>9, <1>10, <1>11 DEF RequestInv

(* The rows of an upload come to a job that has none, and none is in the   *)
(* table yet. *)
LEMMA StageInv ==
  ASSUME IInv, NEW h \in Requests, Stage(h)
  PROVE  IInv'
<1> USE DEF IInv
<1>1. PICK j \in Jobs, f \in Files \cup {NoFile}, outcome \in {"preview_ready", "failed"}, faulty \in BOOLEAN :
        /\ j = req[h].job /\ req[h].step = "parse"
        /\ \/ /\ staged' = [staged EXCEPT ![j] = f]
              /\ inserted' = [inserted EXCEPT ![j] = [i \in DOMAIN f.rows |-> 0]]
              /\ outcome = "preview_ready" => ErrorRows(f.rows) = {}
           \/ UNCHANGED <<staged, inserted>> /\ outcome = "failed"
        /\ Report(h, outcome, faulty) /\ UNCHANGED <<status, errors>>
  <2>1. req[h].job \in Jobs /\ req[h].file \in Files \cup {NoFile}
    BY DEF TypeOK, Request
  <2> QED
    BY <2>1 DEF Stage
<1> DEFINE r == [req[h] EXCEPT !.step = "status", !.outcome = outcome, !.faulty = faulty]
<1>2. /\ req \in [Requests -> Request] /\ req[h] \in Request /\ RequestFits(h)
  BY DEF TypeOK, RequestInv
<1>3. r \in Request /\ r.step = "status" /\ r.job = j /\ r.outcome = outcome
  BY <1>1, <1>2 DEF Request, Steps, Statuses
<1>4. req' = [req EXCEPT ![h] = r]
  BY <1>1, <1>2 DEF Report
<1> HIDE DEF r
<1>5. req'[h] = r /\ \A k \in Requests \ {h} : req'[k] = req[k]
  BY <1>2, <1>4
<1>6. status[j] = "previewing" /\ staged[j] = NoFile /\ \A k \in Requests \ {h} : ~About(k, j)
  BY <1>1, <1>2 DEF RequestFits, Uploads
<1>7. DOMAIN inserted[j] = {}
  BY <1>6 DEF TypeOK, NoFile
<1>8. \A i \in Jobs \ {j} : staged'[i] = staged[i] /\ inserted'[i] = inserted[i]
  BY <1>1 DEF TypeOK
<1>9. /\ outcome = "preview_ready" => Clean(j)'
      /\ \A i \in DOMAIN inserted'[j] : inserted'[j][i] = 0
      /\ staged'[j] \in Files \cup {NoFile} /\ inserted'[j] \in [DOMAIN staged'[j].rows -> Nat]
      /\ DOMAIN inserted' = Jobs /\ staged' \in [Jobs -> Files \cup {NoFile}]
  <2>1. CASE /\ staged' = [staged EXCEPT ![j] = f]
             /\ inserted' = [inserted EXCEPT ![j] = [i \in DOMAIN f.rows |-> 0]]
             /\ outcome = "preview_ready" => ErrorRows(f.rows) = {}
    <3>1. staged'[j] = f /\ inserted'[j] = [i \in DOMAIN f.rows |-> 0]
      BY <2>1 DEF TypeOK
    <3> QED
      BY <2>1, <3>1 DEF TypeOK, Clean
  <2>2. CASE UNCHANGED <<staged, inserted>> /\ outcome = "failed"
    BY <1>7, <2>2 DEF TypeOK
  <2> QED
    BY <1>1, <2>1, <2>2
<1>10. TypeOK'
  BY <1>1, <1>3, <1>4, <1>8, <1>9 DEF TypeOK
<1>11. JobInv'
  <2>1. JobFits(j)'
    BY <1>1, <1>6, <1>9 DEF JobFits, Previewed
  <2>2. \A i \in Jobs \ {j} : JobFits(i)'
    BY <1>1, <1>8 DEF JobInv, JobFits, Clean
  <2> QED
    BY <2>1, <2>2 DEF JobInv
<1>12. \A k \in Requests \ {h} : RequestFits(k)' /\ OpenKeys(k)' = OpenKeys(k)
  <2>1. About(h, j)'
    BY <1>3, <1>5 DEF About
  <2> QED
    BY <1>1, <1>5, <1>6, <1>8, <2>1, OtherJobs
<1>13. RequestFits(h)' /\ OpenKeys(h)' = {}
  BY <1>1, <1>3, <1>5, <1>6, <1>9 DEF RequestFits, Uploads, About, OpenKeys
<1>14. \A i \in Jobs : \A m, key : Holds(i, m, key)' <=> Holds(i, m, key)
  <2>1. \A m, key : ~Holds(j, m, key) /\ ~Holds(j, m, key)'
    BY <1>7, <1>9 DEF Holds, InTable
  <2>2. \A i \in Jobs \ {j} : \A m, key : Holds(i, m, key)' <=> Holds(i, m, key)
    BY <1>8 DEF Holds, InTable, KeyAt
  <2> QED
    BY <2>1, <2>2
<1>15. KeyInv'
  <2>1. \A key : key \in TableKeys' <=> key \in TableKeys
    <3>1. KeysFromRows /\ KeysFromRows'
      BY TableKey, PTL
    <3> QED
      BY <1>14, <3>1 DEF KeysFromRows
  <2> QED
    BY <1>12, <1>13, <2>1 DEF KeyInv
<1>16. OnceInv'
  <2>1. \A m, key : ~Holds(j, m, key)'
    BY <1>9 DEF Holds, InTable
  <2> QED
    BY <1>8, <1>14, <2>1 DEF OnceInv
<1> QED
  BY <1>10, <1>11, <1>12, <1>13, <1>15, <1>16 DEF RequestInv

(* A status written late finds the job previewed, whatever was written     *)
(* meanwhile; the one of the upload finds it as the upload left it.        *)
LEMMA WriteStatusInv ==
  ASSUME IInv, NEW h \in Requests, WriteStatus(h)
  PROVE  IInv'
<1> USE DEF IInv
<1>1. PICK j \in Jobs, outcome \in Statuses :
        /\ j = req[h].job /\ outcome = req[h].outcome /\ req[h].step = "status"
        /\ status' = [status EXCEPT ![j] = outcome]
        /\ errors' = [errors EXCEPT ![j] = req[h].faulty]
        /\ req' = [req EXCEPT ![h] = Idle] /\ UNCHANGED <<staged, inserted>>
  <2>1. req[h].job \in Jobs /\ req[h].outcome \in Statuses
    BY DEF TypeOK, Request
  <2> QED
    BY <2>1 DEF WriteStatus
<1>2. RequestFits(h) /\ JobFits(j)
  BY DEF RequestInv, JobInv
<1>3. /\ req'[h] = Idle /\ \A k \in Requests \ {h} : req'[k] = req[k]
      /\ status'[j] = outcome /\ \A i \in Jobs \ {j} : status'[i] = status[i]
  BY <1>1 DEF TypeOK
<1>4. TypeOK'
  <2>1. req[h].faulty \in BOOLEAN
    BY DEF TypeOK, Request
  <2>2. errors' \in [Jobs -> BOOLEAN]
    BY <1>1, <2>1 DEF TypeOK
  <2> QED
    BY <1>1, <2>2, IdleType DEF TypeOK
<1>5. JobFits(j)'
  <2>1. CASE Uploads(h)
    <3>1. /\ status[j] = "previewing" /\ outcome \in {"preview_ready", "failed"}
          /\ outcome = "preview_ready" => Clean(j)
      BY <1>1, <1>2, <2>1 DEF RequestFits, Uploads
    <3> QED
      BY <1>1, <1>2, <1>3, <3>1 DEF JobFits, Previewed, Clean
  <2>2. CASE ~Uploads(h)
    <3>1. /\ status[j] \in Previewed /\ outcome \in {"committed", "rolled_back"}
          /\ outcome = "committed" => \A i \in DOMAIN inserted[j] : inserted[j][i] > 0
      BY <1>1, <1>2, <2>2 DEF RequestFits, Uploads
    <3> QED
      BY <1>1, <1>2, <1>3, <3>1 DEF JobFits, Previewed, Clean
  <2> QED
    BY <2>1, <2>2
<1>6. JobInv'
  <2>1. \A i \in Jobs \ {j} : JobFits(i)'
    BY <1>1, <1>3 DEF JobInv, JobFits, Clean
  <2> QED
    BY <1>5, <2>1 DEF JobInv
<1>7. ASSUME NEW k \in Requests \ {h} PROVE RequestFits(k)' /\ OpenKeys(k)' = OpenKeys(k)
  <2>1. CASE ~About(k, j)
    <3>1. ~About(h, j)' /\ ~ (\E i \in Jobs : About(h, i)')
      BY <1>3, IdleType DEF About
    <3> QED
      BY <1>1, <1>3, <2>1, <3>1, OtherJobs
  <2>2. CASE About(k, j)
    <3>1. ~Uploads(h)
      BY <1>1, <1>2, <2>2 DEF RequestFits
    <3>2. status[j] \in Previewed /\ outcome \in Previewed
      BY <1>1, <1>2, <3>1 DEF RequestFits, Uploads, Previewed
    <3>3. RequestFits(k) /\ ~Uploads(k)
      BY <2>2, <3>2 DEF RequestInv, RequestFits, About, Previewed
    <3>4. RequestFits(k)'
      BY <1>1, <1>3, <2>2, <3>2, <3>3 DEF RequestFits, Uploads, About
    <3>5. OpenKeys(k)' = OpenKeys(k)
      BY <1>1, <1>3 DEF OpenKeys, CommitErrors, UniqueKeys
    <3> QED
      BY <3>4, <3>5
  <2> QED
    BY <2>1, <2>2
<1>8. RequestFits(h)' /\ OpenKeys(h)' = {}
  BY <1>3, IdleType DEF RequestFits, Uploads, OpenKeys
<1>9. KeyInv'
  <2>1. TableKeys' = TableKeys
    BY <1>1 DEF TableKeys, UniqueKeys
  <2> QED
    BY <1>7, <1>8, <2>1 DEF KeyInv
<1>10. OnceInv'
  BY <1>1 DEF OnceInv, Holds, InTable, KeyAt
<1> QED
  BY <1>4, <1>6, <1>7, <1>8, <1>9, <1>10 DEF RequestInv

(* The rows of a transaction come to the table, all of them and with keys  *)
(* that were not there: none of its job was, if its rows have keys.        *)
LEMMA RowsInv ==
  ASSUME IInv, NEW h \in Requests, AllTried(h), CommitErrors(h) = {},
         NEW outcome \in {"committed", "rolled_back"}, NEW faulty \in BOOLEAN,
         inserted' = WithRows(h), Report(h, outcome, faulty), UNCHANGED <<status, errors, staged>>
  PROVE  IInv'
<1> USE DEF IInv
<1>0. PICK j \in Jobs : j = req[h].job
  BY DEF TypeOK, Request
<1> DEFINE r == [req[h] EXCEPT !.step = "status", !.outcome = outcome, !.faulty = faulty]
<1>1. /\ req \in [Requests -> Request] /\ req[h] \in Request /\ RequestFits(h) /\ JobFits(j)
      /\ j \in Jobs /\ req[h].step = "insert" /\ req[h].at = Len(staged[j].rows)
      /\ status[j] \in Previewed /\ Clean(j)
  BY <1>0 DEF TypeOK, Request, RequestInv, JobInv, AllTried, RequestFits, JobFits, Uploads
<1>2. r \in Request /\ r.step = "status" /\ r.job = j /\ r.outcome = outcome
  BY <1>0, <1>1 DEF Request, Steps, Statuses
<1>3. req' = [req EXCEPT ![h] = r]
  BY <1>1 DEF Report
<1> HIDE DEF r
<1>4. req'[h] = r /\ \A k \in Requests \ {h} : req'[k] = req[k]
  BY <1>1, <1>3
<1>5. DOMAIN inserted[j] = 1 .. Len(staged[j].rows) /\ \A i \in DOMAIN inserted[j] : inserted[j][i] \in Nat
  BY <1>1, FileType
<1>6. req[h].done = 1 .. Len(staged[j].rows)
  BY <1>0, <1>1 DEF RequestFits, CommitErrors
<1>7. /\ inserted'[j] = [i \in DOMAIN inserted[j] |-> inserted[j][i] + 1]
      /\ \A i \in Jobs \ {j} : inserted'[i] = inserted[i]
      /\ DOMAIN inserted' = Jobs
  BY <1>0, <1>1, <1>5, <1>6 DEF WithRows, TypeOK
<1>8. TypeOK'
  <2>1. inserted[j] \in [DOMAIN staged[j].rows -> Nat]
    BY <1>1 DEF TypeOK
  <2>2. inserted'[j] \in [DOMAIN staged[j].rows -> Nat]
    BY <1>5, <1>7, <2>1
  <2>3. \A i \in Jobs : inserted'[i] \in [DOMAIN staged[i].rows -> Nat]
    BY <1>7, <2>2 DEF TypeOK
  <2> QED
    BY <1>2, <1>3, <1>7, <2>3 DEF TypeOK
<1>9. \A i \in Jobs : \A m \in DOMAIN inserted[i] :
        /\ DOMAIN inserted'[i] = DOMAIN inserted[i]
        /\ inserted'[i][m] \in Nat /\ inserted[i][m] \in Nat /\ inserted'[i][m] >= inserted[i][m]
        /\ i = j => inserted'[i][m] = inserted[i][m] + 1
  <2>1. \A i \in Jobs : \A m \in DOMAIN inserted[i] : inserted[i][m] \in Nat
    BY FileType
  <2> QED
    BY <1>5, <1>7, <2>1
<1>10. JobInv'
  <2>1. JobFits(j)'
    BY <1>1, <1>5, <1>7 DEF JobFits, Clean, Previewed
  <2>2. \A i \in Jobs \ {j} : JobFits(i)'
    BY <1>7 DEF JobInv, JobFits, Clean
  <2> QED
    BY <2>1, <2>2 DEF JobInv
<1>11. RequestFits(h)'
  BY <1>1, <1>2, <1>4, <1>5, <1>7 DEF RequestFits, Uploads
<1>12. ASSUME NEW k \in Requests \ {h} PROVE RequestFits(k)' /\ OpenKeys(k)' = OpenKeys(k)
  <2>1. RequestFits(k) /\ req[k].job \in Jobs
    BY RequestType DEF RequestInv
  <2>2. Uploads(k) => req[k].job # j
    BY <1>1, <2>1 DEF RequestFits, Previewed
  <2>3. Uploads(k) => \A g \in Requests \ {k} : ~About(g, req[k].job)'
    BY <1>2, <1>4, <2>1, <2>2 DEF RequestFits, About
  <2>4. (\A m \in DOMAIN inserted[req[k].job] : inserted[req[k].job][m] > 0)
          => \A m \in DOMAIN inserted'[req[k].job] : inserted'[req[k].job][m] > 0
    <3>1. CASE req[k].job = j
      BY <1>5, <1>7, <3>1
    <3>2. CASE req[k].job # j
      BY <1>7, <2>1, <3>2
    <3> QED
      BY <3>1, <3>2
  <2>5. RequestFits(k)'
    BY <1>4, <2>1, <2>3, <2>4 DEF RequestFits, Uploads, Clean
  <2>6. OpenKeys(k)' = OpenKeys(k)
    BY <1>4 DEF OpenKeys, CommitErrors, UniqueKeys
  <2> QED
    BY <2>5, <2>6
<1>13. OpenKeys(h)' = {}
  BY <1>2, <1>4 DEF OpenKeys
(* A row with a number is a new one of this transaction, or was there.     *)
<1>14. \A i \in Jobs : \A m, key : Holds(i, m, key)' =>
         \/ Holds(i, m, key) /\ i # j
         \/ i = j /\ m \in 1 .. Len(staged[j].rows) /\ KeyAt(j, m) = key /\ key # NoKey
            /\ key \in OpenKeys(h)
  <2> SUFFICES ASSUME NEW i \in Jobs, NEW m, NEW key, Holds(i, m, key)'
               PROVE  \/ Holds(i, m, key) /\ i # j
                      \/ i = j /\ m \in 1 .. Len(staged[j].rows) /\ KeyAt(j, m) = key /\ key # NoKey
                         /\ key \in OpenKeys(h)
    OBVIOUS
  <2>1. CASE i # j
    BY <1>7, <2>1 DEF Holds, InTable, KeyAt
  <2>2. CASE i = j
    <3>1. /\ m \in 1 .. Len(staged[j].rows) /\ KeyAt(j, m) = key /\ key # NoKey
          /\ staged[j].type = "readers"
      BY <1>5, <1>7, <2>2 DEF Holds, InTable, KeyAt
    <3>2. Inserts(h, m, key)
      BY <1>0, <1>1, <1>6, <3>1 DEF Inserts
    <3> QED
      BY <2>2, <3>1, <3>2, OpenKey
  <2> QED
    BY <2>1, <2>2
<1>15. KeysFromRows /\ KeysFromRows'
  BY TableKey, PTL
<1>16. \A key : key \in TableKeys' => key \in TableKeys \/ key \in OpenKeys(h)
  BY <1>14, <1>15 DEF KeysFromRows
<1>17. KeyInv'
  BY <1>12, <1>13, <1>16 DEF KeyInv
<1>18. OnceInv'
  <2> SUFFICES ASSUME NEW i \in Jobs, NEW k \in Jobs, NEW l, NEW m, NEW key,
                      Holds(i, l, key)', Holds(k, m, key)'
               PROVE  i = k /\ l = m /\ inserted'[i][l] = 1
    BY DEF OnceInv
  <2>1. CASE key \in TableKeys
    <3>1. key \notin OpenKeys(h)
      BY <2>1 DEF KeyInv
    <3>2. i # j /\ k # j /\ Holds(i, l, key) /\ Holds(k, m, key)
      BY <1>14, <3>1
    <3> QED
      BY <1>7, <3>2 DEF OnceInv
  <2>2. CASE key \notin TableKeys
    <3>1. ~Holds(i, l, key) /\ ~Holds(k, m, key)
      BY <1>15, <2>2 DEF KeysFromRows
    <3>2. /\ i = j /\ k = j /\ l \in 1 .. Len(staged[j].rows) /\ m \in 1 .. Len(staged[j].rows)
          /\ KeyAt(j, l) = key /\ KeyAt(j, m) = key /\ key # NoKey
      BY <1>14, <3>1
    <3>3. l = m
      BY <1>1, <1>5, <3>2, FileType, CleanRows
    <3>4. staged[j].type = "readers"
      BY <3>2 DEF Holds
    <3>5. inserted[j][l] = 0
      BY <1>5, <3>1, <3>2, <3>4 DEF Holds, InTable
    <3> QED
      BY <1>9, <1>5, <3>2, <3>3, <3>5
  <2> QED
    BY <2>1, <2>2
<1> QED
  BY <1>8, <1>10, <1>11, <1>12, <1>17, <1>18 DEF RequestInv

LEMMA NextInv == IInv /\ [Next]_vars => IInv'
<1> SUFFICES ASSUME IInv, [Next]_vars PROVE IInv'
  OBVIOUS
<1>1. CASE RequestNext
  <2>1. ASSUME NEW h \in Requests, NEW j \in Jobs, NEW f \in Files, BeginUpload(h, j, f) PROVE IInv'
    BY <2>1, UploadInv
  <2>2. ASSUME NEW h \in Requests, NEW j \in Jobs, BeginCommit(h, j) \/ BeginRollback(h, j) PROVE IInv'
    BY <2>2, BeginInv
  <2>3. ASSUME NEW h \in Requests, Stage(h) PROVE IInv'
    BY <2>3, StageInv
  <2>4. ASSUME NEW h \in Requests, LoadRows(h) PROVE IInv'
    BY <2>4, LoadInv
  <2>5. ASSUME NEW h \in Requests, InsertRow(h) PROVE IInv'
    BY <2>5, InsertRowInv
  <2>6. ASSUME NEW h \in Requests, Abort(h) PROVE IInv'
    BY <2>6, ReportInv DEF Abort, AllTried
  <2>7. ASSUME NEW h \in Requests, CommitTx(h) PROVE IInv'
    BY <2>7, RowsInv DEF CommitTx
  <2>8. ASSUME NEW h \in Requests, WriteStatus(h) PROVE IInv'
    BY <2>8, WriteStatusInv
  <2> QED
    BY <1>1, <2>1, <2>2, <2>3, <2>4, <2>5, <2>6, <2>7, <2>8 DEF RequestNext
<1>2. CASE FaultNext
  <2>1. ASSUME NEW h \in Requests, InsertFails(h) PROVE IInv'
    BY <2>1, InsertFailsInv
  <2>2. ASSUME NEW h \in Requests, CommitFails(h) PROVE IInv'
    <3>1. CASE inserted' = inserted
      BY <2>2, <3>1, ReportInv DEF CommitFails, FailedOutcome, AllTried
    <3>2. CASE inserted' = WithRows(h)
      BY <2>2, <3>2, RowsInv DEF CommitFails, FailedOutcome
    <3> QED
      BY <2>2, <3>1, <3>2 DEF CommitFails
  <2>3. ASSUME NEW h \in Requests, Fail(h) PROVE IInv'
    BY <2>3, FailInv
  <2> QED
    BY <1>2, <2>1, <2>2, <2>3 DEF FaultNext
<1>3. CASE UNCHANGED vars
  <2>1. TypeOK' /\ JobInv' /\ OnceInv'
    <3>1. TypeOK'
      BY <1>3 DEF vars, IInv, TypeOK
    <3>2. JobInv'
      BY <1>3 DEF vars, IInv, JobInv, JobFits, Clean
    <3>3. OnceInv'
      BY <1>3 DEF vars, IInv, OnceInv, Holds, InTable, KeyAt
    <3> QED
      BY <3>1, <3>2, <3>3
  <2>2. RequestInv'
    BY <1>3 DEF vars, IInv, RequestInv, RequestFits, Uploads, About, Clean
  <2>3. \A h \in Requests : OpenKeys(h)' = OpenKeys(h)
    BY <1>3 DEF vars, OpenKeys, CommitErrors, UniqueKeys
  <2>4. TableKeys' = TableKeys
    BY <1>3 DEF vars, TableKeys, UniqueKeys
  <2> QED
    BY <2>1, <2>2, <2>3, <2>4 DEF IInv, KeyInv
<1> QED
  BY <1>1, <1>2, <1>3 DEF Next

-----------------------------------------------------------------------------
(* What an import promises.                                                *)

(* The inductive invariant holds throughout. *)
THEOREM Invariance == Spec => []IInv
BY InitInv, NextInv, PTL DEF Spec

(* Type correctness: among others, the table counts exactly the rows that  *)
(* are staged. *)
THEOREM TypeCorrect == Spec => []TypeOK
<1>1. IInv => TypeOK
  BY DEF IInv
<1> QED
  BY <1>1, Invariance, PTL

(* No import is partial, and a job reported as committed is in the table.  *)
THEOREM ImportsAreWhole == Spec => []ImportIsWhole
<1>1. IInv => ImportIsWhole
  BY DEF IInv, JobInv, JobFits, ImportIsWhole
<1> QED
  BY <1>1, Invariance, PTL

(* What is in the table passed its preview, and a reader number came to it *)
(* with one row of one job, once.                                          *)
THEOREM RowsAreCleanAndOnce == Spec => []CleanAndKeyedOnce
<1>1. IInv => CleanAndKeyedOnce
  <2> SUFFICES ASSUME IInv, NEW j \in Jobs, NEW i \in InTable(j)
               PROVE  /\ \A k \in DOMAIN inserted[j] : staged[j].rows[k].ok
                      /\ KeyAt(j, i) # NoKey =>
                           /\ \A k \in DOMAIN inserted[j] \ {i} : KeyAt(j, k) # KeyAt(j, i)
                           /\ staged[j].type = "readers" =>
                                /\ inserted[j][i] = 1
                                /\ \A k \in Jobs \ {j} : staged[k].type = "readers" =>
                                     \A m \in InTable(k) : KeyAt(k, m) # KeyAt(j, i)
    BY DEF CleanAndKeyedOnce
  <2>1. TypeOK /\ OnceInv /\ JobFits(j)
    BY DEF IInv, JobInv
  <2>2. i \in DOMAIN inserted[j] /\ inserted[j][i] > 0 /\ Clean(j)
    BY <2>1 DEF InTable, JobFits
  <2>3. DOMAIN inserted[j] = DOMAIN staged[j].rows
    BY <2>1, FileType
  <2>4. /\ \A k \in DOMAIN inserted[j] : staged[j].rows[k].ok
        /\ KeyAt(j, i) # NoKey => \A k \in DOMAIN inserted[j] \ {i} : KeyAt(j, k) # KeyAt(j, i)
    BY <2>1, <2>2, <2>3, CleanRows
  <2>5. KeyAt(j, i) # NoKey /\ staged[j].type = "readers" => Holds(j, i, KeyAt(j, i))
    BY DEF Holds
  <2>6. ASSUME NEW k \in Jobs \ {j}, staged[k].type = "readers", NEW m \in InTable(k),
               KeyAt(k, m) = KeyAt(j, i), KeyAt(j, i) # NoKey
        PROVE  Holds(k, m, KeyAt(j, i))
    BY <2>6 DEF Holds
  <2> QED
    BY <2>1, <2>4, <2>5, <2>6 DEF OnceInv
<1> QED
  BY <1>1, Invariance, PTL

-----------------------------------------------------------------------------
(* Reports: the inductive invariant.                                       *)

(* What the invariant says of what a report counts: the table rows are on  *)
(* record and, for the templates that count what happens on a day, of that *)
(* day; all that an export counts or lists is of one branch.               *)
Dated(def) == Template[def] \notin {"utilization", "resource_yield"}
OfDay(def, data, day) == \A c \in data : ~CountsReaders(Template[def], c[1]) =>
  /\ c[2] \in Facts /\ fact[c[2]].state = "committed" /\ fact[c[2]].kind[1] # "programs"
  /\ DayOf(fact[c[2]].at) = day
CountedIn(report, c, f, b) ==
  /\ fact[f].state = "committed" /\ fact[f].kind[1] = c[1] /\ fact[f].kind[2] = b
  /\ Subject(report, f) = c[2]
OfBranch(report, data, b) == \A c \in data : \E f \in Facts : CountedIn(report, c, f, b)

(* A request computes what is of all branches, the nightly job whole days. *)
Midnight(t) == t = DayOf(t) * PerDay
WorkInv ==
  /\ \A h \in Handlers : \A i \in DOMAIN calc[h].todo : calc[h].todo[i].branch = AllBranches
  /\ \A i \in DOMAIN calc[Nightly].todo : Midnight(calc[Nightly].todo[i].day)

(* A row of a branch counts what is of the day that its labels name, and   *)
(* there is one for every definition, branch and pair of labels.           *)
DayRow(row, t) ==
  /\ Midnight(t) /\ row.from = Label(Nightly, t) /\ row.to = Label(Nightly, DayEnd(t))
  /\ OfDay(row.def, row.data, DayOf(t))
QueryInv ==
  calc[Nightly].step = "upsert" =>
    LET task == Head(calc[Nightly].todo) IN
    Dated(task.def) => OfDay(task.def, calc[Nightly].data, DayOf(task.day))
AggregateInv ==
  /\ \A i \in DOMAIN rows :
       rows[i].branch # AllBranches /\ Dated(rows[i].def) => \E t \in Int : DayRow(rows[i], t)
  /\ \A i, j \in DOMAIN rows : SameKey(rows[i], rows[j]) => i = j

(* While a night is calm, all that the job computes is what the tables     *)
(* hold, and what it has not written it has still to do.                   *)
Tonight == TargetDay(night.for)
Counted(def, b) == RunLiveQuery(b, Template[def], Tonight, DayEnd(Tonight))
Due(def, b) ==
  \/ \E i \in DOMAIN calc[Nightly].todo :
       calc[Nightly].todo[i].def = def /\ calc[Nightly].todo[i].branch = b
  \/ \E row \in night.written : row.def = def /\ row.branch = b
NightInv == night.calm =>
  /\ \A i \in DOMAIN calc[Nightly].todo : calc[Nightly].todo[i].day = Tonight
  /\ calc[Nightly].step = "upsert" =>
       LET task == Head(calc[Nightly].todo) IN calc[Nightly].data = Counted(task.def, task.branch)
  /\ \A row \in night.written : row.data = Counted(row.def, row.branch)
  /\ \/ calc[Nightly].step = "idle" /\ night.written = {}
     \/ \A d \in SetOf(Definitions), b \in BranchIds \cup {AllBranches} : Due(d, b)

(* An export that is under way has a job of its own, for which no file has *)
(* been answered; what it counts, and a file, is of the job's branch.      *)
JobReport(n) == ReportOf(jobs[n].kind)
ExportInv ==
  /\ \A h \in Handlers : export[h].step # "idle" =>
       /\ export[h].job \in DOMAIN jobs
       /\ \A g \in Handlers : export[g].step # "idle" /\ export[g].job = export[h].job => g = h
       /\ \A file \in files : file.job # export[h].job
       /\ export[h].step = "finalise" =>
            OfBranch(JobReport(export[h].job), export[h].data, jobs[export[h].job].branch)
  /\ \A file \in files :
       /\ file.job \in DOMAIN jobs
       /\ jobs[file.job].count = Cardinality(Lines(JobReport(file.job), file.data))
       /\ OfBranch(JobReport(file.job), file.data, jobs[file.job].branch)

ReportsInv == ReportsTypeOK /\ WorkInv /\ QueryInv /\ AggregateInv /\ NightInv /\ ExportInv

-----------------------------------------------------------------------------
(* Whole days.                                                             *)

(* What the quotient and the remainder of k days and a part of a day are.  *)
LEMMA Division ==
  ASSUME NEW n \in Nat \ {0}, NEW k \in Int, NEW j \in 0 .. n - 1
  PROVE  (n * k + j) \div n = k /\ (n * k + j) % n = j
<1>1. n * k + j \in Int
  OBVIOUS
<1>2. (n * k + j) \div n = k
  BY <1>1
<1> QED
  BY <1>1, <1>2

(* An instant is before the last one of a day if and only if that day ends *)
(* after it.                                                               *)
LEMMA WithinDay ==
  ASSUME NEW n \in Nat \ {0}, NEW t \in Int, NEW k \in Int
  PROVE  n * k <= t /\ t <= n * k + n - 2 <=> t \div n = k /\ t % n # n - 1
<1>1. n * k <= t /\ t <= n * k + n - 2 => t \div n = k /\ t % n # n - 1
  OBVIOUS
<1>2. t \div n = k /\ t % n # n - 1 => n * k <= t /\ t <= n * k + n - 2
  OBVIOUS
<1> QED
  BY <1>1, <1>2

(* DayOf is a day, whole days are midnights, and the day that the job      *)
(* computes is the one before that of its midnight.                        *)
LEMMA Days ==
  ASSUME NEW t \in Int
  PROVE  /\ DayOf(t) \in Int /\ DayEnd(t) \in Int /\ TargetDay(t) \in Int
         /\ t * PerDay \in Int
         /\ DayOf(t * PerDay) = t /\ Midnight(t * PerDay)
         /\ Midnight(TargetDay(t)) /\ DayOf(TargetDay(t)) = DayOf(t) - 1
<1>1. PerDay \in Nat \ {0}
  BY ReportsAssumption
<1>2. ASSUME NEW k \in Int
      PROVE  DayOf(k) \in Int /\ k * PerDay \in Int /\ DayOf(k * PerDay) = k
  <2>1. k * PerDay = PerDay * k + 0 /\ k * PerDay \in Int
    BY <1>1
  <2>2. (PerDay * k + 0) \div PerDay = k
    BY <1>1, Division
  <2> QED
    BY <1>1, <2>1, <2>2 DEF DayOf
<1>3. t - PerDay \in Int /\ DayOf(t - PerDay) = DayOf(t) - 1
  BY <1>1 DEF DayOf
<1>4. DayEnd(t) \in Int
  BY <1>1 DEF DayEnd
<1>5. DayOf(t - PerDay) \in Int /\ DayOf(t) \in Int
  BY <1>2, <1>3
<1> QED
  BY <1>2, <1>3, <1>4, <1>5 DEF TargetDay, Truncated, Midnight

(* The days of a period, which is one day when it begins and ends at the   *)
(* same midnight.                                                          *)
LEMMA DayList ==
  ASSUME NEW from \in Int, NEW to \in Int, DayOf(from) <= DayOf(to)
  PROVE  /\ DaysOf(from, to) \in Seq(Int) /\ DaysOf(from, to) # <<>>
         /\ from = to /\ Midnight(from) => DaysOf(from, to) = <<from>>
<1>1. PerDay \in Nat \ {0} /\ DayOf(from) \in Int /\ DayOf(to) \in Int
  BY ReportsAssumption, Days
<1>2. PICK n : n = DayOf(to) - DayOf(from) + 1
  OBVIOUS
<1>3. n \in Nat \ {0} /\ 1 \in 1 .. n
  BY <1>1, <1>2
<1>4. PICK t : t = Truncated(from)
  OBVIOUS
<1>5. t \in Int
  BY <1>1, <1>4 DEF Truncated
<1>6. DaysOf(from, to) = [i \in 1 .. n |-> t + (i - 1) * PerDay]
  BY <1>2, <1>4 DEF DaysOf
<1>7. \A i \in 1 .. n : t + (i - 1) * PerDay \in Int
  BY <1>1, <1>3, <1>5
<1>8. DaysOf(from, to) \in Seq(Int) /\ DOMAIN DaysOf(from, to) = 1 .. n
  BY <1>3, <1>6, <1>7
<1>9. DaysOf(from, to) # <<>>
  BY <1>3, <1>8
<1>10. ASSUME from = to, Midnight(from) PROVE DaysOf(from, to) = <<from>>
  <2>1. n = 1 /\ t = from
    BY <1>1, <1>2, <1>4, <1>10 DEF Truncated, Midnight
  <2>2. t + (1 - 1) * PerDay = from
    BY <1>1, <1>5, <2>1
  <2>3. DaysOf(from, to) = [i \in 1 .. 1 |-> from]
    BY <1>6, <2>1, <2>2
  <2>4. DOMAIN <<from>> = 1 .. 1 /\ <<from>>[1] = from
    OBVIOUS
  <2> QED
    BY <2>3, <2>4
<1> QED
  BY <1>8, <1>9, <1>10

(* The rows of a whole day that are counted until its last second.         *)
LEMMA DayPeriod ==
  ASSUME NEW d \in Int, Midnight(d), NEW t \in Int
  PROVE  d <= t /\ t <= DayEnd(d) <=> DayOf(t) = DayOf(d) /\ t % PerDay # PerDay - 1
<1>1. PerDay \in Nat \ {0} /\ DayOf(d) \in Int
  BY ReportsAssumption, Days
<1>2. d = PerDay * DayOf(d) /\ DayEnd(d) = PerDay * DayOf(d) + PerDay - 2
  BY <1>1 DEF Midnight, DayEnd
<1>3. PerDay * DayOf(d) <= t /\ t <= PerDay * DayOf(d) + PerDay - 2
      <=> t \div PerDay = DayOf(d) /\ t % PerDay # PerDay - 1
  BY <1>1, WithinDay
<1> QED
  BY <1>2, <1>3 DEF DayOf

(* The quotient of what is below a product is below its first factor.      *)
LEMMA Quotient ==
  ASSUME NEW n \in Nat \ {0}, NEW m \in Nat, NEW t \in 0 .. m * n - 1
  PROVE  t \div n \in 0 .. m - 1
<1>1. m * n \in Int /\ t \in Int /\ 0 <= t /\ t < m * n
  OBVIOUS
<1>2. t \div n \in Int /\ t % n \in 0 .. n - 1 /\ t % n = t - n * (t \div n)
  BY <1>1
<1> QED
  BY <1>1, <1>2

(* Head and tail of a list of tasks.                                       *)
LEMMA HeadTail ==
  ASSUME NEW S, NEW s \in Seq(S), s # <<>>
  PROVE  /\ Head(s) = s[1] /\ 1 \in DOMAIN s /\ Head(s) \in S /\ Tail(s) \in Seq(S)
         /\ \A i \in DOMAIN Tail(s) : i + 1 \in DOMAIN s /\ Tail(s)[i] = s[i + 1]
         /\ \A i \in DOMAIN s : i # 1 => i - 1 \in DOMAIN Tail(s) /\ Tail(s)[i - 1] = s[i]
<1>1. Len(s) \in Nat /\ DOMAIN s = 1 .. Len(s) /\ Len(s) # 0
  OBVIOUS
<1>2. Head(s) = s[1] /\ 1 \in DOMAIN s /\ Head(s) \in S /\ Tail(s) \in Seq(S)
  BY <1>1
<1>3. Len(Tail(s)) = Len(s) - 1 /\ DOMAIN Tail(s) = 1 .. Len(s) - 1
  BY <1>1, <1>2
<1>4. \A i \in 1 .. Len(s) - 1 : Tail(s)[i] = s[i + 1]
  BY <1>1
<1>5. ASSUME NEW i \in DOMAIN s, i # 1 PROVE i - 1 \in DOMAIN Tail(s) /\ Tail(s)[i - 1] = s[i]
  <2>1. i - 1 \in 1 .. Len(s) - 1 /\ (i - 1) + 1 = i
    BY <1>1, <1>5
  <2> QED
    BY <1>3, <1>4, <2>1
<1>6. ASSUME NEW i \in DOMAIN Tail(s) PROVE i + 1 \in DOMAIN s /\ Tail(s)[i] = s[i + 1]
  <2>1. i \in 1 .. Len(s) - 1
    BY <1>3
  <2>2. i + 1 \in 1 .. Len(s)
    BY <1>1, <2>1
  <2> QED
    BY <1>1, <1>4, <2>1, <2>2
<1> QED
  BY <1>2, <1>5, <1>6

(* Every definition is in its list, and so is every branch, after which    *)
(* the job goes through all of them.                                       *)
LEMMA Lists ==
  /\ Definitions \in Seq(SetOf(Definitions)) /\ Len(Definitions) \in Nat \ {0}
  /\ \A d \in SetOf(Definitions) : \E i \in 1 .. Len(Definitions) : Definitions[i] = d
  /\ NightlyScopes \in Seq(BranchIds \cup {AllBranches}) /\ Len(NightlyScopes) \in Nat \ {0}
  /\ \A b \in BranchIds \cup {AllBranches} :
       \E i \in 1 .. Len(NightlyScopes) : NightlyScopes[i] = b
<1>1. Definitions \in Seq(SetOf(Definitions)) /\ Definitions # <<>> /\ Branches \in Seq(BranchIds)
  BY ReportsAssumption
<1>2. Len(Definitions) \in Nat /\ Len(Definitions) # 0 /\ DOMAIN Definitions = 1 .. Len(Definitions)
  BY <1>1
<1>3. Len(Branches) \in Nat /\ DOMAIN Branches = 1 .. Len(Branches)
  BY <1>1
<1>4. \A d \in SetOf(Definitions) : \E i \in 1 .. Len(Definitions) : Definitions[i] = d
  BY <1>2 DEF SetOf
<1>5. Branches \in Seq(BranchIds \cup {AllBranches})
  BY <1>1
<1>6. /\ NightlyScopes \in Seq(BranchIds \cup {AllBranches})
      /\ Len(NightlyScopes) = Len(Branches) + 1
  BY <1>5 DEF NightlyScopes
<1>7. \A i \in 1 .. Len(Branches) : NightlyScopes[i] = Branches[i]
  BY <1>3, <1>5 DEF NightlyScopes
<1>8. NightlyScopes[Len(Branches) + 1] = AllBranches
  BY <1>3, <1>5 DEF NightlyScopes
<1>9. ASSUME NEW b \in BranchIds \cup {AllBranches}
      PROVE  \E i \in 1 .. Len(NightlyScopes) : NightlyScopes[i] = b
  <2>1. CASE b = AllBranches
    <3>1. Len(Branches) + 1 \in 1 .. Len(NightlyScopes)
      BY <1>3, <1>6
    <3> QED
      BY <2>1, <3>1, <1>8
  <2>2. CASE b # AllBranches
    <3>1. PICK i \in 1 .. Len(Branches) : Branches[i] = b
      BY <1>3, <2>2 DEF BranchIds, SetOf
    <3>2. i \in 1 .. Len(NightlyScopes)
      BY <1>3, <1>6
    <3> QED
      BY <3>1, <3>2, <1>7
  <2> QED
    BY <2>1, <2>2
<1> QED
  BY <1>1, <1>2, <1>3, <1>4, <1>6, <1>9

(* The tasks of a calculation: their number, their types, and that the     *)
(* branch and the day of each are among those asked for.                   *)
LEMMA TaskList ==
  ASSUME NEW scopes \in Seq(BranchIds \cup {AllBranches}), scopes # <<>>,
         NEW days \in Seq(Int), days # <<>>
  PROVE  /\ Tasks(scopes, days) \in Seq(Task) /\ Tasks(scopes, days) # <<>>
         /\ \A i \in DOMAIN Tasks(scopes, days) :
              /\ \E j \in DOMAIN scopes : Tasks(scopes, days)[i].branch = scopes[j]
              /\ \E j \in DOMAIN days : Tasks(scopes, days)[i].day = days[j]
<1> DEFINE D == Len(Definitions)
           W == Len(days) * D
           N == Len(scopes) * W
           T(i) == [branch |-> scopes[((i - 1) \div W) + 1],
                    day |-> days[(((i - 1) % W) \div D) + 1],
                    def |-> Definitions[((i - 1) % D) + 1]]
<1>1. D \in Nat \ {0} /\ Len(days) \in Nat \ {0} /\ Len(scopes) \in Nat \ {0}
  BY Lists
<1>2. W \in Nat \ {0}
  BY <1>1
<1>3. N \in Nat \ {0}
  BY <1>1, <1>2
<1>4. Tasks(scopes, days) = [i \in 1 .. N |-> T(i)]
  BY DEF Tasks
<1>5. ASSUME NEW i \in 1 .. N
      PROVE  /\ ((i - 1) \div W) + 1 \in 1 .. Len(scopes)
             /\ (((i - 1) % W) \div D) + 1 \in 1 .. Len(days)
             /\ ((i - 1) % D) + 1 \in 1 .. D
  <2>1. i - 1 \in 0 .. Len(scopes) * W - 1 /\ i - 1 \in Int
    BY <1>3
  <2> HIDE DEF N
  <2>2. (i - 1) \div W \in 0 .. Len(scopes) - 1
    <3> HIDE DEF W
    <3> QED
      BY <1>1, <1>2, <2>1, Quotient
  <2>3. (i - 1) % W \in 0 .. Len(days) * D - 1
    <3>1. (i - 1) % W \in 0 .. W - 1
      <4> HIDE DEF W
      <4> QED
        BY <1>2, <2>1
    <3> QED
      BY <3>1
  <2> HIDE DEF W, D
  <2>4. ((i - 1) % W) \div D \in 0 .. Len(days) - 1
    BY <1>1, <2>3, Quotient
  <2>5. (i - 1) % D \in 0 .. D - 1
    BY <1>1, <2>1
  <2> QED
    BY <1>1, <2>2, <2>4, <2>5
<1>6. ASSUME NEW i \in 1 .. N
      PROVE  /\ T(i) \in Task
             /\ \E j \in DOMAIN scopes : T(i).branch = scopes[j]
             /\ \E j \in DOMAIN days : T(i).day = days[j]
  <2> DEFINE s == ((i - 1) \div W) + 1
             d == (((i - 1) % W) \div D) + 1
             e == ((i - 1) % D) + 1
  <2>1. s \in 1 .. Len(scopes) /\ d \in 1 .. Len(days) /\ e \in 1 .. D
    BY <1>5
  <2>2. T(i) = [branch |-> scopes[s], day |-> days[d], def |-> Definitions[e]]
    OBVIOUS
  <2> HIDE DEF s, d, e, T, N, W
  <2>3. s \in DOMAIN scopes /\ scopes[s] \in BranchIds \cup {AllBranches}
    BY <2>1
  <2>4. d \in DOMAIN days /\ days[d] \in Int
    BY <2>1
  <2>5. Definitions[e] \in SetOf(Definitions)
    BY <2>1, Lists
  <2> QED
    BY <2>2, <2>3, <2>4, <2>5 DEF Task
<1> HIDE DEF T, N
<1>7. [i \in 1 .. N |-> T(i)] \in Seq(Task) /\ DOMAIN [i \in 1 .. N |-> T(i)] = 1 .. N
  BY <1>3, <1>6
<1>8. 1 \in 1 .. N
  BY <1>3
<1>9. [i \in 1 .. N |-> T(i)] # <<>>
  BY <1>7, <1>8
<1>10. \A i \in 1 .. N : [k \in 1 .. N |-> T(k)][i] = T(i)
  OBVIOUS
<1> DEFINE list == [i \in 1 .. N |-> T(i)]
<1>11. ASSUME NEW i \in DOMAIN list
       PROVE  /\ \E j \in DOMAIN scopes : list[i].branch = scopes[j]
              /\ \E j \in DOMAIN days : list[i].day = days[j]
  <2>1. i \in 1 .. N
    BY <1>7
  <2>2. list[i] = T(i)
    BY <1>10, <2>1
  <2>3. /\ \E j \in DOMAIN scopes : T(i).branch = scopes[j]
        /\ \E j \in DOMAIN days : T(i).day = days[j]
    BY <1>6, <2>1
  <2> HIDE DEF list
  <2> QED
    BY <2>2, <2>3
<1>12. list \in Seq(Task) /\ list # <<>> /\ Tasks(scopes, days) = list
  BY <1>4, <1>7, <1>9
<1> HIDE DEF list
<1> QED
  BY <1>11, <1>12

(* None is left out when a single day is computed.                         *)
LEMMA EveryTask ==
  ASSUME NEW scopes \in Seq(BranchIds \cup {AllBranches}), NEW day \in Int,
         NEW j \in 1 .. Len(scopes), NEW def \in SetOf(Definitions)
  PROVE  \E i \in DOMAIN Tasks(scopes, <<day>>) :
           Tasks(scopes, <<day>>)[i].branch = scopes[j] /\ Tasks(scopes, <<day>>)[i].def = def
<1> DEFINE D == Len(Definitions)
           N == Len(scopes) * D
           T(i) == [branch |-> scopes[((i - 1) \div D) + 1],
                    day |-> <<day>>[(((i - 1) % D) \div D) + 1],
                    def |-> Definitions[((i - 1) % D) + 1]]
<1>1. D \in Nat \ {0} /\ Len(scopes) \in Nat
  BY Lists
<1>2. Len(<<day>>) * D = D
  BY <1>1
<1>3. Tasks(scopes, <<day>>) = [i \in 1 .. N |-> T(i)]
  BY <1>2 DEF Tasks
<1>4. PICK e \in 1 .. D : Definitions[e] = def
  BY Lists
<1> DEFINE i == D * (j - 1) + (e - 1)
<1>5. i \in Int /\ i + 1 \in 1 .. N
  <2>1. D * (j - 1) \in Nat /\ D * (j - 1) + D <= N
    <3> HIDE DEF D
    <3>1. j <= Len(scopes) /\ j \in Nat /\ j - 1 \in Nat
      BY <1>1
    <3>2. D * (j - 1) \in Nat /\ D * j = D * (j - 1) + D
      BY <1>1, <3>1
    <3>3. D * j <= D * Len(scopes)
      BY <1>1, <3>1
    <3>4. D * Len(scopes) = N /\ N \in Nat
      BY <1>1
    <3> QED
      BY <1>1, <3>2, <3>3, <3>4
  <2>2. N \in Nat
    BY <1>1
  <2> HIDE DEF N, D
  <2> QED
    BY <1>1, <2>1, <2>2
<1>6. i \div D = j - 1 /\ i % D = e - 1
  <2>1. j - 1 \in Int /\ e - 1 \in 0 .. D - 1
    BY <1>1
  <2> HIDE DEF D
  <2> QED
    BY <1>1, <2>1, Division
<1>7. (i + 1) - 1 = i /\ (j - 1) + 1 = j /\ (e - 1) + 1 = e
  BY <1>5
<1> HIDE DEF i, N, D
<1>8. T(i + 1).branch = scopes[j] /\ T(i + 1).def = def
  BY <1>4, <1>6, <1>7
<1> HIDE DEF T
<1> QED
  BY <1>3, <1>5, <1>8

-----------------------------------------------------------------------------
(* What the queries return.                                                *)

(* The sets of pairs and of triples are equally large.                     *)
LEMMA FiniteTriples ==
  ASSUME NEW A, NEW B, NEW C, IsFiniteSet(A), IsFiniteSet(B), IsFiniteSet(C)
  PROVE  IsFiniteSet(A \X B \X C)
<1> DEFINE S == (A \X B) \X C
           T == A \X B \X C
           g == [p \in S |-> <<p[1][1], p[1][2], p[2]>>]
<1>1. IsFiniteSet(A \X B)
  BY FS_Product
<1>2. IsFiniteSet(S)
  BY <1>1, FS_Product
<1>3. g \in [S -> T]
  OBVIOUS
<1>4. ASSUME NEW t \in T PROVE \E p \in S : g[p] = t
  <2>1. t = <<t[1], t[2], t[3]>> /\ <<<<t[1], t[2]>>, t[3]>> \in S
    OBVIOUS
  <2>2. g[<<<<t[1], t[2]>>, t[3]>>] = <<t[1], t[2], t[3]>>
    BY <2>1
  <2> QED
    BY <2>1, <2>2
<1>5. g \in Surjection(S, T)
  BY <1>3, <1>4 DEF Surjection
<1> HIDE DEF S, T, g
<1>6. IsFiniteSet(T)
  BY <1>2, <1>5, FS_Surjection
<1> QED
  BY <1>6 DEF T

LEMMA FiniteTables == IsFiniteSet(Tables) /\ IsFiniteSet({"first", "later"})
<1>1. IsFiniteSet({"first"}) /\ IsFiniteSet({"checkouts"})
  BY FS_Singleton
<1>2. IsFiniteSet({"first"} \cup {"later"}) /\ IsFiniteSet({"checkouts"} \cup {"returns"})
  BY <1>1, FS_AddElement
<1>3. {"first"} \cup {"later"} = {"first", "later"} /\ {"checkouts"} \cup {"returns"} = Events
  BY DEF Events
<1>4. IsFiniteSet(Events) /\ IsFiniteSet({"first", "later"})
  BY <1>2, <1>3
<1>5. IsFiniteSet(Events \cup {"copies"})
  BY <1>4, FS_AddElement
<1>6. IsFiniteSet((Events \cup {"copies"}) \cup {"enrollments"})
  BY <1>5, FS_AddElement
<1>7. IsFiniteSet(((Events \cup {"copies"}) \cup {"enrollments"}) \cup {"programs"})
  BY <1>6, FS_AddElement
<1>8. IsFiniteSet((((Events \cup {"copies"}) \cup {"enrollments"}) \cup {"programs"}) \cup {"readers"})
  BY <1>7, FS_AddElement
<1>9. IsFiniteSet(((((Events \cup {"copies"}) \cup {"enrollments"}) \cup {"programs"})
                    \cup {"readers"}) \cup {"feedback"})
  BY <1>8, FS_AddElement
<1>10. IsFiniteSet((((((Events \cup {"copies"}) \cup {"enrollments"}) \cup {"programs"})
                    \cup {"readers"}) \cup {"feedback"}) \cup {"holdings"})
  BY <1>9, FS_AddElement
<1>11. Tables = (((((Events \cup {"copies"}) \cup {"enrollments"}) \cup {"programs"})
                    \cup {"readers"}) \cup {"feedback"}) \cup {"holdings"}
  BY DEF Tables
<1> QED
  BY <1>4, <1>10, <1>11

(* What is counted or listed is finite, and so are the lines of it.        *)
LEMMA FiniteLines ==
  ASSUME NEW data \in Data, NEW report \in Templates \cup Listings
  PROVE  Cardinality(Lines(report, data)) \in Nat
<1>1. IsFiniteSet(Tables \X (Facts \cup Readers) \X {"first", "later"})
  BY FiniteTriples, FiniteTables, ReportsAssumption
<1>2. IsFiniteSet(data)
  BY <1>1, FS_Subset DEF Data
<1>3. {c[1] : c \in data} \subseteq Tables /\ {c[3] : c \in data} \subseteq {"first", "later"}
  BY DEF Data
<1>4. IsFiniteSet({c[1] : c \in data}) /\ IsFiniteSet({c[3] : c \in data})
  BY <1>3, FiniteTables, FS_Subset
<1>5. Counts("reader_activity") \subseteq Tables
  BY DEF Counts, Tables, Events
<1>6. IsFiniteSet(Counts("reader_activity"))
  BY <1>5, FiniteTables, FS_Subset
<1>7. Lines(report, data) \in {Counts("reader_activity"), data, {c[1] : c \in data}, {c[3] : c \in data}}
  BY DEF Lines, Templates, Listings
<1>8. IsFiniteSet(Lines(report, data))
  BY <1>2, <1>4, <1>6, <1>7
<1> QED
  BY <1>8, FS_CardinalityType

(* A job is of a report that has lines.                                    *)
LEMMA ReportsOfJobs ==
  ASSUME NEW kind \in ExportKinds
  PROVE  ReportOf(kind) \in Templates \cup Listings
BY ReportsAssumption DEF ReportOf, ExportKinds

(* What a query and an export select.                                      *)
Selected(b, template, from, to) ==
  {f \in Committed(Counts(template), b) : InPeriod(template, f, from, to) /\ Active(template, f)}

(* What the figures of selected rows count.                                *)
LEMMA FigureRows ==
  ASSUME ReportsTypeOK, NEW selected \in SUBSET Facts, NEW report
  PROVE  Figures(report, selected) \in Data
<1>1. ASSUME NEW f \in selected
      PROVE  <<fact[f].kind[1], Subject(report, f), fact[f].status>>
               \in Tables \X (Facts \cup Readers) \X {"first", "later"}
  <2>1. fact[f].kind \in Tables \X BranchIds \X Readers /\ fact[f].status \in {"first", "later"}
    BY ReportsAssumption DEF ReportsTypeOK, FactRow
  <2>2. Subject(report, f) \in Facts \cup Readers
    BY <2>1 DEF Subject
  <2> QED
    BY <2>1, <2>2
<1> QED
  BY <1>1 DEF Figures, Data

(* What is settled once it is committed: the table and the branch of a row *)
(* and, but for programs, its instant.                                     *)
Settled ==
  /\ zone' = zone
  /\ \A f \in Facts : fact[f].state = "committed" =>
       /\ fact'[f].state = "committed" /\ fact'[f].kind = fact[f].kind
       /\ fact[f].kind[1] # "programs" => fact'[f].at = fact[f].at

LEMMA FactsSettled ==
  ASSUME ReportsTypeOK, [ReportsNext]_reportVars
  PROVE  Settled
<1>1. CASE UNCHANGED <<fact, zone>>
  BY <1>1 DEF Settled
<1>2. ASSUME NEW f \in Facts, BeginFact(f) PROVE Settled
  BY <1>2 DEF BeginFact, Settled, ReportsTypeOK
<1>3. ASSUME NEW f \in Facts, ChangeFact(f) PROVE Settled
  <2>1. fact \in [Facts -> FactRow] /\ zone' = zone
    BY <1>3 DEF ChangeFact, ReportsTypeOK
  <2>2. CASE fact[f].state = "open" /\ fact' = [fact EXCEPT ![f].state = "committed"]
    BY <2>1, <2>2 DEF Settled, FactRow
  <2>3. ASSUME NEW at \in Instants(fact[f].kind, fact[f].at),
               fact' = [fact EXCEPT ![f].status = "later", ![f].at = at]
        PROVE  Settled
    BY <2>1, <2>3 DEF Settled, FactRow, Instants
  <2> QED
    BY <1>3, <2>2, <2>3 DEF ChangeFact
<1>4. CASE ReportsNext
  <2>1. Tick => UNCHANGED <<fact, zone>>
    BY DEF Tick
  <2>2. CalculationNext => UNCHANGED <<fact, zone>>
    BY DEF CalculationNext, Recalculate, Query, UpsertAggregate, TaskFails, facts
  <2>3. SchedulerNext => UNCHANGED <<fact, zone>>
    BY DEF SchedulerNext, Wake, ListBranchesFails, Stop, Start, facts
  <2>4. ExportNext => UNCHANGED <<fact, zone>>
    BY DEF ExportNext, CreateJob, Generate, Finalise, ExportFails, facts
  <2> QED
    BY <1>1, <1>2, <1>3, <1>4, <2>1, <2>2, <2>3, <2>4 DEF ReportsNext, FactNext
<1> QED
  BY <1>1, <1>4 DEF reportVars, facts

(* So what was counted stays counted for the day and the branch.           *)
LEMMA StaysCounted ==
  ASSUME Settled, NEW data \in Data, NEW k, NEW r
  PROVE  /\ OfDay(r, data, k) => OfDay(r, data, k)'
         /\ OfBranch(r, data, k) => OfBranch(r, data, k)'
<1>1. OfDay(r, data, k) => OfDay(r, data, k)'
  BY DEF Settled, OfDay
<1>2. ASSUME NEW c \in data, NEW f \in Facts, CountedIn(r, c, f, k) PROVE CountedIn(r, c, f, k)'
  BY <1>2 DEF Settled, CountedIn, Subject
<1>3. OfBranch(r, data, k) => OfBranch(r, data, k)'
  BY <1>2 DEF OfBranch
<1> QED
  BY <1>1, <1>3

(* A query of a report, of one day or of any period.                       *)
LEMMA QueryCounts ==
  ASSUME ReportsTypeOK, NEW b, NEW template, NEW from, NEW to
  PROVE  RunLiveQuery(b, template, from, to) \in Data
<1>1. Selected(b, template, from, to) \in SUBSET Facts
  BY DEF Selected, Committed
<1>2. RunLiveQuery(b, template, from, to) = Figures(template, Selected(b, template, from, to))
  BY DEF RunLiveQuery, Selected
<1> QED
  BY <1>1, <1>2, FigureRows

LEMMA QueryRows ==
  ASSUME NEW b, NEW template, NEW from, NEW to, NEW c \in RunLiveQuery(b, template, from, to)
  PROVE  \E f \in Facts :
           /\ fact[f].state = "committed" /\ fact[f].kind[1] \in Counts(template)
           /\ b \in {AllBranches, fact[f].kind[2]} /\ InPeriod(template, f, from, to)
           /\ fact[f].kind[1] = c[1] /\ Subject(template, f) = c[2]
<1>1. RunLiveQuery(b, template, from, to) = Figures(template, Selected(b, template, from, to))
  BY DEF RunLiveQuery, Selected
<1>2. PICK f \in Selected(b, template, from, to) :
        c = <<fact[f].kind[1], Subject(template, f), fact[f].status>>
  BY <1>1 DEF Figures
<1>3. fact[f].kind[1] = c[1] /\ Subject(template, f) = c[2]
  BY <1>2
<1> QED
  BY <1>3 DEF Selected, Committed

(* A query of a whole day counts rows of that day, or the readers of them. *)
LEMMA QueryOfDay ==
  ASSUME ReportsTypeOK, NEW b, NEW def \in SetOf(Definitions), Dated(def),
         NEW d \in Int, Midnight(d)
  PROVE  OfDay(def, RunLiveQuery(b, Template[def], d, DayEnd(d)), DayOf(d))
<1> DEFINE data == RunLiveQuery(b, Template[def], d, DayEnd(d))
<1>1. Template[def] \in Templates \ {"utilization", "resource_yield"} /\ DayEnd(d) \in Int
  BY ReportsAssumption, Days DEF Dated
<1>2. "programs" \notin Counts(Template[def])
  BY <1>1 DEF Counts, Templates, Events
<1>3. ASSUME NEW c \in data, ~CountsReaders(Template[def], c[1])
      PROVE  /\ c[2] \in Facts /\ fact[c[2]].state = "committed" /\ fact[c[2]].kind[1] # "programs"
             /\ DayOf(fact[c[2]].at) = DayOf(d)
  <2>1. PICK f \in Facts :
          /\ fact[f].state = "committed" /\ fact[f].kind[1] \in Counts(Template[def])
          /\ InPeriod(Template[def], f, d, DayEnd(d))
          /\ fact[f].kind[1] = c[1] /\ Subject(Template[def], f) = c[2]
    BY QueryRows
  <2>2. c[2] = f
    BY <1>3, <2>1 DEF Subject
  <2>3. fact[f].at \in Int
    BY ReportsAssumption DEF ReportsTypeOK, FactRow
  <2>4. d <= fact[f].at /\ fact[f].at <= DayEnd(d)
    BY <1>1, <2>1 DEF InPeriod
  <2>5. DayOf(fact[f].at) = DayOf(d)
    BY <2>3, <2>4, DayPeriod
  <2> QED
    BY <1>2, <2>1, <2>2, <2>5
<1> HIDE DEF data
<1>4. OfDay(def, data, DayOf(d))
  BY <1>3 DEF OfDay
<1> QED
  BY <1>4 DEF data

(* An export of a branch counts or lists what is of that branch.           *)
LEMMA ExportOfBranch ==
  ASSUME ReportsTypeOK, NEW kind \in ExportKinds, NEW b \in BranchIds,
         NEW from \in Int, NEW to \in Int
  PROVE  /\ Exported(kind, b, from, to) \in Data
         /\ OfBranch(ReportOf(kind), Exported(kind, b, from, to), b)
<1>1. b # AllBranches
  BY ReportsAssumption
<1>2. CASE kind \in Listings
  <2>1. Exported(kind, b, from, to) = Figures(kind, Committed({kind}, b)) /\ ReportOf(kind) = kind
    BY <1>2 DEF Exported, ReportOf
  <2>2. Committed({kind}, b) \in SUBSET Facts
    BY DEF Committed
  <2>3. ASSUME NEW c \in Figures(kind, Committed({kind}, b))
        PROVE  \E f \in Facts : CountedIn(kind, c, f, b)
    <3>1. PICK f \in Committed({kind}, b) :
            c = <<fact[f].kind[1], Subject(kind, f), fact[f].status>>
      BY DEF Figures
    <3>2. fact[f].kind[1] = c[1] /\ Subject(kind, f) = c[2]
      BY <3>1
    <3> QED
      BY <1>1, <3>2 DEF Committed, CountedIn
  <2> QED
    BY <2>1, <2>2, <2>3, FigureRows DEF OfBranch
<1>3. CASE kind \notin Listings
  <2>1. /\ Exported(kind, b, from, to) = RunLiveQuery(b, Template[kind], from, to)
        /\ ReportOf(kind) = Template[kind]
    BY <1>3 DEF Exported, ReportOf
  <2>2. RunLiveQuery(b, Template[kind], from, to) \in Data
    BY QueryCounts
  <2>3. ASSUME NEW c \in RunLiveQuery(b, Template[kind], from, to)
        PROVE  \E f \in Facts : CountedIn(Template[kind], c, f, b)
    BY <1>1, QueryRows DEF CountedIn
  <2> QED
    BY <2>1, <2>2, <2>3 DEF OfBranch
<1> QED
  BY <1>2, <1>3

-----------------------------------------------------------------------------
(* The invariant holds initially, and where a step leaves a table alone.   *)

LEMMA NoWorkType ==
  /\ NoWork \in Calculation /\ NoExport \in Exporting /\ NoFact \in FactRow /\ {} \in Data
  /\ NoNight \in Night /\ Disturbed \in Night /\ ~Disturbed.calm
<1>1. NoWork \in Calculation /\ {} \in Data
  BY DEF NoWork, Calculation, Data
<1>2. NoExport \in Exporting
  BY <1>1 DEF NoExport, Exporting
<1> DEFINE kind == CHOOSE k \in Kinds : TRUE
<1>3. kind \in Kinds /\ 0 \in 0 .. Horizon
  BY ReportsAssumption
<1>4. NoFact \in FactRow
  <2>1. NoFact = [state |-> "absent", at |-> 0, status |-> "first", kind |-> kind]
    BY DEF NoFact
  <2> HIDE DEF kind
  <2> QED
    BY <1>3, <2>1 DEF FactRow
<1>5. NoNight \in Night
  BY DEF NoNight, Night
<1>6. Disturbed \in Night /\ ~Disturbed.calm
  BY DEF Disturbed, Night
<1> QED
  BY <1>1, <1>2, <1>4, <1>5, <1>6

LEMMA ReportsInitInv == ReportsInit => ReportsInv
<1> SUFFICES ASSUME ReportsInit PROVE ReportsInv
  OBVIOUS
<1>1. zone \in Int /\ PerDay \in Int /\ 0 \in 0 .. Horizon /\ 0 \in 0 .. MaxBegun /\ 0 \in 0 .. MaxFaults
  BY ReportsAssumption DEF ReportsInit
<1>2. nextRun \in Int
  BY <1>1, Days DEF ReportsInit, NextMidnight
<1>3. \A w \in Workers : calc[w] = NoWork
  BY DEF ReportsInit
<1>4. \A h \in Handlers : export[h] = NoExport
  BY DEF ReportsInit
<1>5. rows = <<>> /\ jobs = <<>> /\ files = {} /\ night = NoNight
  BY DEF ReportsInit
<1>6. ReportsTypeOK
  BY <1>1, <1>2, <1>3, <1>4, NoWorkType DEF ReportsInit, ReportsTypeOK, NoWork, NoExport
<1>7. WorkInv
  BY <1>3 DEF WorkInv, NoWork, Workers
<1>8. QueryInv /\ AggregateInv
  BY <1>3, <1>5 DEF QueryInv, AggregateInv, NoWork, Workers
<1>9. NightInv
  BY <1>3, <1>5 DEF NightInv, NoWork, NoNight, Workers
<1>10. ExportInv
  BY <1>4, <1>5 DEF ExportInv, NoExport
<1> QED
  BY <1>6, <1>7, <1>8, <1>9, <1>10 DEF ReportsInv

(* A nightly calculation that goes on as it was or is not at an upsert.    *)
LEMMA QueryKept ==
  ASSUME ReportsTypeOK, QueryInv, Settled,
         calc'[Nightly].step = "upsert" => calc'[Nightly] = calc[Nightly]
  PROVE  QueryInv'
<1>1. ASSUME calc'[Nightly].step = "upsert", Dated(Head(calc[Nightly].todo).def)
      PROVE  OfDay(Head(calc[Nightly].todo).def, calc[Nightly].data,
                   DayOf(Head(calc[Nightly].todo).day))'
  <2>1. calc'[Nightly] = calc[Nightly] /\ calc[Nightly] \in Calculation
    BY <1>1 DEF ReportsTypeOK, Workers
  <2>2. PICK data, k, def : /\ data = calc[Nightly].data /\ data \in Data
                            /\ k = DayOf(Head(calc[Nightly].todo).day)
                            /\ def = Head(calc[Nightly].todo).def
    BY <2>1 DEF Calculation
  <2>3. OfDay(def, data, k)
    BY <1>1, <2>1, <2>2 DEF QueryInv
  <2>4. OfDay(def, data, k)'
    BY <2>2, <2>3, StaysCounted
  <2> QED
    BY <2>1, <2>2, <2>4 DEF OfDay, DayOf
<1> QED
  BY <1>1 DEF QueryInv

(* A row that is left alone still counts what is of its day.               *)
LEMMA DayRowKept ==
  ASSUME Settled, NEW row \in Aggregates, NEW t \in Int, DayRow(row, t)
  PROVE  DayRow(row, t)'
<1>1. PICK k : k = DayOf(t)
  OBVIOUS
<1>2. row.data \in Data /\ OfDay(row.def, row.data, k)
  BY <1>1 DEF DayRow, Aggregates
<1>3. OfDay(row.def, row.data, k)'
  BY <1>2, StaysCounted
<1>4. OfDay(row.def, row.data, DayOf(t))'
  BY <1>1, <1>3 DEF OfDay, DayOf
<1> QED
  BY <1>4 DEF DayRow, Label, Settled

(* Rows that are left alone.                                               *)
LEMMA AggregatesKept ==
  ASSUME ReportsTypeOK, AggregateInv, Settled, rows' = rows
  PROVE  AggregateInv'
<1>1. ASSUME NEW i \in DOMAIN rows, rows[i].branch # AllBranches, Dated(rows[i].def)
      PROVE  \E t \in Int : DayRow(rows[i], t)'
  <2>1. PICK t \in Int : DayRow(rows[i], t)
    BY <1>1 DEF AggregateInv
  <2>2. rows[i] \in Aggregates
    BY DEF ReportsTypeOK
  <2>3. PICK row \in Aggregates : row = rows[i]
    BY <2>2
  <2>4. DayRow(row, t)'
    BY <2>1, <2>3, DayRowKept
  <2> QED
    BY <2>3, <2>4 DEF DayRow, OfDay
<1>2. \A i, j \in DOMAIN rows' : SameKey(rows'[i], rows'[j]) => i = j
  BY DEF AggregateInv
<1> QED
  BY <1>1, <1>2 DEF AggregateInv

(* What is not committed before or after a step is counted by no query.    *)
SameFacts ==
  \A f \in Facts : fact[f].state = "committed" \/ fact'[f].state = "committed" => fact'[f] = fact[f]

LEMMA SameQuery ==
  ASSUME SameFacts, NEW b, NEW template, NEW from, NEW to
  PROVE  RunLiveQuery(b, template, from, to)' = RunLiveQuery(b, template, from, to)
<1>1. Selected(b, template, from, to)' = Selected(b, template, from, to)
  BY DEF SameFacts, Selected, Committed, InPeriod, Active
<1>2. \A f \in Selected(b, template, from, to) : fact'[f] = fact[f]
  BY DEF SameFacts, Selected, Committed
<1>3. ASSUME NEW f \in Selected(b, template, from, to)
      PROVE  /\ fact'[f].kind[1] = fact[f].kind[1] /\ fact'[f].status = fact[f].status
             /\ Subject(template, f)' = Subject(template, f)
  BY <1>2 DEF Subject
<1>4. {<<fact'[f].kind[1], Subject(template, f)', fact'[f].status>> : f \in Selected(b, template, from, to)}
        = {<<fact[f].kind[1], Subject(template, f), fact[f].status>> : f \in Selected(b, template, from, to)}
  BY <1>3
<1>5. Figures(template, Selected(b, template, from, to))' = Figures(template, Selected(b, template, from, to))
  BY <1>1, <1>4 DEF Figures
<1> QED
  BY <1>5 DEF RunLiveQuery, Selected

LEMMA NightKept ==
  ASSUME NightInv, SameFacts, night' = night, calc'[Nightly] = calc[Nightly]
  PROVE  NightInv'
<1>1. Tonight' = Tonight
  BY DEF Tonight, TargetDay, Truncated, DayOf
<1>2. ASSUME NEW def, NEW b PROVE Counted(def, b)' = Counted(def, b)
  <2>1. PICK t : t = Tonight
    OBVIOUS
  <2>2. RunLiveQuery(b, Template[def], t, DayEnd(t))' = RunLiveQuery(b, Template[def], t, DayEnd(t))
    BY SameQuery
  <2> QED
    BY <1>1, <2>1, <2>2 DEF Counted
<1>3. ASSUME NEW def, NEW b PROVE Due(def, b)' <=> Due(def, b)
  BY DEF Due
<1> QED
  BY <1>1, <1>2, <1>3 DEF NightInv

(* Jobs, files and exports that are left alone. *)
LEMMA ExportsKept ==
  ASSUME ReportsTypeOK, ExportInv, Settled, jobs' = jobs, files' = files, export' = export
  PROVE  ExportInv'
<1>1. ASSUME NEW h \in Handlers, export[h].step = "finalise"
      PROVE  OfBranch(JobReport(export[h].job), export[h].data, jobs[export[h].job].branch)'
  <2>1. PICK data, b, report : /\ data \in Data /\ data = export[h].data
                               /\ b = jobs[export[h].job].branch /\ report = JobReport(export[h].job)
    BY DEF ReportsTypeOK, Exporting
  <2>2. OfBranch(report, data, b)
    BY <1>1, <2>1 DEF ExportInv
  <2>3. OfBranch(report, data, b)'
    BY <2>1, <2>2, StaysCounted
  <2> QED
    BY <2>1, <2>3 DEF OfBranch, JobReport
<1>2. ASSUME NEW file \in files
      PROVE  OfBranch(JobReport(file.job), file.data, jobs[file.job].branch)'
  <2>1. PICK data, b, report : /\ data \in Data /\ data = file.data
                               /\ b = jobs[file.job].branch /\ report = JobReport(file.job)
    BY DEF ReportsTypeOK
  <2>2. OfBranch(report, data, b)
    BY <2>1 DEF ExportInv
  <2>3. OfBranch(report, data, b)'
    BY <2>1, <2>2, StaysCounted
  <2> QED
    BY <2>1, <2>3 DEF OfBranch, JobReport
<1> QED
  BY <1>1, <1>2 DEF ExportInv, JobReport

-----------------------------------------------------------------------------
(* The clock and the rows that are counted.                                *)

LEMMA TickInv ==
  ASSUME ReportsInv, Tick
  PROVE  ReportsInv'
<1>1. ReportsTypeOK /\ WorkInv /\ QueryInv /\ AggregateInv /\ NightInv /\ ExportInv
  BY DEF ReportsInv
<1>2. UNCHANGED <<zone, fact, rows, calc, nextRun, up, jobs, export, files, night, begun, faults>>
  BY DEF Tick, Work
<1>3. now' \in 0 .. Horizon
  BY <1>1, ReportsAssumption DEF Tick, ReportsTypeOK
<1>4. Settled /\ SameFacts
  BY <1>2 DEF Settled, SameFacts
<1>5. ReportsTypeOK'
  BY <1>1, <1>2, <1>3 DEF ReportsTypeOK
<1>6. WorkInv'
  BY <1>1, <1>2 DEF WorkInv
<1> QED
  BY <1>1, <1>2, <1>4, <1>5, <1>6, QueryKept, AggregatesKept, NightKept,
     ExportsKept DEF ReportsInv

LEMMA FactInv ==
  ASSUME ReportsInv, NEW f \in Facts, BeginFact(f) \/ ChangeFact(f)
  PROVE  ReportsInv'
<1>1. ReportsTypeOK /\ WorkInv /\ QueryInv /\ AggregateInv /\ NightInv /\ ExportInv
  BY DEF ReportsInv
<1>2. UNCHANGED <<zone, now, rows, calc, nextRun, up, jobs, export, files, begun, faults>>
  BY DEF BeginFact, ChangeFact, Work
<1>3. Settled
  <2>1. ReportsNext
    BY DEF ReportsNext, FactNext
  <2> QED
    BY <1>1, <2>1, FactsSettled
<1>4. ASSUME NEW k \in Kinds, NEW at \in 0 .. Horizon
      PROVE  Instants(k, at) \subseteq 0 .. Horizon
  BY DEF Instants
<1>5. fact' \in [Facts -> FactRow] /\ ((SameFacts /\ night' = night) \/ night' = Disturbed)
  <2>1. CASE BeginFact(f)
    <3>1. PICK k \in Kinds : \E at \in Instants(k, now) :
            /\ fact[f].state = "absent" /\ night' = night
            /\ fact' = [fact EXCEPT ![f] = [NoFact EXCEPT !.state = "open", !.at = at, !.kind = k]]
      BY <2>1 DEF BeginFact
    <3>4. PICK at \in Instants(k, now) :
            /\ fact[f].state = "absent" /\ night' = night
            /\ fact' = [fact EXCEPT ![f] = [NoFact EXCEPT !.state = "open", !.at = at, !.kind = k]]
      BY <3>1
    <3>2. [NoFact EXCEPT !.state = "open", !.at = at, !.kind = k] \in FactRow
      BY <1>1, <1>4, NoWorkType DEF FactRow, ReportsTypeOK
    <3>3. [NoFact EXCEPT !.state = "open", !.at = at, !.kind = k].state # "committed"
      BY NoWorkType DEF FactRow
    <3> QED
      BY <1>1, <3>4, <3>2, <3>3 DEF ReportsTypeOK, SameFacts
  <2>2. CASE ChangeFact(f)
    <3>1. fact \in [Facts -> FactRow] /\ night' = Disturbed
      BY <1>1, <2>2 DEF ChangeFact, ReportsTypeOK
    <3>2. CASE fact' = [fact EXCEPT ![f].state = "committed"]
      BY <3>1, <3>2 DEF FactRow
    <3>3. ASSUME NEW at \in Instants(fact[f].kind, fact[f].at),
                 fact' = [fact EXCEPT ![f].status = "later", ![f].at = at]
          PROVE  fact' \in [Facts -> FactRow]
      <4>1. at \in 0 .. Horizon
        BY <1>4, <3>1 DEF FactRow
      <4> QED
        BY <3>1, <3>3, <4>1 DEF FactRow
    <3> QED
      BY <2>2, <3>1, <3>2, <3>3 DEF ChangeFact
  <2> QED
    BY <2>1, <2>2
<1>6. ReportsTypeOK'
  <2>1. night' \in Night
    BY <1>1, <1>5, NoWorkType DEF ReportsTypeOK
  <2> QED
    BY <1>1, <1>2, <1>5, <2>1 DEF ReportsTypeOK
<1>7. WorkInv'
  BY <1>1, <1>2 DEF WorkInv
<1>8. NightInv'
  <2>1. CASE night' = Disturbed
    BY <2>1, NoWorkType DEF NightInv
  <2>2. CASE night' = night /\ SameFacts
    BY <1>1, <1>2, <2>2, NightKept
  <2> QED
    BY <1>5, <2>1, <2>2
<1> QED
  BY <1>1, <1>2, <1>3, <1>6, <1>7, <1>8, QueryKept, AggregatesKept, ExportsKept DEF ReportsInv

-----------------------------------------------------------------------------
(* Calculations.                                                           *)

(* The facts of a step that writes no rows that are counted.               *)
LEMMA QuietFacts ==
  ASSUME UNCHANGED facts
  PROVE  Settled /\ SameFacts /\ UNCHANGED <<fact, now, zone>>
BY DEF facts, Settled, SameFacts

(* A worker that is not idle works while the server is up and exports      *)
(* nothing.                                                                *)
LEMMA CalculationType ==
  ASSUME ReportsTypeOK, NEW w \in Workers, NEW c \in Calculation,
         (c.step = "idle") = (c.todo = <<>>),
         c.step # "idle" => up /\ (w \in Handlers => export[w].step = "idle"),
         calc' = [calc EXCEPT ![w] = c], UNCHANGED <<export, up>>
  PROVE  /\ calc' \in [Workers -> Calculation]
         /\ \A v \in Workers : (calc'[v].step = "idle") = (calc'[v].todo = <<>>)
         /\ \A h \in Handlers : export'[h].step # "idle" => calc'[h].step = "idle" /\ up'
         /\ ~up' => \A v \in Workers : calc'[v].step = "idle"
<1>1. calc' \in [Workers -> Calculation] /\ calc'[w] = c
      /\ \A v \in Workers : v # w => calc'[v] = calc[v]
  BY DEF ReportsTypeOK
<1>2. ASSUME NEW v \in Workers PROVE (calc'[v].step = "idle") = (calc'[v].todo = <<>>)
  <2>1. CASE v = w
    BY <1>1, <2>1
  <2>2. CASE v # w
    BY <1>1, <2>2 DEF ReportsTypeOK
  <2> QED
    BY <2>1, <2>2
<1>3. ASSUME NEW h \in Handlers, export'[h].step # "idle" PROVE calc'[h].step = "idle" /\ up'
  <2>1. h \in Workers /\ calc[h].step = "idle" /\ up /\ export[h].step # "idle"
    BY <1>3 DEF ReportsTypeOK, Workers
  <2> QED
    BY <1>1, <2>1
<1>4. ASSUME ~up', NEW v \in Workers PROVE calc'[v].step = "idle"
  BY <1>1, <1>4 DEF ReportsTypeOK
<1> QED
  BY <1>1, <1>2, <1>3, <1>4

LEMMA RecalculateInv ==
  ASSUME ReportsInv, NEW h \in Handlers, NEW first \in Nat, NEW last \in Nat,
         Recalculate(h, first, last)
  PROVE  ReportsInv'
<1>1. ReportsTypeOK /\ WorkInv /\ QueryInv /\ AggregateInv /\ NightInv /\ ExportInv
  BY DEF ReportsInv
<1> DEFINE days == DaysOf(first * PerDay, last * PerDay)
           c == [NoWork EXCEPT !.step = "query", !.todo = Tasks(<<Scope[h]>>, days)]
<1>2. /\ up /\ calc[h].step = "idle" /\ export[h].step = "idle" /\ first <= last
      /\ Scope[h] = AllBranches /\ calc' = [calc EXCEPT ![h] = c] /\ begun' \in 0 .. MaxBegun
      /\ UNCHANGED facts /\ UNCHANGED <<rows, nextRun, up, jobs, export, files, night, faults>>
  BY <1>1, ReportsAssumption DEF Recalculate, ReportsTypeOK
<1>3. h \in Workers /\ Nightly \in Workers /\ h # Nightly
  BY ReportsAssumption DEF Workers
<1>4. days \in Seq(Int) /\ days # <<>>
  <2>1. /\ first * PerDay \in Int /\ last * PerDay \in Int
        /\ DayOf(first * PerDay) = first /\ DayOf(last * PerDay) = last
    BY Days
  <2>2. DayOf(first * PerDay) <= DayOf(last * PerDay)
    BY <1>2, <2>1
  <2> QED
    BY <2>1, <2>2, DayList
<1> HIDE DEF days
<1>5. <<Scope[h]>> \in Seq(BranchIds \cup {AllBranches}) /\ <<Scope[h]>> # <<>>
  BY <1>2
<1>6. PICK todo : todo = Tasks(<<Scope[h]>>, days)
  OBVIOUS
<1>7. /\ todo \in Seq(Task) /\ todo # <<>>
      /\ \A i \in DOMAIN todo : \E j \in DOMAIN <<Scope[h]>> : todo[i].branch = <<Scope[h]>>[j]
  BY <1>4, <1>5, <1>6, TaskList
<1>8. \A i \in DOMAIN todo : todo[i].branch = AllBranches
  BY <1>2, <1>7
<1>9. c \in Calculation /\ c.step = "query" /\ c.todo = todo
  BY <1>6, <1>7, NoWorkType DEF Calculation
<1> HIDE DEF c
<1>10. ReportsTypeOK'
  <2>1. UNCHANGED <<fact, now, zone>>
    BY <1>2, QuietFacts
  <2> QED
    BY <1>1, <1>2, <1>3, <1>7, <1>9, <2>1, CalculationType DEF ReportsTypeOK
<1>11. calc'[h] = c /\ \A v \in Workers : v # h => calc'[v] = calc[v]
  BY <1>1, <1>2, <1>3 DEF ReportsTypeOK
<1>12. WorkInv'
  <2>1. ASSUME NEW g \in Handlers
        PROVE  \A i \in DOMAIN calc'[g].todo : calc'[g].todo[i].branch = AllBranches
    <3>1. CASE g = h
      BY <1>8, <1>9, <1>11, <3>1
    <3>2. CASE g # h
      BY <1>1, <1>11, <3>2 DEF WorkInv, Workers
    <3> QED
      BY <3>1, <3>2
  <2>2. calc'[Nightly] = calc[Nightly]
    BY <1>3, <1>11
  <2> QED
    BY <1>1, <2>1, <2>2 DEF WorkInv, Midnight, DayOf
<1>13. calc'[Nightly] = calc[Nightly]
  BY <1>3, <1>11
<1> QED
  BY <1>1, <1>2, <1>10, <1>12, <1>13, QuietFacts, QueryKept, AggregatesKept, NightKept,
     ExportsKept DEF ReportsInv

LEMMA QueryStepInv ==
  ASSUME ReportsInv, NEW w \in Workers, Query(w)
  PROVE  ReportsInv'
<1>1. ReportsTypeOK /\ WorkInv /\ QueryInv /\ AggregateInv /\ NightInv /\ ExportInv
  BY DEF ReportsInv
<1>2. PICK task : task = Head(calc[w].todo)
  OBVIOUS
<1>3. PICK data : data = RunLiveQuery(task.branch, Template[task.def], task.day, DayEnd(task.day))
  OBVIOUS
<1> DEFINE c == [calc[w] EXCEPT !.step = "upsert", !.data = data]
<1>4. /\ calc[w].step = "query" /\ calc' = [calc EXCEPT ![w] = c] /\ UNCHANGED facts
      /\ UNCHANGED <<rows, nextRun, up, jobs, export, files, night, faults, begun>>
  BY <1>2, <1>3 DEF Query
<1>5. UNCHANGED <<fact, now, zone>> /\ Settled /\ SameFacts
  BY <1>4, QuietFacts
<1>6. calc[w] \in Calculation /\ calc[w].todo \in Seq(Task) /\ calc[w].todo # <<>>
  BY <1>1, <1>4 DEF ReportsTypeOK, Calculation
<1>7. task = calc[w].todo[1] /\ 1 \in DOMAIN calc[w].todo /\ task \in Task
  BY <1>2, <1>6, HeadTail
<1>8. data \in Data
  BY <1>1, <1>3, QueryCounts
<1>9. c \in Calculation /\ c.step = "upsert" /\ c.todo = calc[w].todo /\ c.data = data
  BY <1>6, <1>8 DEF Calculation
<1> HIDE DEF c
<1>10. calc'[w] = c /\ \A v \in Workers : v # w => calc'[v] = calc[v]
  BY <1>1, <1>4 DEF ReportsTypeOK
<1>11. w \in Handlers => export[w].step = "idle"
  BY <1>1, <1>4 DEF ReportsTypeOK
<1>12. up
  BY <1>1, <1>4 DEF ReportsTypeOK
<1>13. ReportsTypeOK'
  BY <1>1, <1>4, <1>5, <1>6, <1>9, <1>11, <1>12, CalculationType DEF ReportsTypeOK
<1>14. \A v \in Workers : calc'[v].todo = calc[v].todo
  BY <1>9, <1>10
<1>15. WorkInv'
  BY <1>1, <1>14 DEF WorkInv, Workers, Midnight, DayOf
<1>16. CASE w # Nightly
  <2>1. calc'[Nightly] = calc[Nightly]
    BY <1>10, <1>16 DEF Workers
  <2> QED
    BY <1>1, <1>4, <1>5, <1>13, <1>15, <2>1, QueryKept, AggregatesKept, NightKept, ExportsKept
       DEF ReportsInv
<1>17. CASE w = Nightly
  <2>1. task.day \in Int /\ task.def \in SetOf(Definitions) /\ Midnight(task.day)
    BY <1>1, <1>7, <1>17 DEF WorkInv, Task
  <2>2. Dated(task.def) => OfDay(task.def, data, DayOf(task.day))
    BY <1>1, <1>3, <2>1, QueryOfDay
  <2>3. calc'[Nightly].data = data /\ Head(calc'[Nightly].todo) = task
    BY <1>2, <1>9, <1>10, <1>17
  <2>4. QueryInv'
    BY <1>5, <2>2, <2>3 DEF QueryInv, OfDay, DayOf
  <2>5. NightInv'
    <3> SUFFICES ASSUME night'.calm PROVE NightInv'
      BY DEF NightInv
    <3>1. night.calm /\ task.day = Tonight
      BY <1>1, <1>4, <1>7, <1>17 DEF NightInv
    <3>2. data = Counted(task.def, task.branch)
      BY <1>3, <3>1 DEF Counted
    <3>3. Tonight' = Tonight
      BY <1>4 DEF Tonight, TargetDay, Truncated, DayOf
    <3>4. ASSUME NEW def, NEW b PROVE Counted(def, b)' = Counted(def, b)
      BY <1>4, <1>5, <3>3 DEF Counted, RunLiveQuery, Figures, Subject, Committed, InPeriod, Active
    <3>5. ASSUME NEW def, NEW b PROVE Due(def, b)' <=> Due(def, b)
      BY <1>4, <1>14, <1>17 DEF Due
    <3>6. ~(calc[Nightly].step = "idle")
      BY <1>4, <1>17
    <3>7. \A d \in SetOf(Definitions), b \in BranchIds \cup {AllBranches} : Due(d, b)'
      BY <1>1, <3>1, <3>5, <3>6 DEF NightInv
    <3>8. \A row \in night'.written : row.data = Counted(row.def, row.branch)'
      BY <1>1, <1>4, <3>1, <3>4 DEF NightInv
    <3>9. \A i \in DOMAIN calc'[Nightly].todo : calc'[Nightly].todo[i].day = Tonight'
      BY <1>1, <1>14, <1>17, <3>1, <3>3 DEF NightInv
    <3>10. calc'[Nightly].data = Counted(task.def, task.branch)'
      BY <2>3, <3>2, <3>4
    <3> QED
      BY <2>3, <3>7, <3>8, <3>9, <3>10 DEF NightInv
  <2> QED
    BY <1>1, <1>4, <1>5, <1>13, <1>15, <2>4, <2>5, AggregatesKept, ExportsKept DEF ReportsInv
<1> QED
  BY <1>16, <1>17

(* The worker has one task less; nothing is at an upsert that was not.     *)
LEMMA NextTaskWork ==
  ASSUME ReportsTypeOK, WorkInv, NEW w \in Workers, NEW ok \in BOOLEAN,
         calc[w].step # "idle", NextTask(w, ok), UNCHANGED <<now, zone, export, up>>
  PROVE  /\ nextRun' \in Int
         /\ calc' \in [Workers -> Calculation]
         /\ \A v \in Workers : (calc'[v].step = "idle") = (calc'[v].todo = <<>>)
         /\ \A h \in Handlers : export'[h].step # "idle" => calc'[h].step = "idle" /\ up'
         /\ ~up' => \A v \in Workers : calc'[v].step = "idle"
         /\ calc'[w].todo = Tail(calc[w].todo) /\ calc'[w].step # "upsert"
         /\ \A v \in Workers : v # w => calc'[v] = calc[v]
         /\ WorkInv'
<1>1. PICK rest : rest = Tail(calc[w].todo)
  OBVIOUS
<1>2. calc[w] \in Calculation /\ calc[w].todo \in Seq(Task) /\ calc[w].todo # <<>>
  BY DEF ReportsTypeOK, Calculation
<1>3. rest \in Seq(Task) /\ \A i \in DOMAIN rest : i + 1 \in DOMAIN calc[w].todo
                                                   /\ rest[i] = calc[w].todo[i + 1]
  BY <1>1, <1>2, HeadTail
<1> DEFINE c == [step |-> IF rest = <<>> THEN "idle" ELSE "query",
                 todo |-> rest, data |-> {}, clean |-> calc[w].clean /\ ok]
<1>4. calc' = [calc EXCEPT ![w] = c]
  BY <1>1 DEF NextTask
<1>5. (calc[w].clean /\ ok) \in BOOLEAN
  OBVIOUS
<1>6. c \in Calculation /\ c.todo = rest /\ c.step # "upsert" /\ (c.step = "idle") = (rest = <<>>)
  BY <1>3, <1>5, NoWorkType DEF Calculation
<1> HIDE DEF c
<1>7. calc'[w] = c /\ \A v \in Workers : v # w => calc'[v] = calc[v]
  BY <1>4 DEF ReportsTypeOK
<1>8. up /\ (w \in Handlers => export[w].step = "idle")
  BY DEF ReportsTypeOK
<1>9. nextRun' \in Int
  <2>1. now \in Int /\ zone \in Int /\ PerDay \in Int /\ nextRun \in Int
    BY ReportsAssumption DEF ReportsTypeOK
  <2>2. NextMidnight(now) \in Int
    BY <2>1, Days DEF NextMidnight
  <2> QED
    BY <2>1, <2>2 DEF NextTask
<1>10. WorkInv'
  <2>1. ASSUME NEW g \in Handlers, NEW i \in DOMAIN calc'[g].todo
        PROVE  calc'[g].todo[i].branch = AllBranches
    <3>1. CASE g = w
      BY <1>3, <1>6, <1>7, <2>1, <3>1 DEF WorkInv
    <3>2. CASE g # w
      BY <1>7, <2>1, <3>2 DEF WorkInv, Workers
    <3> QED
      BY <3>1, <3>2
  <2>2. ASSUME NEW i \in DOMAIN calc'[Nightly].todo
        PROVE  Midnight(calc'[Nightly].todo[i].day)
    <3>1. CASE Nightly = w
      BY <1>3, <1>6, <1>7, <2>2, <3>1 DEF WorkInv
    <3>2. CASE Nightly # w
      BY <1>7, <2>2, <3>2 DEF WorkInv, Workers
    <3> QED
      BY <3>1, <3>2
  <2> QED
    BY <2>1, <2>2 DEF WorkInv, Midnight, DayOf
<1>11. calc'[w].todo = Tail(calc[w].todo) /\ calc'[w].step # "upsert"
  BY <1>1, <1>6, <1>7
<1>12. /\ calc' \in [Workers -> Calculation]
       /\ \A v \in Workers : (calc'[v].step = "idle") = (calc'[v].todo = <<>>)
       /\ \A h \in Handlers : export'[h].step # "idle" => calc'[h].step = "idle" /\ up'
       /\ ~up' => \A v \in Workers : calc'[v].step = "idle"
  BY <1>4, <1>6, <1>8, CalculationType
<1> QED
  BY <1>7, <1>9, <1>10, <1>11, <1>12

LEMMA TaskFailsInv ==
  ASSUME ReportsInv, NEW w \in Workers, TaskFails(w)
  PROVE  ReportsInv'
<1>1. ReportsTypeOK /\ WorkInv /\ QueryInv /\ AggregateInv /\ NightInv /\ ExportInv
  BY DEF ReportsInv
<1>2. /\ calc[w].step # "idle" /\ NextTask(w, FALSE) /\ UNCHANGED facts
      /\ UNCHANGED <<rows, up, jobs, export, files, begun>>
      /\ night' = IF w = Nightly THEN Disturbed ELSE night
  BY DEF TaskFails
<1>9. faults' \in 0 .. MaxFaults
  BY <1>1, ReportsAssumption DEF TaskFails, ReportsTypeOK
<1>3. UNCHANGED <<fact, now, zone>> /\ Settled /\ SameFacts
  BY <1>2, QuietFacts
<1>4. /\ nextRun' \in Int
      /\ calc' \in [Workers -> Calculation]
      /\ \A v \in Workers : (calc'[v].step = "idle") = (calc'[v].todo = <<>>)
      /\ \A h \in Handlers : export'[h].step # "idle" => calc'[h].step = "idle" /\ up'
      /\ ~up' => \A v \in Workers : calc'[v].step = "idle"
      /\ calc'[w].step # "upsert"
      /\ \A v \in Workers : v # w => calc'[v] = calc[v]
      /\ WorkInv'
  BY <1>1, <1>2, <1>3, NextTaskWork
<1>5. night' \in Night
  BY <1>1, <1>2, NoWorkType DEF ReportsTypeOK
<1>6. ReportsTypeOK'
  BY <1>1, <1>2, <1>3, <1>4, <1>5, <1>9 DEF ReportsTypeOK
<1>7. calc'[Nightly].step = "upsert" => calc'[Nightly] = calc[Nightly]
  BY <1>4 DEF Workers
<1>8. NightInv'
  <2>1. CASE w = Nightly
    BY <1>2, <2>1, NoWorkType DEF NightInv
  <2>2. CASE w # Nightly
    BY <1>1, <1>2, <1>3, <1>4, <2>2, NightKept DEF Workers
  <2> QED
    BY <2>1, <2>2
<1> QED
  BY <1>1, <1>2, <1>3, <1>4, <1>6, <1>7, <1>8, QueryKept, AggregatesKept, ExportsKept
     DEF ReportsInv

(* The days of the rows after one of them was written.                     *)
LEMMA RowsOfDays ==
  ASSUME ReportsTypeOK, AggregateInv, Settled, NEW row \in Aggregates, rows' \in Seq(Aggregates),
         row.branch # AllBranches /\ Dated(row.def) => \E t \in Int : DayRow(row, t),
         \A i \in DOMAIN rows' : rows'[i] = row \/ (i \in DOMAIN rows /\ rows'[i] = rows[i])
  PROVE  \A i \in DOMAIN rows' :
           rows'[i].branch # AllBranches /\ Dated(rows'[i].def) => (\E t \in Int : DayRow(rows[i], t))'
<1> SUFFICES ASSUME NEW i \in DOMAIN rows', rows'[i].branch # AllBranches, Dated(rows'[i].def)
             PROVE  (\E t \in Int : DayRow(rows[i], t))'
  OBVIOUS
<1>1. PICK new \in Aggregates : new = rows'[i]
  OBVIOUS
<1>2. PICK t \in Int : DayRow(new, t)
  BY <1>1 DEF AggregateInv
<1>3. DayRow(new, t)'
  BY <1>2, DayRowKept
<1> QED
  BY <1>1, <1>3 DEF DayRow, OfDay

(* An upsert of the nightly job: what it has written has grown by what it  *)
(* had to do.                                                              *)
LEMMA NightUpsert ==
  ASSUME ReportsTypeOK, NightInv, SameFacts, NEW task, NEW row,
         calc[Nightly].step = "upsert", task = Head(calc[Nightly].todo),
         row.def = task.def /\ row.branch = task.branch /\ row.data = calc[Nightly].data,
         calc'[Nightly].todo = Tail(calc[Nightly].todo), calc'[Nightly].step # "upsert",
         night' = IF night.calm THEN [night EXCEPT !.written = @ \cup {row}] ELSE night
  PROVE  NightInv'
<1> SUFFICES ASSUME night'.calm PROVE NightInv'
  BY DEF NightInv
<1>1. night \in Night /\ Nightly \in Workers
  BY DEF ReportsTypeOK, Workers
<1>2. /\ night.calm /\ night'.for = night.for /\ night'.written = night.written \cup {row}
  <2>1. CASE night.calm
    BY <1>1, <2>1 DEF Night
  <2>2. CASE ~night.calm
    BY <2>2
  <2> QED
    BY <2>1, <2>2
<1>3. calc[Nightly].todo \in Seq(Task) /\ calc[Nightly].todo # <<>>
  BY <1>1 DEF ReportsTypeOK, Calculation
<1> DEFINE todo == calc[Nightly].todo
<1>4. /\ task = todo[1]
      /\ \A i \in DOMAIN Tail(todo) : i + 1 \in DOMAIN todo /\ Tail(todo)[i] = todo[i + 1]
      /\ \A i \in DOMAIN todo : i # 1 => i - 1 \in DOMAIN Tail(todo) /\ Tail(todo)[i - 1] = todo[i]
  BY <1>3, HeadTail
<1>5. PICK t : t = Tonight
  OBVIOUS
<1>6. Tonight' = t
  BY <1>2, <1>5 DEF Tonight, TargetDay, Truncated, DayOf
<1>7. ASSUME NEW def, NEW b PROVE Counted(def, b)' = Counted(def, b)
  <2>1. RunLiveQuery(b, Template[def], t, DayEnd(t))' = RunLiveQuery(b, Template[def], t, DayEnd(t))
    BY SameQuery
  <2> QED
    BY <1>5, <1>6, <2>1 DEF Counted
<1>8. \A i \in DOMAIN calc'[Nightly].todo : calc'[Nightly].todo[i].day = Tonight'
  BY <1>2, <1>4, <1>5, <1>6 DEF NightInv
<1>9. ASSUME NEW r \in night'.written PROVE r.data = Counted(r.def, r.branch)'
  <2>1. r.data = Counted(r.def, r.branch)
    BY <1>2, <1>9 DEF NightInv
  <2> QED
    BY <1>7, <2>1
<1>10. ASSUME NEW d \in SetOf(Definitions), NEW b \in BranchIds \cup {AllBranches}
       PROVE  Due(d, b)'
  <2>1. Due(d, b)
    BY <1>2 DEF NightInv
  <2>2. CASE \E r \in night.written : r.def = d /\ r.branch = b
    BY <1>2, <2>2 DEF Due
  <2>3. ASSUME NEW i \in DOMAIN todo, todo[i].def = d, todo[i].branch = b
        PROVE  Due(d, b)'
    <3>1. CASE i = 1
      <4>1. row \in night'.written /\ row.def = d /\ row.branch = b
        BY <1>2, <1>4, <2>3, <3>1
      <4> QED
        BY <4>1 DEF Due
    <3>2. CASE i # 1
      <4>1. i - 1 \in DOMAIN calc'[Nightly].todo /\ calc'[Nightly].todo[i - 1] = todo[i]
        BY <1>4, <3>2
      <4> QED
        BY <2>3, <4>1 DEF Due
    <3> QED
      BY <3>1, <3>2
  <2> QED
    BY <2>1, <2>2, <2>3 DEF Due
<1> QED
  BY <1>8, <1>9, <1>10 DEF NightInv

(* What an upsert does to the rows: the row is new, and no other row has   *)
(* its key, or it takes the place of the rows that have.                   *)
Upserted(row) ==
  LET old == {i \in DOMAIN rows : SameKey(rows[i], row)} IN
  rows' = IF old = {} THEN Append(rows, row)
          ELSE [i \in DOMAIN rows |-> IF i \in old THEN row ELSE rows[i]]

LEMMA UpsertRows ==
  ASSUME ReportsTypeOK, AggregateInv, Settled, NEW row \in Aggregates, Upserted(row),
         row.branch # AllBranches /\ Dated(row.def) => \E t \in Int : DayRow(row, t)
  PROVE  rows' \in Seq(Aggregates) /\ AggregateInv'
<1> DEFINE old == {i \in DOMAIN rows : SameKey(rows[i], row)}
<1>1. rows \in Seq(Aggregates) /\ Len(rows) \in Nat /\ DOMAIN rows = 1 .. Len(rows)
  BY DEF ReportsTypeOK
<1>2. \A i, j \in DOMAIN rows : SameKey(rows[i], rows[j]) => i = j
  BY DEF AggregateInv
<1>3. CASE old = {}
  <2>1. rows' = Append(rows, row)
    BY <1>3 DEF Upserted
  <2>2. /\ rows' \in Seq(Aggregates) /\ DOMAIN rows' = 1 .. Len(rows) + 1
        /\ rows'[Len(rows) + 1] = row /\ \A i \in DOMAIN rows : rows'[i] = rows[i]
    BY <1>1, <2>1
  <2>3. \A i \in DOMAIN rows' : i = Len(rows) + 1 \/ i \in DOMAIN rows
    BY <1>1, <2>2
  <2>4. \A i \in DOMAIN rows : ~SameKey(rows[i], row) /\ ~SameKey(row, rows[i])
    BY <1>3 DEF SameKey
  <2>5. ASSUME NEW i \in DOMAIN rows', NEW j \in DOMAIN rows', SameKey(rows'[i], rows'[j])
        PROVE  i = j
    <3>1. CASE i \in DOMAIN rows /\ j \in DOMAIN rows
      BY <1>2, <2>2, <2>5, <3>1
    <3>2. CASE i = Len(rows) + 1 /\ j \in DOMAIN rows
      BY <2>2, <2>4, <2>5, <3>2
    <3>3. CASE i \in DOMAIN rows /\ j = Len(rows) + 1
      BY <2>2, <2>4, <2>5, <3>3
    <3> QED
      BY <2>3, <3>1, <3>2, <3>3
  <2>6. \A i \in DOMAIN rows' : rows'[i] = row \/ (i \in DOMAIN rows /\ rows'[i] = rows[i])
    BY <2>2, <2>3
  <2> QED
    BY <2>2, <2>5, <2>6, RowsOfDays DEF AggregateInv
<1>4. CASE old # {}
  <2>1. rows' = [i \in DOMAIN rows |-> IF i \in old THEN row ELSE rows[i]]
    BY <1>4 DEF Upserted
  <2>2. rows' \in Seq(Aggregates) /\ DOMAIN rows' = DOMAIN rows
    BY <1>1, <2>1
  <2>3. \A i \in DOMAIN rows : rows'[i] = IF i \in old THEN row ELSE rows[i]
    BY <2>1
  <2>4. ASSUME NEW i \in DOMAIN rows
        PROVE  /\ rows'[i].def = rows[i].def /\ rows'[i].branch = rows[i].branch
               /\ rows'[i].from = rows[i].from /\ rows'[i].to = rows[i].to
    BY <2>3 DEF SameKey
  <2>5. ASSUME NEW i \in DOMAIN rows', NEW j \in DOMAIN rows', SameKey(rows'[i], rows'[j])
        PROVE  i = j
    BY <1>2, <2>2, <2>4, <2>5 DEF SameKey
  <2>6. \A i \in DOMAIN rows' : rows'[i] = row \/ (i \in DOMAIN rows /\ rows'[i] = rows[i])
    BY <2>2, <2>3
  <2> QED
    BY <2>2, <2>5, <2>6, RowsOfDays DEF AggregateInv
<1> QED
  BY <1>3, <1>4

LEMMA UpsertInv ==
  ASSUME ReportsInv, NEW w \in Workers, UpsertAggregate(w)
  PROVE  ReportsInv'
<1>1. ReportsTypeOK /\ WorkInv /\ QueryInv /\ AggregateInv /\ NightInv /\ ExportInv
  BY DEF ReportsInv
<1>2. PICK task : task = Head(calc[w].todo)
  OBVIOUS
<1>3. PICK row : row = [def |-> task.def, branch |-> task.branch, data |-> calc[w].data,
                        from |-> Label(w, task.day), to |-> Label(w, DayEnd(task.day))]
  OBVIOUS
<1>4. /\ calc[w].step = "upsert" /\ NextTask(w, TRUE) /\ UNCHANGED facts
      /\ UNCHANGED <<up, jobs, export, files, faults, begun>>
  BY DEF UpsertAggregate
<1>5. Upserted(row)
  BY <1>2, <1>3 DEF UpsertAggregate, Upserted
<1>6. night' = IF w = Nightly /\ night.calm THEN [night EXCEPT !.written = @ \cup {row}] ELSE night
  BY <1>2, <1>3 DEF UpsertAggregate
<1>7. UNCHANGED <<fact, now, zone>> /\ Settled /\ SameFacts
  BY <1>4, QuietFacts
<1>8. calc[w] \in Calculation /\ calc[w].todo \in Seq(Task) /\ calc[w].todo # <<>>
  BY <1>1, <1>4 DEF ReportsTypeOK, Calculation
<1>9. task = calc[w].todo[1] /\ 1 \in DOMAIN calc[w].todo /\ task \in Task
  BY <1>2, <1>8, HeadTail
<1>10. /\ nextRun' \in Int
       /\ calc' \in [Workers -> Calculation]
       /\ \A v \in Workers : (calc'[v].step = "idle") = (calc'[v].todo = <<>>)
       /\ \A h \in Handlers : export'[h].step # "idle" => calc'[h].step = "idle" /\ up'
       /\ ~up' => \A v \in Workers : calc'[v].step = "idle"
       /\ calc'[w].todo = Tail(calc[w].todo) /\ calc'[w].step # "upsert"
       /\ \A v \in Workers : v # w => calc'[v] = calc[v]
       /\ WorkInv'
  BY <1>1, <1>4, <1>7, NextTaskWork
<1>11. row \in Aggregates
  <2>1. zone \in Int /\ task.day \in Int /\ PerDay \in Int
    BY <1>1, <1>9, ReportsAssumption DEF ReportsTypeOK, Task
  <2>2. DayEnd(task.day) \in Int
    BY <2>1, Days
  <2>3. Label(w, task.day) \in Int /\ Label(w, DayEnd(task.day)) \in Int
    BY <2>1, <2>2, Days DEF Label
  <2> QED
    BY <1>3, <1>8, <1>9, <2>3 DEF Aggregates, Task, Calculation
<1>12. row.branch # AllBranches /\ Dated(row.def) => \E t \in Int : DayRow(row, t)
  <2> SUFFICES ASSUME row.branch # AllBranches, Dated(row.def) PROVE DayRow(row, task.day)
    BY <1>9 DEF Task
  <2>1. w = Nightly
    BY <1>1, <1>3, <1>9 DEF WorkInv, Workers
  <2>2. Midnight(task.day)
    BY <1>1, <1>9, <2>1 DEF WorkInv
  <2>3. OfDay(row.def, row.data, DayOf(task.day))
    BY <1>1, <1>2, <1>3, <1>4, <2>1 DEF QueryInv
  <2> QED
    BY <1>3, <2>1, <2>2, <2>3 DEF DayRow
<1>13. rows' \in Seq(Aggregates) /\ AggregateInv'
  BY <1>1, <1>5, <1>7, <1>11, <1>12, UpsertRows
<1>14. night' \in Night
  BY <1>1, <1>6, <1>11 DEF ReportsTypeOK, Night
<1>15. ReportsTypeOK'
  BY <1>1, <1>4, <1>7, <1>10, <1>13, <1>14 DEF ReportsTypeOK
<1>16. calc'[Nightly].step = "upsert" => calc'[Nightly] = calc[Nightly]
  BY <1>10 DEF Workers
<1>17. NightInv'
  <2>1. CASE w # Nightly
    BY <1>1, <1>6, <1>7, <1>10, <2>1, NightKept DEF Workers
  <2>2. CASE w = Nightly
    BY <1>1, <1>2, <1>3, <1>4, <1>6, <1>7, <1>8, <1>9, <1>10, <2>2, NightUpsert
  <2> QED
    BY <2>1, <2>2
<1> QED
  BY <1>1, <1>4, <1>7, <1>10, <1>13, <1>15, <1>16, <1>17, QueryKept, ExportsKept DEF ReportsInv

-----------------------------------------------------------------------------
(* The scheduler.                                                          *)

LEMMA WakeInv ==
  ASSUME ReportsInv, Wake
  PROVE  ReportsInv'
<1>1. ReportsTypeOK /\ WorkInv /\ QueryInv /\ AggregateInv /\ NightInv /\ ExportInv
  BY DEF ReportsInv
<1>2. PICK day : day = TargetDay(nextRun)
  OBVIOUS
<1>3. PICK todo : todo = Tasks(NightlyScopes, DaysOf(day, day))
  OBVIOUS
<1> DEFINE c == [NoWork EXCEPT !.step = "query", !.todo = todo]
<1>4. /\ up /\ calc[Nightly].step = "idle" /\ calc' = [calc EXCEPT ![Nightly] = c]
      /\ night' = [for |-> nextRun, calm |-> TRUE, written |-> {}]
      /\ UNCHANGED facts /\ UNCHANGED <<rows, nextRun, up, jobs, export, files, faults, begun>>
  BY <1>2, <1>3 DEF Wake
<1>5. UNCHANGED <<fact, now, zone>> /\ Settled /\ SameFacts
  BY <1>4, QuietFacts
<1>6. day \in Int /\ Midnight(day)
  BY <1>1, <1>2, Days DEF ReportsTypeOK
<1>7. /\ <<day>> \in Seq(Int) /\ <<day>> # <<>> /\ DOMAIN <<day>> = {1} /\ <<day>>[1] = day
      /\ todo = Tasks(NightlyScopes, <<day>>)
  <2>1. DayOf(day) \in Int
    BY <1>6, Days
  <2>2. DaysOf(day, day) = <<day>>
    BY <1>6, <2>1, DayList
  <2> QED
    BY <1>3, <1>6, <2>2
<1>8. NightlyScopes \in Seq(BranchIds \cup {AllBranches}) /\ NightlyScopes # <<>>
  BY Lists
<1>9. /\ todo \in Seq(Task) /\ todo # <<>>
      /\ \A i \in DOMAIN todo : \E j \in DOMAIN <<day>> : todo[i].day = <<day>>[j]
  BY <1>7, <1>8, TaskList
<1>10. \A i \in DOMAIN todo : todo[i].day = day
  BY <1>7, <1>9
<1>11. ASSUME NEW d \in SetOf(Definitions), NEW b \in BranchIds \cup {AllBranches}
       PROVE  \E i \in DOMAIN todo : todo[i].def = d /\ todo[i].branch = b
  <2>1. PICK j \in 1 .. Len(NightlyScopes) : NightlyScopes[j] = b
    BY Lists
  <2> QED
    BY <1>6, <1>7, <1>8, <2>1, EveryTask
<1>12. c \in Calculation /\ c.step = "query" /\ c.todo = todo
  BY <1>9, NoWorkType DEF Calculation
<1> HIDE DEF c
<1>13. Nightly \in Workers /\ Nightly \notin Handlers
  BY ReportsAssumption DEF Workers
<1>14. night' \in Night /\ night'.for = nextRun /\ night'.written = {}
  BY <1>1, <1>4 DEF ReportsTypeOK, Night
<1>15. ReportsTypeOK'
  BY <1>1, <1>4, <1>5, <1>9, <1>12, <1>13, <1>14, CalculationType DEF ReportsTypeOK
<1>16. calc'[Nightly] = c /\ \A v \in Workers : v # Nightly => calc'[v] = calc[v]
  BY <1>1, <1>4, <1>13 DEF ReportsTypeOK
<1>17. WorkInv'
  <2>1. \A h \in Handlers : calc'[h] = calc[h]
    BY <1>13, <1>16 DEF Workers
  <2>2. \A i \in DOMAIN calc'[Nightly].todo : calc'[Nightly].todo[i].day = day
    BY <1>10, <1>12, <1>16
  <2> QED
    BY <1>1, <1>6, <2>1, <2>2 DEF WorkInv, Midnight, DayOf
<1>18. NightInv'
  <2>1. Tonight' = day
    BY <1>2, <1>14 DEF Tonight, TargetDay, Truncated, DayOf
  <2>2. \A i \in DOMAIN calc'[Nightly].todo : calc'[Nightly].todo[i].day = Tonight'
    BY <1>10, <1>12, <1>16, <2>1
  <2>3. \A d \in SetOf(Definitions), b \in BranchIds \cup {AllBranches} : Due(d, b)'
    BY <1>11, <1>12, <1>16 DEF Due
  <2>4. calc'[Nightly].step # "upsert"
    BY <1>12, <1>16
  <2> QED
    BY <1>14, <2>2, <2>3, <2>4 DEF NightInv
<1>19. calc'[Nightly].step # "upsert"
  BY <1>12, <1>16
<1> QED
  BY <1>1, <1>4, <1>5, <1>15, <1>17, <1>18, <1>19, QueryKept, AggregatesKept, ExportsKept
     DEF ReportsInv

(* The scheduler cannot read the branches, or starts again.                *)
LEMMA ScheduleInv ==
  ASSUME ReportsInv, ListBranchesFails \/ Start
  PROVE  ReportsInv'
<1>1. ReportsTypeOK /\ WorkInv /\ QueryInv /\ AggregateInv /\ NightInv /\ ExportInv
  BY DEF ReportsInv
<1>2. UNCHANGED facts /\ UNCHANGED <<rows, calc, jobs, export, files, night, begun>>
  BY DEF ListBranchesFails, Start
<1>3. UNCHANGED <<fact, now, zone>> /\ Settled /\ SameFacts
  BY <1>2, QuietFacts
<1>4. nextRun' \in Int
  <2>1. now \in Int /\ zone \in Int /\ PerDay \in Int
    BY <1>1, ReportsAssumption DEF ReportsTypeOK
  <2>2. NextMidnight(now) \in Int
    BY <2>1, Days DEF NextMidnight
  <2> QED
    BY <2>2 DEF ListBranchesFails, Start
<1>5. faults' \in 0 .. MaxFaults
  BY <1>1, ReportsAssumption DEF ListBranchesFails, Start, ReportsTypeOK
<1>6. up' \in BOOLEAN /\ (up => up')
  BY <1>1 DEF ListBranchesFails, Start, ReportsTypeOK
<1>7. ReportsTypeOK'
  <2>1. \A h \in Handlers : export'[h].step # "idle" => calc'[h].step = "idle" /\ up'
    BY <1>1, <1>2, <1>6 DEF ReportsTypeOK
  <2>2. ~up' => \A w \in Workers : calc'[w].step = "idle"
    BY <1>1, <1>2, <1>6 DEF ReportsTypeOK
  <2> QED
    BY <1>1, <1>2, <1>3, <1>4, <1>5, <1>6, <2>1, <2>2 DEF ReportsTypeOK
<1>8. WorkInv'
  BY <1>1, <1>2 DEF WorkInv, Midnight, DayOf
<1> QED
  BY <1>1, <1>2, <1>3, <1>7, <1>8, QueryKept, AggregatesKept, NightKept, ExportsKept
     DEF ReportsInv

LEMMA StopInv ==
  ASSUME ReportsInv, Stop
  PROVE  ReportsInv'
<1>1. ReportsTypeOK /\ WorkInv /\ QueryInv /\ AggregateInv /\ NightInv /\ ExportInv
  BY DEF ReportsInv
<1>2. /\ UNCHANGED facts /\ UNCHANGED <<rows, nextRun, jobs, files, begun>>
      /\ up' = FALSE /\ night' = Disturbed /\ calc' = [w \in Workers |-> NoWork]
      /\ export' = [h \in Handlers |-> NoExport]
  BY DEF Stop, Stopped
<1>3. UNCHANGED <<fact, now, zone>> /\ Settled /\ SameFacts
  BY <1>2, QuietFacts
<1>4. faults' \in 0 .. MaxFaults
  BY <1>1, ReportsAssumption DEF Stop, ReportsTypeOK
<1>5. \A w \in Workers : calc'[w].step = "idle" /\ calc'[w].todo = <<>>
  BY <1>2 DEF NoWork
<1>6. \A h \in Handlers : export'[h].step = "idle"
  BY <1>2 DEF NoExport
<1>7. ReportsTypeOK'
  <2>1. calc' \in [Workers -> Calculation] /\ export' \in [Handlers -> Exporting]
    BY <1>2, NoWorkType
  <2>2. up' \in BOOLEAN /\ night' \in Night
    BY <1>2, NoWorkType
  <2> QED
    BY <1>1, <1>2, <1>3, <1>4, <1>5, <1>6, <2>1, <2>2 DEF ReportsTypeOK
<1>8. WorkInv'
  BY <1>5 DEF WorkInv, Workers
<1>9. NightInv'
  BY <1>2, NoWorkType DEF NightInv
<1>10. QueryInv'
  BY <1>5 DEF QueryInv, Workers
<1>11. ExportInv'
  <2>1. ASSUME NEW file \in files
        PROVE  OfBranch(JobReport(file.job), file.data, jobs[file.job].branch)'
    <3>1. PICK data, b, report : /\ data \in Data /\ data = file.data
                                 /\ b = jobs[file.job].branch /\ report = JobReport(file.job)
      BY <1>1 DEF ReportsTypeOK
    <3>2. OfBranch(report, data, b)
      BY <1>1, <3>1 DEF ExportInv
    <3>3. OfBranch(report, data, b)'
      BY <1>3, <3>1, <3>2, StaysCounted
    <3> QED
      BY <1>2, <3>1, <3>3 DEF OfBranch, JobReport
  <2> QED
    BY <1>1, <1>2, <1>6, <2>1 DEF ExportInv, JobReport
<1> QED
  BY <1>1, <1>2, <1>3, <1>7, <1>8, <1>9, <1>10, <1>11, AggregatesKept DEF ReportsInv

-----------------------------------------------------------------------------
(* Exports.                                                                *)

(* What a step of an export leaves alone.                                  *)
LEMMA ExportStepInv ==
  ASSUME ReportsInv, UNCHANGED facts, UNCHANGED <<rows, calc, nextRun, up, night>>,
         begun' \in 0 .. MaxBegun, faults' \in 0 .. MaxFaults,
         jobs' \in Seq(Job), export' \in [Handlers -> Exporting],
         files' \subseteq [job : Nat, data : Data],
         \A h \in Handlers : export'[h].step # "idle" => calc[h].step = "idle" /\ up,
         ExportInv'
  PROVE  ReportsInv'
<1>1. ReportsTypeOK /\ WorkInv /\ QueryInv /\ AggregateInv /\ NightInv
  BY DEF ReportsInv
<1>2. UNCHANGED <<fact, now, zone>> /\ Settled /\ SameFacts
  BY QuietFacts
<1>3. ReportsTypeOK'
  BY <1>1, <1>2 DEF ReportsTypeOK
<1>4. WorkInv'
  BY <1>1 DEF WorkInv, Midnight, DayOf
<1> QED
  BY <1>1, <1>2, <1>3, <1>4, QueryKept, AggregatesKept, NightKept DEF ReportsInv

LEMMA CreateJobInv ==
  ASSUME ReportsInv, NEW h \in Handlers, NEW kind \in ExportKinds, CreateJob(h, kind)
  PROVE  ReportsInv'
<1>1. ReportsTypeOK /\ ExportInv
  BY DEF ReportsInv
<1>2. PICK b \in ExportBranches(h, kind) :
        /\ up /\ export[h].step = "idle" /\ calc[h].step = "idle"
        /\ begun < MaxBegun /\ begun' = begun + 1
        /\ jobs' = Append(jobs, [branch |-> b, kind |-> kind, count |-> -1])
        /\ export' = [export EXCEPT ![h] = [NoExport EXCEPT !.step = "generate", !.job = Len(jobs) + 1]]
        /\ UNCHANGED <<facts, rows, calc, nextRun, up, files, night, faults>>
  BY DEF CreateJob
<1>3. b \in BranchIds
  BY ReportsAssumption DEF ExportBranches
<1> DEFINE job == [branch |-> b, kind |-> kind, count |-> -1]
           e == [NoExport EXCEPT !.step = "generate", !.job = Len(jobs) + 1]
<1>4. job \in Job
  BY <1>3 DEF Job
<1>5. jobs \in Seq(Job) /\ Len(jobs) \in Nat /\ DOMAIN jobs = 1 .. Len(jobs)
  BY <1>1 DEF ReportsTypeOK
<1>6. e \in Exporting /\ e.step = "generate" /\ e.job = Len(jobs) + 1
  <2>1. PICK n \in Nat : n = Len(jobs) + 1
    BY <1>5
  <2>2. e = [NoExport EXCEPT !.step = "generate", !.job = n]
    BY <2>1
  <2>3. NoExport \in Exporting
    BY NoWorkType
  <2> HIDE DEF e
  <2> QED
    BY <2>1, <2>2, <2>3 DEF Exporting
<1> HIDE DEF job, e
<1>7. /\ jobs' \in Seq(Job) /\ DOMAIN jobs' = 1 .. Len(jobs) + 1
      /\ \A i \in DOMAIN jobs : jobs'[i] = jobs[i]
  BY <1>2, <1>4, <1>5 DEF job
<1>8. /\ export' \in [Handlers -> Exporting] /\ export'[h] = e
      /\ \A g \in Handlers : g # h => export'[g] = export[g]
  BY <1>1, <1>2, <1>6 DEF ReportsTypeOK, e
<1>9. UNCHANGED facts /\ UNCHANGED <<rows, calc, nextRun, up, night, files>> /\ fact' = fact
  BY <1>2 DEF facts
<1>10. \A g \in Handlers : export'[g].step # "idle" => calc[g].step = "idle" /\ up
  BY <1>1, <1>2, <1>8 DEF ReportsTypeOK
<1>11. Len(jobs) + 1 \notin DOMAIN jobs
  BY <1>5
<1>12. ExportInv'
  <2>1. ASSUME NEW g \in Handlers, g # h, export'[g].step # "idle"
        PROVE  /\ export'[g].job \in DOMAIN jobs' /\ export'[g].job # export'[h].job
               /\ \A k \in Handlers : export'[k].step # "idle" /\ export'[k].job = export'[g].job => k = g
               /\ \A file \in files' : file.job # export'[g].job
               /\ export'[g].step = "finalise" =>
                    OfBranch(JobReport(export[g].job), export[g].data, jobs[export[g].job].branch)'
    <3>1. export'[g] = export[g] /\ export[g].step # "idle" /\ export[g].job \in DOMAIN jobs
      BY <1>1, <1>8, <2>1 DEF ExportInv
    <3>2. export'[g].job \in DOMAIN jobs' /\ export'[g].job # export'[h].job
      BY <1>5, <1>6, <1>7, <1>8, <1>11, <3>1
    <3>3. \A k \in Handlers : export'[k].step # "idle" /\ export'[k].job = export'[g].job => k = g
      BY <1>1, <1>8, <3>1, <3>2 DEF ExportInv
    <3>4. \A file \in files' : file.job # export'[g].job
      BY <1>1, <1>9, <3>1 DEF ExportInv
    <3>5. export'[g].step = "finalise" =>
                    OfBranch(JobReport(export[g].job), export[g].data, jobs[export[g].job].branch)'
      BY <1>1, <1>7, <1>9, <3>1 DEF ExportInv, OfBranch, CountedIn, Subject, JobReport
    <3> QED
      BY <3>1, <3>2, <3>3, <3>4, <3>5
  <2>2. /\ export'[h].job \in DOMAIN jobs' /\ export'[h].step # "finalise"
        /\ \A k \in Handlers : export'[k].step # "idle" /\ export'[k].job = export'[h].job => k = h
    BY <1>5, <1>6, <1>7, <1>8, <2>1
  <2>3. \A file \in files' : file.job \in DOMAIN jobs /\ file.job # export'[h].job
    BY <1>1, <1>6, <1>8, <1>9, <1>11 DEF ExportInv
  <2>4. \A file \in files' :
          /\ OfBranch(JobReport(file.job), file.data, jobs[file.job].branch)'
          /\ jobs'[file.job].count = Cardinality(Lines(JobReport(file.job)', file.data))
    BY <1>1, <1>7, <1>9, <2>3 DEF ExportInv, OfBranch, CountedIn, Subject, JobReport
  <2>5. \A file \in files' : file.job \in DOMAIN jobs'
    BY <1>5, <1>7, <2>3
  <2> QED
    BY <2>1, <2>2, <2>3, <2>4, <2>5 DEF ExportInv
<1>13. begun' \in 0 .. MaxBegun /\ faults' \in 0 .. MaxFaults
  BY <1>1, <1>2, ReportsAssumption DEF ReportsTypeOK
<1>14. files' \subseteq [job : Nat, data : Data]
  BY <1>1, <1>9 DEF ReportsTypeOK
<1> QED
  BY <1>7, <1>8, <1>9, <1>10, <1>12, <1>13, <1>14, ExportStepInv

LEMMA GenerateInv ==
  ASSUME ReportsInv, NEW h \in Handlers, NEW from \in Int, NEW to \in Int, Generate(h, from, to)
  PROVE  ReportsInv'
<1>1. ReportsTypeOK /\ ExportInv
  BY DEF ReportsInv
<1>2. PICK job : job = jobs[export[h].job]
  OBVIOUS
<1>3. PICK data : data = Exported(job.kind, job.branch, from, to)
  OBVIOUS
<1> DEFINE e == [export[h] EXCEPT !.step = "finalise", !.data = data]
<1>4. /\ export[h].step = "generate" /\ export' = [export EXCEPT ![h] = e] /\ UNCHANGED facts
      /\ UNCHANGED <<rows, calc, nextRun, up, jobs, files, night, faults, begun>>
  BY <1>2, <1>3 DEF Generate
<1>5. export[h] \in Exporting /\ export[h].job \in DOMAIN jobs
  BY <1>1, <1>4 DEF ReportsTypeOK, ExportInv
<1>6. job \in Job
  BY <1>1, <1>2, <1>5 DEF ReportsTypeOK
<1>7. data \in Data /\ OfBranch(ReportOf(job.kind), data, job.branch)
  BY <1>1, <1>3, <1>6, ExportOfBranch DEF Job
<1>8. e \in Exporting /\ e.step = "finalise" /\ e.job = export[h].job /\ e.data = data
  BY <1>5, <1>7 DEF Exporting
<1> HIDE DEF e
<1>9. /\ export' \in [Handlers -> Exporting] /\ export'[h] = e
      /\ \A g \in Handlers : g # h => export'[g] = export[g]
  BY <1>1, <1>4, <1>8 DEF ReportsTypeOK
<1>10. fact' = fact
  BY <1>4 DEF facts
<1>11. \A g \in Handlers : /\ export'[g].job = export[g].job
                           /\ export'[g].step # "idle" <=> export[g].step # "idle"
  BY <1>4, <1>8, <1>9
<1>12. ExportInv'
  <2>1. OfBranch(ReportOf(job.kind), data, job.branch)'
    BY <1>7, <1>10 DEF OfBranch, CountedIn, Subject
  <2>2. ASSUME NEW g \in Handlers, export'[g].step = "finalise"
        PROVE  OfBranch(JobReport(export[g].job), export[g].data, jobs[export[g].job].branch)'
    <3>1. CASE g = h
      BY <1>2, <1>4, <1>8, <1>9, <2>1, <3>1 DEF OfBranch, JobReport
    <3>2. CASE g # h
      BY <1>1, <1>4, <1>9, <1>10, <2>2, <3>2 DEF ExportInv, OfBranch, CountedIn, Subject, JobReport
    <3> QED
      BY <3>1, <3>2
  <2>3. \A file \in files' :
          /\ file.job \in DOMAIN jobs'
          /\ jobs'[file.job].count = Cardinality(Lines(JobReport(file.job)', file.data))
          /\ OfBranch(JobReport(file.job), file.data, jobs[file.job].branch)'
    BY <1>1, <1>4, <1>10 DEF ExportInv, OfBranch, CountedIn, Subject, JobReport
  <2>4. ASSUME NEW g \in Handlers, export'[g].step # "idle"
        PROVE  /\ export'[g].job \in DOMAIN jobs'
               /\ \A k \in Handlers : export'[k].step # "idle" /\ export'[k].job = export'[g].job => k = g
               /\ \A file \in files' : file.job # export'[g].job
    BY <1>1, <1>4, <1>11, <2>4 DEF ExportInv
  <2> QED
    BY <2>2, <2>3, <2>4 DEF ExportInv
<1>13. \A g \in Handlers : export'[g].step # "idle" => calc[g].step = "idle" /\ up
  BY <1>1, <1>11 DEF ReportsTypeOK
<1>14. /\ begun' \in 0 .. MaxBegun /\ faults' \in 0 .. MaxFaults /\ jobs' \in Seq(Job)
       /\ files' \subseteq [job : Nat, data : Data]
  BY <1>1, <1>4 DEF ReportsTypeOK
<1> QED
  BY <1>4, <1>9, <1>12, <1>13, <1>14, ExportStepInv

(* An export ends, with a file or without: its job, which no file and no   *)
(* other export has, gets a count.                                         *)
LEMMA ExportEnds ==
  ASSUME ReportsInv, NEW h \in Handlers, NEW count \in Nat \cup {-1}, NEW data \in Data,
         export[h].step # "idle", jobs' = [jobs EXCEPT ![export[h].job].count = count],
         export' = [export EXCEPT ![h] = NoExport],
         \/ files' = files
         \/ /\ files' = files \cup {[job |-> export[h].job, data |-> data]}
            /\ count = Cardinality(Lines(JobReport(export[h].job), data))
            /\ OfBranch(JobReport(export[h].job), data, jobs[export[h].job].branch),
         UNCHANGED <<facts, rows, calc, nextRun, up, night>>,
         begun' \in 0 .. MaxBegun, faults' \in 0 .. MaxFaults
  PROVE  ReportsInv'
<1>1. ReportsTypeOK /\ ExportInv
  BY DEF ReportsInv
<1>2. PICK n : n = export[h].job
  OBVIOUS
<1>3. /\ jobs \in Seq(Job) /\ n \in DOMAIN jobs /\ n \in Nat /\ jobs[n] \in Job
  BY <1>1, <1>2 DEF ReportsTypeOK, ExportInv, Exporting
<1> DEFINE job == [jobs[n] EXCEPT !.count = count]
<1>4. job \in Job /\ job.count = count /\ job.branch = jobs[n].branch /\ job.kind = jobs[n].kind
  BY <1>3 DEF Job
<1>5. jobs' = [jobs EXCEPT ![n] = job]
  BY <1>2
<1> HIDE DEF job
<1>6. /\ jobs' \in Seq(Job) /\ DOMAIN jobs' = DOMAIN jobs /\ jobs'[n] = job
      /\ \A i \in DOMAIN jobs : i # n => jobs'[i] = jobs[i]
  <2>1. Len(jobs) \in Nat /\ DOMAIN jobs = 1 .. Len(jobs) /\ jobs \in [1 .. Len(jobs) -> Job]
    BY <1>3
  <2>2. jobs' \in [1 .. Len(jobs) -> Job]
    BY <1>4, <1>5, <2>1
  <2>3. jobs' \in Seq(Job)
    BY <2>1, <2>2
  <2> QED
    BY <1>3, <1>5, <2>1, <2>2, <2>3
<1>7. \A i \in DOMAIN jobs : jobs'[i].branch = jobs[i].branch /\ JobReport(i)' = JobReport(i)
  BY <1>4, <1>6 DEF JobReport
<1>8. /\ export' \in [Handlers -> Exporting] /\ export'[h].step = "idle"
      /\ \A g \in Handlers : g # h => export'[g] = export[g]
  BY <1>1, NoWorkType DEF ReportsTypeOK, NoExport
<1>9. UNCHANGED facts /\ UNCHANGED <<rows, calc, nextRun, up, night>> /\ fact' = fact
  BY DEF facts
<1>10. /\ files' \subseteq [job : Nat, data : Data]
       /\ \A file \in files' :
            \/ file \in files
            \/ /\ file.job = n /\ file.data = data /\ count = Cardinality(Lines(JobReport(n), data))
               /\ OfBranch(JobReport(n), data, jobs[n].branch)
  BY <1>1, <1>2, <1>3 DEF ReportsTypeOK
<1>11. \A file \in files : file.job \in DOMAIN jobs /\ file.job # n
  BY <1>1, <1>2 DEF ExportInv
<1>12. \A g \in Handlers : export'[g].step # "idle" => g # h /\ export'[g] = export[g]
  BY <1>8
<1>13. ExportInv'
  <2>1. ASSUME NEW g \in Handlers, export'[g].step # "idle"
        PROVE  /\ export'[g].job \in DOMAIN jobs'
               /\ \A k \in Handlers : export'[k].step # "idle" /\ export'[k].job = export'[g].job => k = g
               /\ \A file \in files' : file.job # export'[g].job
               /\ export'[g].step = "finalise" =>
                    OfBranch(JobReport(export[g].job), export[g].data, jobs[export[g].job].branch)'
    <3>1. export'[g] = export[g] /\ g # h /\ export[g].step # "idle"
      BY <1>12, <2>1
    <3>2. export[g].job \in DOMAIN jobs /\ export[g].job # n
      BY <1>1, <1>2, <3>1 DEF ExportInv
    <3>3. export'[g].job \in DOMAIN jobs'
      BY <1>6, <3>1, <3>2
    <3>4. \A k \in Handlers : export'[k].step # "idle" /\ export'[k].job = export'[g].job => k = g
      BY <1>1, <1>12, <3>1 DEF ExportInv
    <3>5. \A file \in files' : file.job # export'[g].job
      BY <1>1, <1>10, <3>1, <3>2 DEF ExportInv
    <3>6. export'[g].step = "finalise" =>
                    OfBranch(JobReport(export[g].job), export[g].data, jobs[export[g].job].branch)'
      <4>1. OfBranch(JobReport(export[g].job), export[g].data, jobs[export[g].job].branch)
              \/ export[g].step # "finalise"
        BY <1>1, <3>1 DEF ExportInv
      <4> QED
        BY <1>7, <1>9, <3>1, <3>2, <4>1 DEF OfBranch, CountedIn, Subject
    <3> QED
      BY <3>3, <3>4, <3>5, <3>6
  <2>2. ASSUME NEW file \in files'
        PROVE  /\ file.job \in DOMAIN jobs'
               /\ jobs'[file.job].count = Cardinality(Lines(JobReport(file.job)', file.data))
               /\ OfBranch(JobReport(file.job), file.data, jobs[file.job].branch)'
    <3>1. CASE file \in files
      <4>1. file.job \in DOMAIN jobs /\ jobs'[file.job] = jobs[file.job]
        BY <1>6, <1>11, <3>1
      <4>2. /\ jobs[file.job].count = Cardinality(Lines(JobReport(file.job), file.data))
            /\ OfBranch(JobReport(file.job), file.data, jobs[file.job].branch)
        BY <1>1, <3>1 DEF ExportInv
      <4>3. PICK report, b : /\ report = JobReport(file.job) /\ report = JobReport(file.job)'
                             /\ b = jobs[file.job].branch /\ b = jobs'[file.job].branch
        BY <1>7, <4>1
      <4>4. OfBranch(report, file.data, b)'
        BY <1>9, <4>2, <4>3 DEF OfBranch, CountedIn, Subject
      <4>5. OfBranch(JobReport(file.job), file.data, jobs[file.job].branch)'
        BY <4>3, <4>4 DEF OfBranch
      <4> QED
        BY <1>6, <4>1, <4>2, <4>3, <4>5
    <3>2. CASE file \notin files
      <4>1. /\ file.job = n /\ file.data = data /\ count = Cardinality(Lines(JobReport(n), data))
            /\ OfBranch(JobReport(n), data, jobs[n].branch)
        BY <1>10, <3>2
      <4> QED
        BY <1>3, <1>4, <1>6, <1>7, <1>9, <4>1 DEF OfBranch, CountedIn, Subject
    <3> QED
      BY <3>1, <3>2
  <2> QED
    BY <2>1, <2>2 DEF ExportInv
<1>14. \A g \in Handlers : export'[g].step # "idle" => calc[g].step = "idle" /\ up
  BY <1>1, <1>12 DEF ReportsTypeOK
<1> QED
  BY <1>6, <1>8, <1>9, <1>10, <1>13, <1>14, ExportStepInv

(* The lines of an export that is under way can be counted.                *)
LEMMA LineCount ==
  ASSUME ReportsTypeOK, ExportInv, NEW h \in Handlers, export[h].step # "idle"
  PROVE  /\ LinesOf(export[h]) \in Nat
         /\ LinesOf(export[h]) = Cardinality(Lines(JobReport(export[h].job), export[h].data))
<1>1. jobs[export[h].job].kind \in ExportKinds /\ export[h].data \in Data
  <2>1. export[h].job \in DOMAIN jobs
    BY DEF ExportInv
  <2>2. jobs[export[h].job] \in Job /\ export[h] \in Exporting
    BY <2>1 DEF ReportsTypeOK
  <2> QED
    BY <2>2 DEF Job, Exporting
<1>2. JobReport(export[h].job) \in Templates \cup Listings
  BY <1>1, ReportsOfJobs DEF JobReport
<1>3. LinesOf(export[h]) = Cardinality(Lines(JobReport(export[h].job), export[h].data))
  BY DEF LinesOf, JobReport
<1> QED
  BY <1>1, <1>2, <1>3, FiniteLines

LEMMA FinaliseInv ==
  ASSUME ReportsInv, NEW h \in Handlers, Finalise(h)
  PROVE  ReportsInv'
<1>1. ReportsTypeOK /\ ExportInv
  BY DEF ReportsInv
<1>2. PICK data, count : data = export[h].data /\ count = LinesOf(export[h])
  OBVIOUS
<1>3. /\ export[h].step = "finalise"
      /\ jobs' = [jobs EXCEPT ![export[h].job].count = count]
      /\ files' = files \cup {[job |-> export[h].job, data |-> data]}
      /\ export' = [export EXCEPT ![h] = NoExport]
      /\ UNCHANGED <<facts, rows, calc, nextRun, up, night>> /\ UNCHANGED <<begun, faults>>
  BY <1>2 DEF Finalise
<1>4. data \in Data
  BY <1>1, <1>2 DEF ReportsTypeOK, Exporting
<1>5. count \in Nat /\ count = Cardinality(Lines(JobReport(export[h].job), data))
  BY <1>1, <1>2, <1>3, LineCount
<1>6. OfBranch(JobReport(export[h].job), data, jobs[export[h].job].branch)
  BY <1>1, <1>2, <1>3 DEF ExportInv
<1>7. begun' \in 0 .. MaxBegun /\ faults' \in 0 .. MaxFaults
  BY <1>1, <1>3 DEF ReportsTypeOK
<1> QED
  BY <1>3, <1>4, <1>5, <1>6, <1>7, ExportEnds

LEMMA ExportFailsInv ==
  ASSUME ReportsInv, NEW h \in Handlers, ExportFails(h)
  PROVE  ReportsInv'
<1>1. ReportsTypeOK /\ ExportInv
  BY DEF ReportsInv
<1>2. PICK n : n = LinesOf(export[h])
  OBVIOUS
<1>3. PICK count \in {0, n, jobs[export[h].job].count} :
        jobs' = [jobs EXCEPT ![export[h].job].count = count]
  BY <1>2 DEF ExportFails
<1>4. /\ export[h].step # "idle" /\ files' = files
      /\ export' = [export EXCEPT ![h] = NoExport]
      /\ UNCHANGED <<facts, rows, calc, nextRun, up, night>> /\ UNCHANGED begun
  BY DEF ExportFails
<1>5. n \in Nat
  BY <1>1, <1>2, <1>4, LineCount
<1>6. jobs[export[h].job] \in Job
  BY <1>1, <1>4 DEF ReportsTypeOK, ExportInv
<1>7. count \in Nat \cup {-1}
  BY <1>3, <1>5, <1>6 DEF Job
<1>8. begun' \in 0 .. MaxBegun /\ faults' \in 0 .. MaxFaults
  BY <1>1, <1>4, ReportsAssumption DEF ReportsTypeOK, ExportFails
<1> QED
  BY <1>3, <1>4, <1>7, <1>8, NoWorkType, ExportEnds

-----------------------------------------------------------------------------
(* The theorems.                                                           *)

LEMMA ReportsNextInv == ReportsInv /\ [ReportsNext]_reportVars => ReportsInv'
<1> SUFFICES ASSUME ReportsInv, [ReportsNext]_reportVars PROVE ReportsInv'
  OBVIOUS
<1>1. CASE UNCHANGED reportVars
  <2>1. /\ UNCHANGED facts
        /\ UNCHANGED <<rows, calc, nextRun, up, jobs, export, files, night, begun, faults>>
    BY <1>1 DEF reportVars
  <2>2. ReportsTypeOK /\ ExportInv
    BY DEF ReportsInv
  <2>3. ExportInv'
    BY <2>1, <2>2, QuietFacts, ExportsKept
  <2> QED
    BY <2>1, <2>2, <2>3, ExportStepInv DEF ReportsTypeOK
<1>2. CASE Tick
  BY <1>2, TickInv
<1>3. CASE FactNext
  BY <1>3, FactInv DEF FactNext
<1>4. CASE CalculationNext
  <2>1. ASSUME NEW h \in Handlers, NEW r \in Ranges, Recalculate(h, r[1], r[2])
        PROVE  ReportsInv'
    <3>1. r[1] \in Nat /\ r[2] \in Nat
      BY ReportsAssumption
    <3> QED
      BY <2>1, <3>1, RecalculateInv
  <2>2. ASSUME NEW w \in Workers, Query(w) \/ UpsertAggregate(w) \/ TaskFails(w)
        PROVE  ReportsInv'
    BY <2>2, QueryStepInv, UpsertInv, TaskFailsInv
  <2> QED
    BY <1>4, <2>1, <2>2 DEF CalculationNext
<1>5. CASE SchedulerNext
  BY <1>5, WakeInv, ScheduleInv, StopInv DEF SchedulerNext
<1>6. CASE ExportNext
  <2>1. ASSUME NEW h \in Handlers, NEW kind \in ExportKinds, CreateJob(h, kind)
        PROVE  ReportsInv'
    BY <2>1, CreateJobInv
  <2>2. ASSUME NEW h \in Handlers, NEW r \in Ranges, Generate(h, r[1] * PerDay, r[2] * PerDay)
        PROVE  ReportsInv'
    <3>1. r[1] * PerDay \in Int /\ r[2] * PerDay \in Int
      BY ReportsAssumption
    <3> QED
      BY <2>2, <3>1, GenerateInv
  <2> QED
    BY <1>6, <2>1, <2>2, FinaliseInv, ExportFailsInv DEF ExportNext
<1> QED
  BY <1>1, <1>2, <1>3, <1>4, <1>5, <1>6 DEF ReportsNext

(* The inductive invariant of aggregates and exports holds in every state  *)
(* that the server, its nightly job and its requests reach.                *)
THEOREM ReportsInvariance == ReportsSpec => []ReportsInv
BY ReportsInitInv, ReportsNextInv, PTL DEF ReportsSpec

(* Every variable keeps its type, no request computes and exports at once, *)
(* and nothing goes on while the server is down.                           *)
THEOREM ReportsTypeCorrect == ReportsSpec => []ReportsTypeOK
<1>1. ReportsInv => ReportsTypeOK
  BY DEF ReportsInv
<1> QED
  BY <1>1, ReportsInvariance, PTL

(* While a night is calm, a row that was written counts what its query     *)
(* counts, which are the rows of the day before the midnight of the job.   *)
LEMMA NightRow ==
  ASSUME ReportsTypeOK, NightInv, night.calm, NEW row \in night.written,
         Template[row.def] # "utilization"
  PROVE  CountsItsDay(row)
<1> DEFINE template == Template[row.def]
           t == Tonight
           day == {f \in Committed(Counts(Template[row.def]), row.branch) :
                     /\ Active(Template[row.def], f)
                     /\ DayOf(fact[f].at) = DayOf(night.for) - 1
                     /\ fact[f].at % PerDay # PerDay - 1}
<1>1. night.for \in Int
  BY DEF ReportsTypeOK, Night
<1>2. t \in Int /\ Midnight(t) /\ DayOf(t) = DayOf(night.for) - 1
  BY <1>1, Days DEF Tonight
<1>3. row.data = RunLiveQuery(row.branch, template, t, DayEnd(t))
  BY DEF NightInv, Counted
<1>4. row.data = Figures(template, Selected(row.branch, template, t, DayEnd(t)))
  BY <1>3 DEF RunLiveQuery, Selected
<1>5. \A f \in Facts : fact[f].at \in Int
  BY ReportsAssumption DEF ReportsTypeOK, FactRow
<1> HIDE DEF t
<1>6. ASSUME NEW f \in Facts
      PROVE  InPeriod(template, f, t, DayEnd(t))
               <=> DayOf(fact[f].at) = DayOf(night.for) - 1 /\ fact[f].at % PerDay # PerDay - 1
  <2>1. t <= fact[f].at /\ fact[f].at <= DayEnd(t)
          <=> DayOf(fact[f].at) = DayOf(t) /\ fact[f].at % PerDay # PerDay - 1
    BY <1>2, <1>5, DayPeriod
  <2> QED
    BY <1>2, <2>1 DEF InPeriod
<1>7. Selected(row.branch, template, t, DayEnd(t)) = day
  BY <1>6 DEF Selected, Committed
<1>8. row.data = Figures(template, day)
  BY <1>4, <1>7
<1> QED
  BY <1>8 DEF CountsItsDay

(* The queries of the branches make up the query of all branches and have  *)
(* readers in common at most.                                              *)
LEMMA BranchesAddUp ==
  ASSUME ReportsTypeOK, NEW template, NEW from, NEW to
  PROVE  /\ RunLiveQuery(AllBranches, template, from, to)
              = UNION {RunLiveQuery(b, template, from, to) : b \in BranchIds}
         /\ \A b, c \in BranchIds : b # c =>
              \A x \in RunLiveQuery(b, template, from, to) \cap RunLiveQuery(c, template, from, to) :
                CountsReaders(template, x[1])
<1> DEFINE Q(b) == RunLiveQuery(b, template, from, to)
           S(b) == Selected(b, template, from, to)
           F(f) == <<fact[f].kind[1], Subject(template, f), fact[f].status>>
<1>1. \A b : Q(b) = {F(f) : f \in S(b)}
  BY DEF RunLiveQuery, Figures, Selected
<1>2. AllBranches \notin BranchIds /\ \A f \in Facts : fact[f].kind[2] \in BranchIds
  <2>1. \A f \in Facts : fact[f].kind \in Tables \X BranchIds \X Readers
    BY ReportsAssumption DEF ReportsTypeOK, FactRow
  <2> QED
    BY <2>1, ReportsAssumption
<1>3. \A b \in BranchIds : \A f \in S(b) : f \in S(AllBranches) /\ fact[f].kind[2] = b
  BY <1>2 DEF Selected, Committed
<1>4. \A f \in S(AllBranches) : fact[f].kind[2] \in BranchIds /\ f \in S(fact[f].kind[2])
  BY <1>2 DEF Selected, Committed
<1> HIDE DEF S
<1>5. ASSUME NEW b \in BranchIds, NEW c \in BranchIds, b # c, NEW x \in Q(b) \cap Q(c)
      PROVE  CountsReaders(template, x[1])
  <2>1. PICK f \in S(b) : x = F(f)
    BY <1>1, <1>5
  <2>2. PICK g \in S(c) : x = F(g)
    BY <1>1, <1>5
  <2>3. fact[f].kind[1] = x[1] /\ Subject(template, f) = x[2]
    BY <2>1
  <2>4. fact[g].kind[1] = x[1] /\ Subject(template, g) = x[2]
    BY <2>2
  <2>5. f # g
    BY <1>3, <1>5
  <2> QED
    BY <2>3, <2>4, <2>5 DEF Subject
<1> HIDE DEF F
<1>6. \A b \in BranchIds : Q(b) \subseteq Q(AllBranches)
  BY <1>1, <1>3
<1>7. \A c \in Q(AllBranches) : \E b \in BranchIds : c \in Q(b)
  BY <1>1, <1>4
<1> HIDE DEF Q
<1>8. Q(AllBranches) = UNION {Q(b) : b \in BranchIds}
  BY <1>6, <1>7
<1>9. \A b, c \in BranchIds : b # c => \A x \in Q(b) \cap Q(c) : CountsReaders(template, x[1])
  BY <1>5
<1> QED
  BY <1>8, <1>9 DEF Q

(* An undisturbed nightly job, in whatever zone the server is, counts what *)
(* happened on the UTC day before the midnight that it ran for: its row of *)
(* all branches counts what those of the branches count, and two branches  *)
(* have nothing in common but readers who were active in both.             *)
THEOREM NightsAddUp == ReportsSpec => []NightAddsUp
<1>1. ReportsInv => NightAddsUp
  <2> SUFFICES ASSUME ReportsInv, Calm PROVE NightAddsUp
    BY DEF NightAddsUp
  <2>1. ReportsTypeOK /\ NightInv /\ night.calm /\ calc[Nightly].step = "idle"
    BY DEF ReportsInv, Calm
  <2>2. \A row \in night.written : Template[row.def] # "utilization" => CountsItsDay(row)
    BY <2>1, NightRow
  <2>3. CASE night.written = {}
    <3>1. \A d, b : Written(d, b) = {}
      BY <2>3 DEF Written
    <3> QED
      BY <2>2, <3>1 DEF NightAddsUp
  <2>4. CASE night.written # {}
    <3>1. calc[Nightly].todo = <<>>
      BY <2>1 DEF ReportsTypeOK, Workers
    <3>2. ASSUME NEW d \in SetOf(Definitions), NEW b \in BranchIds \cup {AllBranches}
          PROVE  Written(d, b) = Counted(d, b)
      <4>1. Due(d, b)
        BY <2>1, <2>4 DEF NightInv
      <4>2. \E row \in night.written : row.def = d /\ row.branch = b
        BY <3>1, <4>1 DEF Due
      <4>3. \A row \in night.written : row.data = Counted(row.def, row.branch)
        BY <2>1 DEF NightInv
      <4> QED
        BY <4>2, <4>3 DEF Written
    <3>3. ASSUME NEW d \in SetOf(Definitions)
          PROVE  /\ Written(d, AllBranches) = UNION {Written(d, b) : b \in BranchIds}
                 /\ \A b, c \in BranchIds : b # c =>
                      \A counted \in Written(d, b) \cap Written(d, c) :
                        CountsReaders(Template[d], counted[1])
      <4>1. /\ Counted(d, AllBranches) = UNION {Counted(d, b) : b \in BranchIds}
            /\ \A b, c \in BranchIds : b # c =>
                 \A counted \in Counted(d, b) \cap Counted(d, c) :
                   CountsReaders(Template[d], counted[1])
        BY <2>1, BranchesAddUp DEF Counted
      <4> QED
        BY <3>2, <4>1
    <3> QED
      BY <2>2, <3>3 DEF NightAddsUp
  <2> QED
    BY <2>3, <2>4
<1> QED
  BY <1>1, ReportsInvariance, PTL

(* No event, enrollment, registration or feedback is counted in two days   *)
(* of a branch, whatever was missed, repeated, or failed: all that two     *)
(* rows of a branch both count are readers who were active on both days.   *)
THEOREM NothingCountedTwice == ReportsSpec => []CountedOnce
<1>1. ReportsInv => CountedOnce
  <2> SUFFICES ASSUME ReportsInv,
                      NEW i \in DOMAIN rows, NEW j \in DOMAIN rows, i # j,
                      rows[i].def = rows[j].def, Dated(rows[i].def),
                      rows[i].branch = rows[j].branch, rows[i].branch # AllBranches,
                      NEW counted \in rows[i].data, NEW again \in rows[j].data,
                      counted[1] = again[1], counted[2] = again[2],
                      ~CountsReaders(Template[rows[i].def], counted[1])
               PROVE  FALSE
    BY DEF CountedOnce, Dated
  <2>1. AggregateInv
    BY DEF ReportsInv
  <2>2. PICK s \in Int : DayRow(rows[i], s)
    BY <2>1 DEF AggregateInv
  <2>3. PICK t \in Int : DayRow(rows[j], t)
    BY <2>1 DEF AggregateInv
  <2>4. CASE DayOf(s) = DayOf(t)
    <3>1. s = t
      BY <2>2, <2>3, <2>4 DEF DayRow, Midnight
    <3>2. SameKey(rows[i], rows[j])
      BY <2>2, <2>3, <3>1 DEF DayRow, SameKey
    <3> QED
      BY <2>1, <3>2 DEF AggregateInv
  <2>5. CASE DayOf(s) # DayOf(t)
    <3>1. DayOf(fact[counted[2]].at) = DayOf(s) /\ DayOf(fact[again[2]].at) = DayOf(t)
      BY <2>2, <2>3 DEF DayRow, OfDay
    <3> QED
      BY <2>5, <3>1
  <2> QED
    BY <2>4, <2>5
<1> QED
  BY <1>1, ReportsInvariance, PTL

(* A file that was answered is on record with the number of its lines, and *)
(* what it counts or lists is of the branch that the record names.         *)
THEOREM FilesOnRecord == ReportsSpec => []FileIsOnRecord
<1>1. ReportsInv => FileIsOnRecord
  BY DEF ReportsInv, ExportInv, FileIsOnRecord, OfBranch, CountedIn, JobReport
<1> QED
  BY <1>1, ReportsInvariance, PTL

=============================================================================
