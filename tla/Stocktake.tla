----------------------------- MODULE Stocktake -----------------------------
(***************************************************************************)
(* Taking stock of a branch: internal/domain/stocktake over                *)
(* internal/store/postgres/stocktake_repo.go, next to the additions and    *)
(* status changes of copies that go on meanwhile.                          *)
(*                                                                         *)
(* There are no transactions: every operation reads the session, decides,  *)
(* and writes in a later statement.  Two unique indexes, one active        *)
(* session per branch and one finding per session and barcode, decide the  *)
(* races.  The variance report is three queries, one after the other.      *)
(***************************************************************************)
EXTENDS Integers, FiniteSets

CONSTANTS
  Requests,       \* concurrent requests of the server
  Sessions,       \* ids of stocktake sessions
  Barcodes,       \* barcodes: of copies, present or future
  Branches,       \* library branches
  SessionBranch,  \* the branch each session is for
  CopyBranch,     \* the branch of the copy that has, or will have, a barcode
  Scope,          \* the branch scope of each request's user
  Catalogued,     \* barcodes with a copy when the behaviour starts
  StaffStatuses,  \* the statuses copies are given
  MaxEdits,       \* bound: additions and status changes of copies
  MaxFindings     \* bound: no scan begins when there are so many findings

AllBranches == "all"    \* the empty branch scope of an administrator

SessionStatuses == {"none", "open", "in_progress", "closed", "cancelled"}
Ended == {"closed", "cancelled"}
ActiveStatuses == {"open", "in_progress"}
CopyStatuses == {"available", "checked_out", "on_hold", "lost", "damaged",
                 "withdrawn", "in_transit", "processing"}
OffShelf == {"checked_out", "in_transit", "withdrawn"}

(* Findings that refer to a copy; an unexpected one has copy_id NULL. *)
Seen == {"found", "damaged"}
Findings == Seen \cup {"none", "unexpected"}

ASSUME StocktakeAssumption ==
  /\ Sessions # {} /\ Barcodes # {} /\ Requests # {} /\ IsFiniteSet(Requests)
  /\ SessionBranch \in [Sessions -> Branches]
  /\ CopyBranch \in [Barcodes -> Branches]
  /\ Scope \in [Requests -> Branches \cup {AllBranches}]
  /\ Catalogued \subseteq Barcodes
  /\ StaffStatuses \subseteq CopyStatuses
  /\ MaxEdits \in Nat /\ MaxFindings \in Nat

VARIABLES
  session,   \* stocktake_sessions.status, "none" before the INSERT
  finding,   \* stocktake_findings.finding_type by session and barcode
  copy,      \* copies.status_code, "absent" while no copy has the barcode
  req,       \* what each request has read so far
  edits,     \* changes of copies so far
  late       \* findings inserted after the end of the session (for properties)

vars == <<session, finding, copy, req, edits, late>>

-----------------------------------------------------------------------------
Steps == {"idle", "create", "close", "duplicate", "lookup", "record",
          "missing", "unexpected", "misplaced", "answer"}

(***************************************************************************)
(* type: the finding to insert, for a close the status to set; lists: the  *)
(* variances collected; disturbed: findings of the session or copies       *)
(* changed since a report began (read by properties only).                 *)
(***************************************************************************)
NoLists == [missing |-> {}, unexpected |-> {}, misplaced |-> {}]
Request == [step : Steps, session : Sessions, barcode : Barcodes,
            type : Findings \cup Ended,
            lists : [{"missing", "unexpected", "misplaced"} -> SUBSET Barcodes],
            disturbed : BOOLEAN]

Idle == [step |-> "idle", session |-> CHOOSE s \in Sessions : TRUE,
         barcode |-> CHOOSE k \in Barcodes : TRUE, type |-> "none",
         lists |-> NoLists, disturbed |-> FALSE]

InScope(h, s) == Scope[h] \in {AllBranches, SessionBranch[s]}

Init ==
  /\ session = [s \in Sessions |-> "none"]
  /\ finding = [s \in Sessions |-> [k \in Barcodes |-> "none"]]
  /\ copy = [k \in Barcodes |-> IF k \in Catalogued THEN "available" ELSE "absent"]
  /\ req = [h \in Requests |-> Idle]
  /\ edits = 0
  /\ late = [s \in Sessions |-> 0]

(* GetSession: the row exists and is in the caller's scope. *)
GetSession(h, s) == req[h].step = "idle" /\ session[s] # "none" /\ InScope(h, s)

Begin(h, request) == req' = [req EXCEPT ![h] = request]
End(h) == req' = [req EXCEPT ![h] = Idle]

(* Every report under way on one of these sessions. *)
DisturbReports(base, affected) ==
  [k \in Requests |->
     IF /\ base[k].step \in {"missing", "unexpected", "misplaced", "answer"}
        /\ base[k].session \in affected
     THEN [base[k] EXCEPT !.disturbed = TRUE] ELSE base[k]]

-----------------------------------------------------------------------------
(* Sessions.                                                               *)

Active(b) == {s \in Sessions : SessionBranch[s] = b /\ session[s] \in ActiveStatuses}

(* HasActiveSession counts none.  The branch is the request's own choice,  *)
(* the scope only its default; the id is nobody else's.                    *)
BeginCreate(h, s) ==
  /\ req[h].step = "idle" /\ session[s] = "none"
  /\ \A k \in Requests : req[k].step = "create" => req[k].session # s
  /\ Active(SessionBranch[s]) = {}
  /\ Begin(h, [Idle EXCEPT !.step = "create", !.session = s])
  /\ UNCHANGED <<session, finding, copy, edits, late>>

(* The partial unique index idx_stocktake_one_active; the variant trusts   *)
(* the count made before.                                                  *)
NoIndex(b) == Cardinality(Active(b)) <= Cardinality(Sessions)
OneActiveIndex(b) == Active(b) = {}

(* The status of a new session, and one the table does not know. *)
UnknownStatus == "started"
NewStatus == "open"

InsertSession(h) ==
  LET s == req[h].session IN
  /\ req[h].step = "create"
  /\ OneActiveIndex(SessionBranch[s])
  /\ session' = [session EXCEPT ![s] = NewStatus]
  /\ End(h)
  /\ UNCHANGED <<finding, copy, edits, late>>

BeginClose(h, s, target) ==
  /\ GetSession(h, s)
  /\ Begin(h, [Idle EXCEPT !.step = "close", !.session = s, !.type = target])
  /\ UNCHANGED <<session, finding, copy, edits, late>>

(* WHERE status IN ('open','in_progress'); the variant has lost it. *)
ClosableAny(s) == session[s] \in SessionStatuses
Closable(s) == session[s] \in ActiveStatuses

UpdateSessionStatus(h) ==
  LET s == req[h].session IN
  /\ req[h].step = "close" /\ Closable(s)
  /\ session' = [session EXCEPT ![s] = req[h].type]
  /\ End(h)
  /\ UNCHANGED <<finding, copy, edits, late>>

-----------------------------------------------------------------------------
(* Scans.                                                                  *)

(* The status check of RecordScan, the only one a scan makes. *)
ScannableAny(s) == session[s] \in SessionStatuses
Scannable(s) == session[s] \in ActiveStatuses

Recorded == {p \in Sessions \X Barcodes : finding[p[1]][p[2]] # "none"}

BeginScan(h, s, k) ==
  /\ GetSession(h, s) /\ Scannable(s)
  /\ Cardinality(Recorded) < MaxFindings
  /\ Begin(h, [Idle EXCEPT !.step = "duplicate", !.session = s, !.barcode = k])
  /\ UNCHANGED <<session, finding, copy, edits, late>>

(* GetFinding: a row ends the scan, anything else, a failure too, goes on. *)
GetFinding(h) ==
  /\ req[h].step = "duplicate"
  /\ \/ finding[req[h].session][req[h].barcode] # "none" /\ End(h)
     \/ req' = [req EXCEPT ![h].step = "lookup"]
  /\ UNCHANGED <<session, finding, copy, edits, late>>

(* GetByBarcode, in all branches; found or damaged, as the caller says. *)
LookupCopy(h, type) ==
  /\ req[h].step = "lookup" /\ copy[req[h].barcode] # "absent"
  /\ req' = [req EXCEPT ![h].step = "record", ![h].type = type]
  /\ UNCHANGED <<session, finding, copy, edits, late>>

(* No copy has the barcode, or the query failed: the code treats both as   *)
(* an unexpected item.                                                     *)
LookupNothing(h) ==
  /\ req[h].step = "lookup"
  /\ req' = [req EXCEPT ![h].step = "record", ![h].type = "unexpected"]
  /\ UNCHANGED <<session, finding, copy, edits, late>>

(* UNIQUE (session_id, scanned_barcode). *)
NewFinding(s, k) == finding[s][k] = "none"

(* The INSERT does not look at the status of the session again. *)
RecordFinding(h) ==
  LET s == req[h].session
      k == req[h].barcode IN
  /\ req[h].step = "record" /\ NewFinding(s, k)
  /\ finding' = [finding EXCEPT ![s][k] = req[h].type]
  /\ late' = [late EXCEPT ![s] = IF session[s] \in Ended THEN @ + 1 ELSE @]
  /\ req' = DisturbReports([req EXCEPT ![h] = Idle], {s})
  /\ UNCHANGED <<session, copy, edits>>

-----------------------------------------------------------------------------
(* The variance report.                                                    *)

(* Whatever the status of the session. *)
BeginReport(h, s) ==
  /\ GetSession(h, s)
  /\ Begin(h, [Idle EXCEPT !.step = "missing", !.session = s])
  /\ UNCHANGED <<session, finding, copy, edits, late>>

(* Copies of the branch that should be on the shelf and were not seen; the *)
(* variant counts only undamaged ones as seen.                             *)
MissingUndamaged(s) ==
  {k \in Barcodes : /\ copy[k] \notin OffShelf \cup {"absent"}
                    /\ CopyBranch[k] = SessionBranch[s]
                    /\ finding[s][k] # "found"}
Missing(s) ==
  {k \in Barcodes : /\ copy[k] \notin OffShelf \cup {"absent"}
                    /\ CopyBranch[k] = SessionBranch[s]
                    /\ finding[s][k] \notin Seen}

(* Findings without a copy. *)
Unexpected(s) == {k \in Barcodes : finding[s][k] = "unexpected"}

(* Findings whose copy belongs to another branch; the variant joins by     *)
(* barcode instead of copy_id.                                             *)
MisplacedByBarcode(s) ==
  {k \in Barcodes : /\ finding[s][k] # "none" /\ copy[k] # "absent"
                    /\ CopyBranch[k] # SessionBranch[s]}
Misplaced(s) ==
  {k \in Barcodes : finding[s][k] \in Seen /\ CopyBranch[k] # SessionBranch[s]}

Collect(h, list, next, found) ==
  /\ req[h].step = list
  /\ req' = [req EXCEPT ![h].step = next, ![h].lists[list] = found]
  /\ UNCHANGED <<session, finding, copy, edits, late>>

QueryMissing(h) == Collect(h, "missing", "unexpected", Missing(req[h].session))
QueryUnexpected(h) == Collect(h, "unexpected", "misplaced", Unexpected(req[h].session))
QueryMisplaced(h) == Collect(h, "misplaced", "answer", Misplaced(req[h].session))

Answer(h) ==
  /\ req[h].step = "answer"
  /\ End(h)
  /\ UNCHANGED <<session, finding, copy, edits, late>>

(* A unique index refuses the INSERT, the UPDATE matches no row, a         *)
(* statement fails, the client goes away or the server dies.               *)
Fail(h) ==
  /\ req[h].step # "idle"
  /\ End(h)
  /\ UNCHANGED <<session, finding, copy, edits, late>>

-----------------------------------------------------------------------------
(* Copies: AddCopy and UpdateCopyStatus of the holdings service, Checkout  *)
(* and Return of circulation.  No copy is ever deleted or given another    *)
(* barcode or branch.                                                      *)
Edit == edits < MaxEdits /\ edits' = edits + 1

AddCopy(k, st) ==
  /\ copy[k] = "absent" /\ Edit
  /\ copy' = [copy EXCEPT ![k] = st]
  /\ req' = DisturbReports(req, Sessions)
  /\ UNCHANGED <<session, finding, late>>

ChangeCopyStatus(k, st) ==
  /\ copy[k] # "absent" /\ Edit
  /\ copy' = [copy EXCEPT ![k] = st]
  /\ req' = DisturbReports(req, Sessions)
  /\ UNCHANGED <<session, finding, late>>

-----------------------------------------------------------------------------
RequestStep(h) ==
  \/ InsertSession(h) \/ UpdateSessionStatus(h)
  \/ GetFinding(h) \/ (\E type \in Seen : LookupCopy(h, type)) \/ LookupNothing(h) \/ RecordFinding(h)
  \/ QueryMissing(h) \/ QueryUnexpected(h) \/ QueryMisplaced(h) \/ Answer(h)
  \/ Fail(h)

BeginNext ==
  \E h \in Requests, s \in Sessions :
    \/ BeginCreate(h, s)
    \/ BeginReport(h, s)
    \/ \E target \in Ended : BeginClose(h, s, target)
    \/ \E k \in Barcodes : BeginScan(h, s, k)

CopyNext ==
  \E k \in Barcodes, st \in StaffStatuses : AddCopy(k, st) \/ ChangeCopyStatus(k, st)

Next == BeginNext \/ (\E h \in Requests : RequestStep(h)) \/ CopyNext

Spec == Init /\ [][Next]_vars

-----------------------------------------------------------------------------
(* Properties.                                                             *)

(* Types of the tables and the requests. *)
TypeOK ==
  /\ session \in [Sessions -> SessionStatuses]
  /\ finding \in [Sessions -> [Barcodes -> Findings]]
  /\ copy \in [Barcodes -> CopyStatuses \cup {"absent"}]
  /\ req \in [Requests -> Request]
  /\ edits \in 0 .. MaxEdits
  /\ late \in [Sessions -> Nat]

(* A branch never has two active sessions, though two requests may both    *)
(* have counted none.                                                      *)
OneActiveSession ==
  \A s, t \in Sessions :
    SessionBranch[s] = SessionBranch[t] /\ {session[s], session[t]} \subseteq ActiveStatuses
      => s = t

(* What is ended or recorded stays: of two requests that close and cancel  *)
(* a session, having both seen it open, one is refused, and so is one of   *)
(* two scans of a barcode at once.                                         *)
RecordsAreFinal ==
  [][\A s \in Sessions :
       /\ session[s] \in Ended => session'[s] = session[s]
       /\ \A k \in Barcodes :
            finding[s][k] # "none" => finding'[s][k] = finding[s][k]]_vars

(* A scan may be recorded after the end of its session, but only if it     *)
(* began before: no more findings come than other requests were under way  *)
(* when the session was closed.                                            *)
LateFindingsBounded == \A s \in Sessions : late[s] < Cardinality(Requests)

(* Reference: what a complete report says of one barcode.                  *)
Verdicts(s, k) ==
  LET home == CopyBranch[k] = SessionBranch[s]
      scanned == finding[s][k] # "none"
      known == scanned /\ finding[s][k] # "unexpected"
      due == home /\ copy[k] \in CopyStatuses \ OffShelf IN
  {v \in {"missing", "unexpected", "misplaced"} :
     \/ v = "missing" /\ due /\ ~known
     \/ v = "unexpected" /\ scanned /\ ~known
     \/ v = "misplaced" /\ known /\ ~home}

(* A report during which no copy changed and nothing was scanned says of   *)
(* each barcode what the reference says.                                   *)
UndisturbedReportIsRight ==
  \A h \in Requests : req[h].step = "answer" /\ ~req[h].disturbed =>
    \A k \in Barcodes :
      {v \in DOMAIN req[h].lists : k \in req[h].lists[v]} = Verdicts(req[h].session, k)
=============================================================================
