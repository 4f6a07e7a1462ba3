--------------------------- MODULE StocktakeProofs ---------------------------
(***************************************************************************)
(* Proofs about Stocktake, for every value of its constants.               *)
(***************************************************************************)
EXTENDS Stocktake, FiniteSetTheorems, TLAPS

-----------------------------------------------------------------------------
(* The inductive invariant.                                                *)

(* The id of a session that is being created is nobody else's. *)
CreateInv ==
  \A h \in Requests : req[h].step = "create" =>
    /\ session[req[h].session] = "none"
    /\ \A k \in Requests :
         req[k].step = "create" /\ req[k].session = req[h].session => k = h

(* A close has the status to set, a scan the finding to record.            *)
CloseInv ==
  \A h \in Requests :
    /\ req[h].step = "close" => req[h].type \in Ended
    /\ req[h].step # "close" => req[h].type \in Findings

(* The scans of a session under way.  Those that outlive it, together with *)
(* the findings they have recorded since, leave out at least the request   *)
(* that ended it.                                                          *)
Scans(h, s) == req[h].step \in {"duplicate", "lookup", "record"} /\ req[h].session = s
Scanning(s) == {h \in Requests : Scans(h, s)}
LateInv ==
  \A s \in Sessions :
    /\ session[s] \notin Ended => late[s] = 0
    /\ session[s] \in Ended => late[s] + Cardinality(Scanning(s)) < Cardinality(Requests)

(* What an undisturbed report has collected is still what its queries      *)
(* would return.                                                           *)
Collected(r) ==
  /\ r.step \in {"unexpected", "misplaced", "answer"} => r.lists["missing"] = Missing(r.session)
  /\ r.step \in {"misplaced", "answer"} => r.lists["unexpected"] = Unexpected(r.session)
  /\ r.step = "answer" => r.lists["misplaced"] = Misplaced(r.session)
Current(h) == ~req[h].disturbed => Collected(req[h])
ReportInv == \A h \in Requests : Current(h)

IInv == TypeOK /\ OneActiveSession /\ CreateInv /\ CloseInv /\ LateInv /\ ReportInv

-----------------------------------------------------------------------------
(* What the steps do to the requests.                                      *)

LEMMA IdleType ==
  /\ Idle \in Request /\ Idle.step = "idle" /\ Idle.disturbed = FALSE /\ Idle.type \in Findings
  /\ NoLists \in [{"missing", "unexpected", "misplaced"} -> SUBSET Barcodes]
BY StocktakeAssumption DEF Idle, Request, Steps, NoLists, Findings

Reporting(k, affected) ==
  /\ req[k].step \in {"missing", "unexpected", "misplaced", "answer"}
  /\ req[k].session \in affected

(* A request goes on with what it has read. *)
SameReads(k) ==
  /\ req'[k].step = req[k].step /\ req'[k].session = req[k].session
  /\ req'[k].barcode = req[k].barcode /\ req'[k].type = req[k].type
  /\ req'[k].lists = req[k].lists

LEMMA DisturbEffect ==
  ASSUME NEW base \in [Requests -> Request], NEW affected, NEW k \in Requests,
         base[k] = req[k], req' = DisturbReports(base, affected)
  PROVE  /\ SameReads(k) /\ req'[k] \in Request
         /\ Reporting(k, affected) => req'[k].disturbed = TRUE
         /\ ~Reporting(k, affected) => req'[k] = req[k]
<1>1. base[k] \in Request
  OBVIOUS
<1>2. CASE Reporting(k, affected)
  <2>1. req'[k] = [base[k] EXCEPT !.disturbed = TRUE]
    BY <1>2 DEF DisturbReports, Reporting
  <2> QED
    BY <1>1, <1>2, <2>1 DEF SameReads, Request
<1>3. CASE ~Reporting(k, affected)
  BY <1>1, <1>3 DEF DisturbReports, Reporting, SameReads
<1> QED
  BY <1>2, <1>3

(* When no scan of a session begins, the scans under way are not more than *)
(* before.                                                                 *)
LEMMA FewerScans ==
  ASSUME NEW s \in Sessions, \A h \in Requests : Scans(h, s)' => Scans(h, s)
  PROVE  /\ Cardinality(Scanning(s)) \in Nat /\ Cardinality(Scanning(s)') \in Nat
         /\ Cardinality(Scanning(s)') <= Cardinality(Scanning(s))
         /\ \A h \in Requests : Scans(h, s) /\ ~Scans(h, s)' =>
              Cardinality(Scanning(s)') < Cardinality(Scanning(s))
<1>1. Scanning(s)' \subseteq Scanning(s) /\ Scanning(s) \subseteq Requests
  BY DEF Scanning
<1>2. IsFiniteSet(Scanning(s)) /\ IsFiniteSet(Scanning(s)')
  BY <1>1, StocktakeAssumption, FS_Subset
<1>3. /\ Cardinality(Scanning(s)) \in Nat /\ Cardinality(Scanning(s)') \in Nat
      /\ Cardinality(Scanning(s)') <= Cardinality(Scanning(s))
  BY <1>1, <1>2, FS_Subset, FS_CardinalityType
<1>4. ASSUME NEW h \in Requests, Scans(h, s), ~Scans(h, s)'
      PROVE  Cardinality(Scanning(s)') < Cardinality(Scanning(s))
  <2>1. h \in Scanning(s) /\ h \notin Scanning(s)'
    BY <1>4 DEF Scanning
  <2>2. Scanning(s)' # Scanning(s)
    BY <2>1
  <2> QED
    BY <1>1, <1>2, <1>3, <2>2, FS_Subset
<1> QED
  BY <1>3, <1>4

LEMMA InitInv == Init => IInv
<1> SUFFICES ASSUME Init PROVE IInv
  OBVIOUS
<1>1. \A h \in Requests : req[h] = Idle
  BY DEF Init
<1>2. TypeOK
  BY <1>1, IdleType, StocktakeAssumption DEF Init, TypeOK, SessionStatuses, Findings, CopyStatuses
<1>3. OneActiveSession /\ CreateInv /\ CloseInv /\ LateInv
  BY <1>1, IdleType DEF Init, OneActiveSession, CreateInv, CloseInv, LateInv, ActiveStatuses, Ended
<1>4. ReportInv
  BY <1>1, IdleType DEF ReportInv, Current, Collected
<1> QED
  BY <1>2, <1>3, <1>4 DEF IInv

(* A step of one request that changes no table.                            *)
LEMMA OwnStepInv ==
  ASSUME IInv, NEW h \in Requests, NEW r \in Request, req' = [req EXCEPT ![h] = r],
         UNCHANGED <<session, finding, copy, edits, late>>,
         r.step = "create" =>
           /\ session[r.session] = "none"
           /\ \A k \in Requests : req[k].step = "create" /\ req[k].session = r.session => k = h,
         r.step \in {"duplicate", "lookup", "record"} =>
           session[r.session] \notin Ended \/ Scans(h, r.session),
         r.step = "close" => r.type \in Ended,
         r.step # "close" => r.type \in Findings,
         ~r.disturbed => Collected(r)
  PROVE  IInv'
<1> USE DEF IInv
<1>1. req'[h] = r /\ (\A k \in Requests \ {h} : req'[k] = req[k]) /\ TypeOK'
  BY DEF TypeOK
<1>2. OneActiveSession'
  BY DEF OneActiveSession
<1>3. CreateInv' /\ CloseInv'
  BY <1>1 DEF CreateInv, CloseInv
<1>4. LateInv'
  <2> SUFFICES ASSUME NEW s \in Sessions, session[s] \in Ended
               PROVE  late[s] + Cardinality(Scanning(s)') < Cardinality(Requests)
    BY DEF LateInv
  <2>1. \A k \in Requests : Scans(k, s)' => Scans(k, s)
    BY <1>1 DEF Scans
  <2>2. /\ late[s] + Cardinality(Scanning(s)) < Cardinality(Requests)
        /\ late[s] \in Nat /\ Cardinality(Requests) \in Nat
    BY StocktakeAssumption, FS_CardinalityType DEF LateInv, TypeOK
  <2> QED
    BY <2>1, <2>2, FewerScans
<1>5. ReportInv'
  <2>1. \A s : Missing(s)' = Missing(s) /\ Unexpected(s)' = Unexpected(s) /\ Misplaced(s)' = Misplaced(s)
    BY DEF Missing, Unexpected, Misplaced
  <2>2. \A k \in Requests : ~req'[k].disturbed => Collected(req'[k])
    BY <1>1 DEF ReportInv, Current
  <2> QED
    BY <2>1, <2>2 DEF ReportInv, Current, Collected
<1> QED
  BY <1>1, <1>2, <1>3, <1>4, <1>5

-----------------------------------------------------------------------------
(* The steps of a request that leave the tables alone.                     *)

LEMMA BeginInv ==
  ASSUME IInv, NEW h \in Requests, NEW s \in Sessions,
         \/ BeginCreate(h, s) \/ BeginReport(h, s)
         \/ \E target \in Ended : BeginClose(h, s, target)
         \/ \E k \in Barcodes : BeginScan(h, s, k)
  PROVE  IInv'
<1>1. CASE BeginCreate(h, s)
  <2> DEFINE r == [Idle EXCEPT !.step = "create", !.session = s]
  <2>1. r \in Request /\ r.step = "create" /\ r.session = s /\ r.type \in Findings
    BY IdleType DEF Request, Steps
  <2>2. /\ req' = [req EXCEPT ![h] = r] /\ UNCHANGED <<session, finding, copy, edits, late>>
        /\ session[s] = "none" /\ \A k \in Requests : req[k].step = "create" => req[k].session # s
    BY <1>1 DEF BeginCreate, Begin
  <2> HIDE DEF r
  <2> QED
    BY <2>1, <2>2, OwnStepInv DEF Collected
<1>2. CASE BeginReport(h, s)
  <2> DEFINE r == [Idle EXCEPT !.step = "missing", !.session = s]
  <2>1. r \in Request /\ r.step = "missing" /\ r.type \in Findings
    BY IdleType DEF Request, Steps
  <2>2. req' = [req EXCEPT ![h] = r] /\ UNCHANGED <<session, finding, copy, edits, late>>
    BY <1>2 DEF BeginReport, Begin
  <2> HIDE DEF r
  <2> QED
    BY <2>1, <2>2, OwnStepInv DEF Collected
<1>3. ASSUME NEW target \in Ended, BeginClose(h, s, target) PROVE IInv'
  <2> DEFINE r == [Idle EXCEPT !.step = "close", !.session = s, !.type = target]
  <2>1. r \in Request /\ r.step = "close" /\ r.type \in Ended
    BY IdleType DEF Request, Steps
  <2>2. req' = [req EXCEPT ![h] = r] /\ UNCHANGED <<session, finding, copy, edits, late>>
    BY <1>3 DEF BeginClose, Begin
  <2> HIDE DEF r
  <2> QED
    BY <2>1, <2>2, OwnStepInv DEF Collected
<1>4. ASSUME NEW k \in Barcodes, BeginScan(h, s, k) PROVE IInv'
  <2> DEFINE r == [Idle EXCEPT !.step = "duplicate", !.session = s, !.barcode = k]
  <2>1. r \in Request /\ r.step = "duplicate" /\ r.session = s /\ r.type \in Findings
    BY IdleType DEF Request, Steps
  <2>2. /\ req' = [req EXCEPT ![h] = r] /\ UNCHANGED <<session, finding, copy, edits, late>>
        /\ session[s] \notin Ended
    BY <1>4 DEF BeginScan, Begin, Scannable, ActiveStatuses, Ended
  <2> HIDE DEF r
  <2> QED
    BY <2>1, <2>2, OwnStepInv DEF Collected
<1> QED
  BY <1>1, <1>2, <1>3, <1>4

LEMMA EndInv ==
  ASSUME IInv, NEW h \in Requests, End(h), UNCHANGED <<session, finding, copy, edits, late>>
  PROVE  IInv'
BY IdleType, OwnStepInv DEF End, Collected

LEMMA ScanStepInv ==
  ASSUME IInv, NEW h \in Requests,
         GetFinding(h) \/ LookupNothing(h) \/ \E type \in Seen : LookupCopy(h, type)
  PROVE  IInv'
<1>1. req \in [Requests -> Request] /\ req[h] \in Request
  BY DEF IInv, TypeOK
<1>2. UNCHANGED <<session, finding, copy, edits, late>>
  BY DEF GetFinding, LookupNothing, LookupCopy
<1>3. CASE End(h)
  BY <1>2, <1>3, EndInv
<1>4. CASE ~End(h)
  <2>1. PICK step \in {"lookup", "record"}, type \in Findings :
          /\ req' = [req EXCEPT ![h] = [req[h] EXCEPT !.step = step, !.type = type]]
          /\ req[h].step \in {"duplicate", "lookup"}
    <3>1. ASSUME GetFinding(h)
          PROVE  /\ req' = [req EXCEPT ![h] = [req[h] EXCEPT !.step = "lookup", !.type = req[h].type]]
                 /\ req[h].step = "duplicate"
      BY <1>1, <1>4, <3>1 DEF GetFinding, Request
    <3>2. ASSUME LookupNothing(h)
          PROVE  /\ req' = [req EXCEPT ![h] = [req[h] EXCEPT !.step = "record", !.type = "unexpected"]]
                 /\ req[h].step = "lookup"
      BY <1>1, <3>2 DEF LookupNothing
    <3>3. ASSUME NEW type \in Seen, LookupCopy(h, type)
          PROVE  /\ req' = [req EXCEPT ![h] = [req[h] EXCEPT !.step = "record", !.type = type]]
                 /\ req[h].step = "lookup"
      BY <1>1, <3>3 DEF LookupCopy
    <3>4. /\ req[h].step # "close" => req[h].type \in Findings
          /\ Seen \subseteq Findings /\ "unexpected" \in Findings
      BY DEF IInv, CloseInv, Findings
    <3>5. CASE GetFinding(h)
      BY <3>1, <3>4, <3>5
    <3>6. CASE LookupNothing(h)
      BY <3>2, <3>4, <3>6
    <3>7. CASE \E type \in Seen : LookupCopy(h, type)
      BY <3>3, <3>4, <3>7
    <3> QED
      BY <3>5, <3>6, <3>7
  <2> DEFINE r == [req[h] EXCEPT !.step = step, !.type = type]
  <2>2. r \in Request /\ r.step = step /\ r.session = req[h].session /\ r.type = type
    BY <1>1 DEF Request, Steps
  <2>3. Scans(h, r.session)
    BY <2>1, <2>2 DEF Scans
  <2> HIDE DEF r
  <2> QED
    BY <1>2, <2>1, <2>2, <2>3, OwnStepInv DEF r, Collected
<1> QED
  BY <1>3, <1>4

(* The next list of a report is what its query returns now, and the lists  *)
(* of an undisturbed one are still what theirs would.                      *)
LEMMA CollectInv ==
  ASSUME IInv, NEW h \in Requests, QueryMissing(h) \/ QueryUnexpected(h) \/ QueryMisplaced(h)
  PROVE  IInv'
<1>1. /\ req \in [Requests -> Request] /\ req[h] \in Request
      /\ req[h].lists \in [{"missing", "unexpected", "misplaced"} -> SUBSET Barcodes]
  BY DEF IInv, TypeOK, Request
<1>2. UNCHANGED <<session, finding, copy, edits, late>>
  BY DEF QueryMissing, QueryUnexpected, QueryMisplaced, Collect
<1>3. PICK list \in {"missing", "unexpected", "misplaced"},
           next \in {"unexpected", "misplaced", "answer"}, found \in SUBSET Barcodes :
        /\ req[h].step = list
        /\ req' = [req EXCEPT ![h].step = next, ![h].lists[list] = found]
        /\ \/ list = "missing" /\ next = "unexpected" /\ found = Missing(req[h].session)
           \/ list = "unexpected" /\ next = "misplaced" /\ found = Unexpected(req[h].session)
           \/ list = "misplaced" /\ next = "answer" /\ found = Misplaced(req[h].session)
  <2>1. Missing(req[h].session) \in SUBSET Barcodes
    BY DEF Missing
  <2>2. Unexpected(req[h].session) \in SUBSET Barcodes
    BY DEF Unexpected
  <2>3. Misplaced(req[h].session) \in SUBSET Barcodes
    BY DEF Misplaced
  <2> QED
    BY <2>1, <2>2, <2>3 DEF QueryMissing, QueryUnexpected, QueryMisplaced, Collect
<1> DEFINE lists == [req[h].lists EXCEPT ![list] = found]
           r == [req[h] EXCEPT !.step = next, !.lists = lists]
<1>4. lists \in [{"missing", "unexpected", "misplaced"} -> SUBSET Barcodes]
  BY <1>1
<1>5. /\ r \in Request /\ r.step = next /\ r.lists = lists
      /\ r.session = req[h].session /\ r.disturbed = req[h].disturbed /\ r.type = req[h].type
  <2> HIDE DEF lists
  <2> QED
    BY <1>1, <1>4 DEF Request, Steps
<1>6. req' = [req EXCEPT ![h] = r]
  BY <1>1, <1>3
<1>7. ~r.disturbed => Collected(r)
  <2>1. ~r.disturbed => Collected(req[h])
    BY <1>5 DEF IInv, ReportInv, Current
  <2>2. lists[list] = found /\ \A l \in {"missing", "unexpected", "misplaced"} \ {list} : lists[l] = req[h].lists[l]
    BY <1>1
  <2> HIDE DEF r, lists
  <2> QED
    BY <1>3, <1>5, <2>1, <2>2 DEF Collected
<1>8. r.type \in Findings
  BY <1>3, <1>5 DEF IInv, CloseInv
<1> HIDE DEF r
<1> QED
  BY <1>2, <1>3, <1>5, <1>6, <1>7, <1>8, OwnStepInv

-----------------------------------------------------------------------------
(* The steps that change a table.                                          *)

LEMMA InsertSessionInv ==
  ASSUME IInv, NEW h \in Requests, InsertSession(h)
  PROVE  IInv'
<1> USE DEF IInv
<1>1. PICK s \in Sessions :
        /\ s = req[h].session /\ req[h].step = "create" /\ Active(SessionBranch[s]) = {}
        /\ session' = [session EXCEPT ![s] = "open"] /\ req' = [req EXCEPT ![h] = Idle]
        /\ UNCHANGED <<finding, copy, edits, late>>
  <2>1. req[h].session \in Sessions
    BY DEF TypeOK, Request
  <2> QED
    BY <2>1 DEF InsertSession, NewStatus, OneActiveIndex, End
<1>2. /\ req'[h] = Idle /\ \A k \in Requests \ {h} : req'[k] = req[k]
      /\ session'[s] = "open" /\ \A t \in Sessions \ {s} : session'[t] = session[t]
  BY <1>1 DEF TypeOK
<1>3. session[s] = "none"
  BY <1>1 DEF CreateInv
<1>4. TypeOK'
  BY <1>1, IdleType DEF TypeOK, SessionStatuses
<1>5. OneActiveSession'
  <2>1. \A t \in Sessions : SessionBranch[t] = SessionBranch[s] => session[t] \notin ActiveStatuses
    BY <1>1 DEF Active
  <2> QED
    BY <1>2, <2>1 DEF OneActiveSession
<1>6. CreateInv' /\ CloseInv'
  BY <1>1, <1>2, IdleType DEF CreateInv, CloseInv, TypeOK, Request
<1>7. LateInv'
  <2> SUFFICES ASSUME NEW t \in Sessions
               PROVE  /\ session'[t] \notin Ended => late'[t] = 0
                      /\ session'[t] \in Ended =>
                           late'[t] + Cardinality(Scanning(t)') < Cardinality(Requests)
    BY DEF LateInv
  <2>1. \A k \in Requests : Scans(k, t)' => Scans(k, t)
    BY <1>2, IdleType DEF Scans
  <2>2. late[t] \in Nat /\ Cardinality(Requests) \in Nat
    BY StocktakeAssumption, FS_CardinalityType DEF TypeOK
  <2> QED
    BY <1>1, <1>2, <1>3, <2>1, <2>2, FewerScans DEF LateInv, Ended
<1>8. ReportInv'
  <2>1. \A t : Missing(t)' = Missing(t) /\ Unexpected(t)' = Unexpected(t) /\ Misplaced(t)' = Misplaced(t)
    BY <1>1 DEF Missing, Unexpected, Misplaced
  <2> QED
    BY <1>2, <2>1, IdleType DEF ReportInv, Current, Collected
<1> QED
  BY <1>4, <1>5, <1>6, <1>7, <1>8

(* The request that ends a session scans nothing itself, so the scans that *)
(* outlive the session are fewer than the requests.                        *)
LEMMA UpdateStatusInv ==
  ASSUME IInv, NEW h \in Requests, UpdateSessionStatus(h)
  PROVE  IInv'
<1> USE DEF IInv
<1>1. PICK s \in Sessions, target \in Findings \cup Ended :
        /\ s = req[h].session /\ req[h].step = "close" /\ session[s] \in ActiveStatuses
        /\ session' = [session EXCEPT ![s] = target] /\ req' = [req EXCEPT ![h] = Idle]
        /\ UNCHANGED <<finding, copy, edits, late>>
        /\ target = req[h].type
  <2>1. req[h].session \in Sessions /\ req[h].type \in Findings \cup Ended
    BY DEF TypeOK, Request
  <2> QED
    BY <2>1 DEF UpdateSessionStatus, Closable, End
<1>2. /\ req'[h] = Idle /\ \A k \in Requests \ {h} : req'[k] = req[k]
      /\ session'[s] = target /\ \A t \in Sessions \ {s} : session'[t] = session[t]
  BY <1>1 DEF TypeOK
<1>3. target \in Ended
  BY <1>1 DEF CloseInv
<1>4. TypeOK'
  BY <1>1, <1>3, IdleType DEF TypeOK, SessionStatuses, Ended
<1>5. OneActiveSession'
  BY <1>1, <1>2 DEF OneActiveSession
<1>6. CreateInv' /\ CloseInv'
  BY <1>1, <1>2, IdleType DEF CreateInv, CloseInv, TypeOK, Request, ActiveStatuses
<1>7. LateInv'
  <2> SUFFICES ASSUME NEW t \in Sessions
               PROVE  /\ session'[t] \notin Ended => late'[t] = 0
                      /\ session'[t] \in Ended =>
                           late'[t] + Cardinality(Scanning(t)') < Cardinality(Requests)
    BY DEF LateInv
  <2>1. \A k \in Requests : Scans(k, t)' => Scans(k, t)
    BY <1>2, IdleType DEF Scans
  <2>2. late[t] \in Nat /\ Cardinality(Requests) \in Nat
    BY StocktakeAssumption, FS_CardinalityType DEF TypeOK
  <2>3. CASE t = s
    <3>1. Scanning(t)' \subseteq Requests \ {h}
      BY <1>2, IdleType DEF Scanning, Scans
    <3>2. IsFiniteSet(Requests \ {h}) /\ Cardinality(Requests \ {h}) = Cardinality(Requests) - 1
      BY StocktakeAssumption, FS_RemoveElement
    <3>3. Cardinality(Scanning(t)') <= Cardinality(Requests) - 1
      BY <3>1, <3>2, FS_Subset
    <3>4. Cardinality(Scanning(t)') \in Nat
      BY <2>1, FewerScans
    <3>5. late'[t] = 0
      BY <1>1, <2>3 DEF LateInv, ActiveStatuses, Ended
    <3> QED
      BY <2>2, <3>3, <3>4, <3>5
  <2>4. CASE t # s
    BY <1>1, <1>2, <2>1, <2>2, <2>4, FewerScans DEF LateInv
  <2> QED
    BY <2>3, <2>4
<1>8. ReportInv'
  <2>1. \A t : Missing(t)' = Missing(t) /\ Unexpected(t)' = Unexpected(t) /\ Misplaced(t)' = Misplaced(t)
    BY <1>1 DEF Missing, Unexpected, Misplaced
  <2> QED
    BY <1>2, <2>1, IdleType DEF ReportInv, Current, Collected
<1> QED
  BY <1>4, <1>5, <1>6, <1>7, <1>8

(* A scan that is recorded is one less under way, and one finding more;    *)
(* the reports of its session are disturbed.                               *)
LEMMA RecordFindingInv ==
  ASSUME IInv, NEW h \in Requests, RecordFinding(h)
  PROVE  IInv'
<1> USE DEF IInv
<1>1. PICK s \in Sessions, k \in Barcodes :
        /\ s = req[h].session /\ req[h].step = "record" /\ finding[s][k] = "none"
        /\ finding' = [finding EXCEPT ![s][k] = req[h].type]
        /\ late' = [late EXCEPT ![s] = IF session[s] \in Ended THEN late[s] + 1 ELSE late[s]]
        /\ req' = DisturbReports([req EXCEPT ![h] = Idle], {s})
        /\ UNCHANGED <<session, copy, edits>>
  <2>1. req[h].session \in Sessions /\ req[h].barcode \in Barcodes
    BY DEF TypeOK, Request
  <2> QED
    BY <2>1 DEF RecordFinding, NewFinding
<1>2. req' \in [Requests -> Request]
  BY <1>1, IdleType DEF TypeOK, DisturbReports, Request
<1>3. req'[h] = Idle
  BY <1>1, IdleType DEF TypeOK, DisturbReports
<1>4. \A j \in Requests \ {h} :
        /\ SameReads(j)
        /\ Reporting(j, {s}) => req'[j].disturbed = TRUE
        /\ ~Reporting(j, {s}) => req'[j] = req[j]
  <2> DEFINE base == [req EXCEPT ![h] = Idle]
  <2>1. base \in [Requests -> Request] /\ \A j \in Requests \ {h} : base[j] = req[j]
    BY IdleType DEF TypeOK
  <2>2. req' = DisturbReports(base, {s})
    BY <1>1
  <2> HIDE DEF base
  <2> QED
    BY <2>1, <2>2, DisturbEffect
<1>5. TypeOK'
  <2>1. req[h].type \in Findings
    BY <1>1 DEF CloseInv
  <2>2. finding' \in [Sessions -> [Barcodes -> Findings]]
    BY <1>1, <2>1 DEF TypeOK
  <2>3. late' \in [Sessions -> Nat]
    BY <1>1 DEF TypeOK
  <2> QED
    BY <1>1, <1>2, <2>2, <2>3 DEF TypeOK
<1>6. OneActiveSession'
  BY <1>1 DEF OneActiveSession
<1>7. CreateInv' /\ CloseInv'
  <2>1. req'[h].step = "idle" /\ req'[h].type \in Findings
    BY <1>3, IdleType
  <2>2. \A j \in Requests : req'[j].step = "create" =>
          req[j].step = "create" /\ req[j].session = req'[j].session
    BY <1>4, <2>1 DEF SameReads
  <2>3. session' = session
    BY <1>1
  <2>4. CreateInv'
    BY <2>2, <2>3 DEF CreateInv
  <2>5. CloseInv'
    BY <1>4, <2>1 DEF CloseInv, SameReads
  <2> QED
    BY <2>4, <2>5
<1>8. LateInv'
  <2> SUFFICES ASSUME NEW t \in Sessions
               PROVE  /\ session'[t] \notin Ended => late'[t] = 0
                      /\ session'[t] \in Ended =>
                           late'[t] + Cardinality(Scanning(t)') < Cardinality(Requests)
    BY DEF LateInv
  <2>1. \A j \in Requests : Scans(j, t)' => Scans(j, t)
    BY <1>3, <1>4, IdleType DEF Scans, SameReads
  <2>2. late[t] \in Nat /\ Cardinality(Requests) \in Nat
    BY StocktakeAssumption, FS_CardinalityType DEF TypeOK
  <2>3. CASE t = s
    <3>1. Scans(h, t) /\ ~Scans(h, t)'
      BY <1>1, <1>3, <2>3, IdleType DEF Scans
    <3>2. /\ Cardinality(Scanning(t)') < Cardinality(Scanning(t))
          /\ Cardinality(Scanning(t)') \in Nat /\ Cardinality(Scanning(t)) \in Nat
      BY <2>1, <3>1, FewerScans
    <3>3. late'[t] = (IF session[t] \in Ended THEN late[t] + 1 ELSE late[t]) /\ session'[t] = session[t]
      BY <1>1, <2>3 DEF TypeOK
    <3> QED
      BY <2>2, <3>2, <3>3 DEF LateInv
  <2>4. CASE t # s
    BY <1>1, <2>1, <2>2, <2>4, FewerScans DEF LateInv
  <2> QED
    BY <2>3, <2>4
<1>9. ReportInv'
  <2> SUFFICES ASSUME NEW j \in Requests PROVE Current(j)'
    BY DEF ReportInv
  <2>1. CASE j = h
    BY <1>3, <2>1, IdleType DEF Current, Collected
  <2>2. CASE j # h /\ Reporting(j, {s})
    BY <1>4, <2>2 DEF Current
  <2>3. CASE j # h /\ ~Reporting(j, {s})
    <3>1. req'[j] = req[j]
      BY <1>4, <2>3
    <3>2. CASE req[j].step \in {"missing", "unexpected", "misplaced", "answer"}
      <4>1. req[j].session \in Sessions \ {s}
        BY <2>3, <3>2 DEF Reporting, TypeOK, Request
      <4>2. finding'[req[j].session] = finding[req[j].session] /\ copy' = copy
        BY <1>1, <4>1 DEF TypeOK
      <4> QED
        BY <3>1, <4>2 DEF ReportInv, Current, Collected, Missing, Unexpected, Misplaced
    <3>3. CASE req[j].step \notin {"missing", "unexpected", "misplaced", "answer"}
      BY <3>1, <3>3 DEF Current, Collected
    <3> QED
      BY <3>2, <3>3
  <2> QED
    BY <2>1, <2>2, <2>3
<1> QED
  BY <1>5, <1>6, <1>7, <1>8, <1>9

LEMMA CopiesInv ==
  ASSUME IInv, NEW k \in Barcodes, NEW st \in StaffStatuses, AddCopy(k, st) \/ ChangeCopyStatus(k, st)
  PROVE  IInv'
<1> USE DEF IInv
<1>1. /\ edits < MaxEdits /\ edits' = edits + 1
      /\ copy' = [copy EXCEPT ![k] = st]
      /\ req' = DisturbReports(req, Sessions)
      /\ UNCHANGED <<session, finding, late>>
  BY DEF AddCopy, ChangeCopyStatus, Edit
<1>2. req' \in [Requests -> Request]
  <2>1. \A j \in Requests : req[j] \in Request /\ [req[j] EXCEPT !.disturbed = TRUE] \in Request
    BY DEF TypeOK, Request
  <2> QED
    BY <1>1, <2>1 DEF DisturbReports
<1>3. \A j \in Requests :
        /\ SameReads(j)
        /\ Reporting(j, Sessions) => req'[j].disturbed = TRUE
        /\ ~Reporting(j, Sessions) => req'[j] = req[j]
  BY <1>1, DisturbEffect DEF TypeOK
<1>4. TypeOK'
  <2>1. edits' \in 0 .. MaxEdits
    BY <1>1, StocktakeAssumption DEF TypeOK
  <2> QED
    BY <1>1, <1>2, <2>1, StocktakeAssumption DEF TypeOK
<1>5. OneActiveSession' /\ CreateInv' /\ CloseInv'
  BY <1>1, <1>3 DEF OneActiveSession, CreateInv, CloseInv, SameReads
<1>6. LateInv'
  <2> SUFFICES ASSUME NEW t \in Sessions
               PROVE  session[t] \in Ended =>
                        late[t] + Cardinality(Scanning(t)') < Cardinality(Requests)
    BY <1>1 DEF LateInv
  <2>1. \A j \in Requests : Scans(j, t)' => Scans(j, t)
    BY <1>3 DEF Scans, SameReads
  <2>2. late[t] \in Nat /\ Cardinality(Requests) \in Nat
    BY StocktakeAssumption, FS_CardinalityType DEF TypeOK
  <2> QED
    BY <2>1, <2>2, FewerScans DEF LateInv
<1>7. ReportInv'
  BY <1>3 DEF ReportInv, Current, Collected, Reporting, TypeOK, Request
<1> QED
  BY <1>4, <1>5, <1>6, <1>7

LEMMA NextInv == IInv /\ [Next]_vars => IInv'
<1> SUFFICES ASSUME IInv, [Next]_vars PROVE IInv'
  OBVIOUS
<1>1. CASE BeginNext
  BY <1>1, BeginInv DEF BeginNext
<1>2. ASSUME NEW h \in Requests, RequestStep(h) PROVE IInv'
  <2>1. CASE InsertSession(h)
    BY <2>1, InsertSessionInv
  <2>2. CASE UpdateSessionStatus(h)
    BY <2>2, UpdateStatusInv
  <2>3. CASE GetFinding(h) \/ LookupNothing(h) \/ \E type \in Seen : LookupCopy(h, type)
    BY <2>3, ScanStepInv
  <2>4. CASE RecordFinding(h)
    BY <2>4, RecordFindingInv
  <2>5. CASE QueryMissing(h) \/ QueryUnexpected(h) \/ QueryMisplaced(h)
    BY <2>5, CollectInv
  <2>6. CASE Answer(h) \/ Fail(h)
    BY <2>6, EndInv DEF Answer, Fail
  <2> QED
    BY <1>2, <2>1, <2>2, <2>3, <2>4, <2>5, <2>6 DEF RequestStep
<1>3. CASE CopyNext
  BY <1>3, CopiesInv DEF CopyNext
<1>4. CASE UNCHANGED vars
  BY <1>4 DEF vars, IInv, TypeOK, OneActiveSession, CreateInv, CloseInv, LateInv, Scanning, Scans,
              ReportInv, Current, Collected, Missing, Unexpected, Misplaced
<1> QED
  BY <1>1, <1>2, <1>3, <1>4 DEF Next

-----------------------------------------------------------------------------
(* What taking stock promises.                                             *)

(* The inductive invariant holds throughout. *)
THEOREM Invariance == Spec => []IInv
BY InitInv, NextInv, PTL DEF Spec

(* Type correctness, and the index that refuses the second of two sessions *)
(* whose requests both counted none.                                       *)
THEOREM TypeCorrect == Spec => []TypeOK
<1>1. IInv => TypeOK
  BY DEF IInv
<1> QED
  BY <1>1, Invariance, PTL

(* A branch never has two active sessions. *)
THEOREM OneSession == Spec => []OneActiveSession
<1>1. IInv => OneActiveSession
  BY DEF IInv
<1> QED
  BY <1>1, Invariance, PTL

(* The findings that come after the end of a session are fewer than the    *)
(* requests the server runs at once.                                       *)
THEOREM LateFindings == Spec => []LateFindingsBounded
<1>1. IInv => LateFindingsBounded
  <2> SUFFICES ASSUME IInv, NEW s \in Sessions PROVE late[s] < Cardinality(Requests)
    BY DEF LateFindingsBounded
  <2>1. late[s] \in Nat /\ Cardinality(Requests) \in Nat /\ Cardinality(Requests) # 0
    BY StocktakeAssumption, FS_CardinalityType, FS_EmptySet DEF IInv, TypeOK
  <2>2. Scanning(s) \subseteq Requests
    BY DEF Scanning
  <2>3. Cardinality(Scanning(s)) \in Nat
    BY <2>2, StocktakeAssumption, FS_Subset, FS_CardinalityType
  <2> QED
    BY <2>1, <2>3 DEF IInv, LateInv
<1> QED
  BY <1>1, Invariance, PTL

(* A report nothing disturbed says of each barcode what the reference says *)
(* of the tables as they are when it answers.                              *)
THEOREM ReportsAreRight == Spec => []UndisturbedReportIsRight
<1>1. IInv => UndisturbedReportIsRight
  <2> SUFFICES ASSUME IInv, NEW h \in Requests, req[h].step = "answer", ~req[h].disturbed,
                      NEW k \in Barcodes
               PROVE  {v \in DOMAIN req[h].lists : k \in req[h].lists[v]} = Verdicts(req[h].session, k)
    BY DEF UndisturbedReportIsRight
  <2>1. PICK s \in Sessions : s = req[h].session
    BY DEF IInv, TypeOK, Request
  <2>2. /\ req[h].lists["missing"] = Missing(s) /\ req[h].lists["unexpected"] = Unexpected(s)
        /\ req[h].lists["misplaced"] = Misplaced(s)
    BY <2>1 DEF IInv, ReportInv, Current, Collected
  <2>3. DOMAIN req[h].lists = {"missing", "unexpected", "misplaced"}
    BY DEF IInv, TypeOK, Request
  <2>4. finding[s][k] \in Findings /\ copy[k] \in CopyStatuses \cup {"absent"}
    BY DEF IInv, TypeOK
  <2>5. "absent" \notin CopyStatuses
    BY DEF CopyStatuses
  <2>6. k \in Missing(s) <=> "missing" \in Verdicts(s, k)
    BY <2>4, <2>5 DEF Missing, Verdicts, Findings, Seen
  <2>7. k \in Unexpected(s) <=> "unexpected" \in Verdicts(s, k)
    BY <2>4 DEF Unexpected, Verdicts
  <2>8. k \in Misplaced(s) <=> "misplaced" \in Verdicts(s, k)
    BY <2>4 DEF Misplaced, Verdicts, Findings, Seen
  <2>9. Verdicts(s, k) \subseteq {"missing", "unexpected", "misplaced"}
    BY DEF Verdicts
  <2> QED
    BY <2>1, <2>2, <2>3, <2>6, <2>7, <2>8, <2>9
<1> QED
  BY <1>1, Invariance, PTL

(* An ended session stays ended, and a finding stays as it was recorded.   *)
THEOREM RecordsStay == Spec => RecordsAreFinal
<1> DEFINE Sound == \A s \in Sessions :
       /\ session[s] \in Ended => session'[s] = session[s]
       /\ \A k \in Barcodes :
            finding[s][k] # "none" => finding'[s][k] = finding[s][k]
<1>1. IInv /\ [Next]_vars => [Sound]_vars
  <2> SUFFICES ASSUME IInv, Next PROVE Sound
    BY DEF vars
  <2>1. ASSUME UNCHANGED <<session, finding>> PROVE Sound
    BY <2>1
  <2>2. ASSUME NEW h \in Requests, InsertSession(h) PROVE Sound
    <3>1. session[req[h].session] = "none"
      BY <2>2 DEF InsertSession, IInv, CreateInv
    <3> QED
      BY <2>2, <3>1 DEF InsertSession, IInv, TypeOK, Ended
  <2>3. ASSUME NEW h \in Requests, UpdateSessionStatus(h) PROVE Sound
    BY <2>3 DEF UpdateSessionStatus, Closable, ActiveStatuses, Ended, IInv, TypeOK
  <2>4. ASSUME NEW h \in Requests, RecordFinding(h) PROVE Sound
    BY <2>4 DEF RecordFinding, NewFinding, IInv, TypeOK
  <2>5. CASE BeginNext \/ CopyNext
    BY <2>1, <2>5 DEF BeginNext, BeginCreate, BeginReport, BeginClose, BeginScan,
                     CopyNext, AddCopy, ChangeCopyStatus
  <2>6. ASSUME NEW h \in Requests, RequestStep(h) PROVE Sound
    BY <2>1, <2>2, <2>3, <2>4, <2>6
       DEF RequestStep, GetFinding, LookupCopy, LookupNothing, QueryMissing, QueryUnexpected,
           QueryMisplaced, Collect, Answer, Fail
  <2> QED
    BY <2>5, <2>6 DEF Next
<1> QED
  BY <1>1, Invariance, PTL DEF Spec, RecordsAreFinal
=============================================================================
