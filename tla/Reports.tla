------------------------------ MODULE Reports -------------------------------
(***************************************************************************)
(* Report aggregates, the nightly job that computes them, and the audited  *)
(* exports: internal/domain/reports, internal/domain/exports,              *)
(* internal/scheduler, the job in cmd/server/main.go and the repositories. *)
(*                                                                         *)
(* A calculation is a loop of queries and upserts, each a statement of its *)
(* own that may fail and is then skipped; rows that it counts are written  *)
(* by other requests, with the time at which their transaction began.      *)
(* Time is counted in ticks, PerDay to a UTC day; the last tick of a day   *)
(* is the fraction of a second after 23:59:59.                             *)
(***************************************************************************)
EXTENDS Integers, Sequences, FiniteSets

CONSTANTS
  Handlers,    \* the goroutines that serve concurrent requests
  Nightly,     \* the goroutine of the scheduler
  Scope,       \* the branch scope of each request's user
  Permissions, \* what the role of each request's user permits: admin, export
  Branches,    \* ids of branches, in the order of their codes
  AllBranches, \* the empty branch id: no filter in a query, NULL in a row
  Definitions, \* the active report definitions, in the order they are listed
  Template,    \* query_template of each definition
  Facts,       \* rows of the tables the reports count
  Readers,     \* the readers that events and enrollments are about
  Kinds,       \* the tables and branches rows are inserted in, with the reader
  Zones,       \* offsets of the server's local time from UTC, in ticks
  PerDay,      \* ticks of a day
  Horizon,     \* bound: the last instant
  LastInsert,  \* bound: the last instant at which a row is inserted
  Ranges,      \* the first and last days that requests ask for
  MaxBegun,    \* bound: recalculations and exports
  MaxFaults    \* bound: failures of a statement, restarts of the server

Templates == {"circulation", "utilization", "enrollment_mix", "resource_yield",
              "reader_activity", "feedback_summary"}
(* The events of circulation_events are checkouts, or returns and others.  *)
Events == {"checkouts", "returns"}
Tables == Events \cup {"copies", "enrollments", "programs", "readers", "feedback", "holdings"}
SetOf(s) == {s[i] : i \in DOMAIN s}
BranchIds == SetOf(Branches)
Workers == Handlers \cup {Nightly}

ASSUME ReportsAssumption ==
  /\ Nightly \notin Handlers /\ AllBranches \notin BranchIds
  /\ Branches \in Seq(BranchIds) /\ Definitions \in Seq(SetOf(Definitions)) \ {<<>>}
  /\ Scope \in [Handlers -> BranchIds \cup {AllBranches}]
  /\ Permissions \in [Handlers -> SUBSET {"admin", "export"}]
  /\ \A h \in Handlers : "admin" \in Permissions[h] => Scope[h] = AllBranches
  /\ Template \in [SetOf(Definitions) -> Templates]
  /\ Kinds \subseteq Tables \X BranchIds \X Readers /\ Kinds # {} /\ IsFiniteSet(Facts \cup Readers)
  /\ Zones \subseteq Int /\ PerDay \in Nat \ {0, 1}
  /\ Ranges \subseteq Nat \X Nat /\ {Horizon, LastInsert, MaxBegun, MaxFaults} \subseteq Nat

VARIABLES
  now,      \* the clock
  zone,     \* the server's zone
  fact,     \* the rows that are counted, each with the time stamp it carries
  rows,     \* report_aggregates
  calc,     \* what each request and the nightly job have read and have to do
  nextRun,  \* the midnight the scheduler sleeps until or works for
  up,       \* the server runs
  jobs,     \* export_jobs
  export,   \* what each request has exported so far
  files,    \* the files that were answered (for properties)
  night,    \* what the last nightly job wrote while undisturbed (for properties)
  begun,    \* recalculations and exports that began
  faults    \* statements that failed

facts == <<fact, now, zone>>
reportVars == <<facts, rows, calc, nextRun, up, jobs, export, files, night, begun, faults>>

-----------------------------------------------------------------------------
(* The instants of the code.                                               *)

DayOf(t) == t \div PerDay

(* nextMidnight: the first local midnight after t. *)
NextMidnight(t) == (DayOf(t + zone) + 1) * PerDay - zone

Truncated(t) == DayOf(t) * PerDay

(* The UTC day that holds the instant a day before the midnight the job    *)
(* runs for.  In the variant it is the day that holds the midnight itself. *)
TargetToday(t) == Truncated(t)
TargetDay(t) == Truncated(t - PerDay)

(* The days of a period, truncated once more, up to its last instant. *)
DaysOf(from, to) ==
  [i \in 1 .. DayOf(to) - DayOf(from) + 1 |-> Truncated(from) + (i - 1) * PerDay]

(* A day ends one second before the next begins; in the variant it ends    *)
(* when the next begins.                                                   *)
DayEndNextDay(d) == d + PerDay
DayEnd(d) == d + PerDay - 2

(* Days are labelled in the zone of their time value: the nightly job's in *)
(* the server's, those of a request in UTC.                                *)
Label(w, t) == DayOf(IF w = Nightly THEN t + zone ELSE t)

(* RunLiveQuery: the tables a template counts.                            *)
Counts(template) ==
  CASE template = "circulation"      -> Events
    [] template = "utilization"      -> {"copies"}
    [] template = "enrollment_mix"   -> {"enrollments"}
    [] template = "resource_yield"   -> {"programs"}
    [] template = "reader_activity"  -> {"readers", "checkouts", "enrollments"}
    [] template = "feedback_summary" -> {"feedback"}

(* COUNT(DISTINCT reader_id): who borrowed, and who enrolled.              *)
CountsReaders(template, table) ==
  template = "reader_activity" /\ table \in {"checkouts", "enrollments"}

Committed(tables, b) ==
  {f \in Facts : /\ fact[f].state = "committed" /\ fact[f].kind[1] \in tables
                 /\ b \in {AllBranches, fact[f].kind[2]}}

(* What the figures of a report count, each with its status at the time of *)
(* the query: the selected rows, or the readers of them.                   *)
Subject(report, f) ==
  IF CountsReaders(report, fact[f].kind[1]) THEN fact[f].kind[3] ELSE f
Figures(report, selected) ==
  {<<fact[f].kind[1], Subject(report, f), fact[f].status>> : f \in selected}

(* The lines of an answer: reader_activity has one for each of its figures *)
(* in any case, programs and the rows of a list have their own, the others *)
(* are grouped, by the type of event or the status if nothing else tells   *)
(* rows apart.                                                             *)
Lines(report, data) ==
  CASE report = "reader_activity" -> Counts(report)
    [] report \in {"readers", "holdings", "resource_yield"} -> data
    [] report \in {"circulation", "enrollment_mix"} -> {counted[1] : counted \in data}
    [] report \in {"utilization", "feedback_summary"} -> {counted[3] : counted \in data}

(* Most templates count the rows of a period, utilization all that are     *)
(* older than its end; reader_activity counts rows while they are active.  *)
InPeriod(template, f, from, to) ==
  fact[f].at <= to /\ (template # "utilization" => from <= fact[f].at)
Active(template, f) == template = "reader_activity" => fact[f].status = "first"

RunLiveQuery(b, template, from, to) ==
  Figures(template, {f \in Committed(Counts(template), b) :
                       InPeriod(template, f, from, to) /\ Active(template, f)})

-----------------------------------------------------------------------------
NoFact == [state |-> "absent", at |-> 0, status |-> "first", kind |-> CHOOSE k \in Kinds : TRUE]
NoWork == [step |-> "idle", todo |-> <<>>, data |-> {}, clean |-> TRUE]
NoExport == [step |-> "idle", job |-> 0, data |-> {}]
NoNight == [for |-> 0, calm |-> TRUE, written |-> {}]
Disturbed == [for |-> 0, calm |-> FALSE, written |-> {}]

ReportsInit ==
  /\ now = 0 /\ zone \in Zones
  /\ fact = [f \in Facts |-> NoFact]
  /\ rows = <<>> /\ calc = [w \in Workers |-> NoWork]
  /\ up = TRUE /\ nextRun = NextMidnight(0)
  /\ jobs = <<>> /\ export = [h \in Handlers |-> NoExport] /\ files = {}
  /\ night = NoNight /\ begun = 0 /\ faults = 0

Work == <<rows, calc, nextRun, up, jobs, export, files, begun>>

Tick == now < Horizon /\ now' = now + 1 /\ UNCHANGED <<zone, fact, Work, night, faults>>

(* The instants a row may carry: a program that of its start, which may be *)
(* moved, other rows the one they were inserted at.                        *)
Instants(kind, inserted) == IF kind[1] = "programs" THEN 0 .. Horizon ELSE {inserted}

(* Other requests: a transaction stamps its row when it begins and commits *)
(* later; a row that is not an event may change afterwards.                *)
BeginFact(f) == \E k \in Kinds : \E at \in Instants(k, now) :
  /\ fact[f].state = "absent" /\ now <= LastInsert
  /\ fact' = [fact EXCEPT ![f] = [NoFact EXCEPT !.state = "open", !.at = at, !.kind = k]]
  /\ UNCHANGED <<now, zone, Work, night, faults>>

ChangeFact(f) ==
  /\ \/ fact[f].state = "open" /\ fact' = [fact EXCEPT ![f].state = "committed"]
     \/ /\ fact[f].state = "committed" /\ fact[f].kind[1] \notin Events
        /\ fact[f].status = "first"
        /\ \E at \in Instants(fact[f].kind, fact[f].at) :
             fact' = [fact EXCEPT ![f].status = "later", ![f].at = at]
  /\ night' = Disturbed
  /\ UNCHANGED <<now, zone, Work, faults>>

-----------------------------------------------------------------------------
(* RecalculateAggregates.                                                  *)

(* One task for every definition, within every day, within every branch.   *)
Tasks(scopes, days) ==
  LET defs == Len(Definitions)
      perScope == Len(days) * defs
  IN  [i \in 1 .. Len(scopes) * perScope |->
         [branch |-> scopes[((i - 1) \div perScope) + 1],
          day |-> days[(((i - 1) % perScope) \div defs) + 1],
          def |-> Definitions[((i - 1) % defs) + 1]]]

(* A request gives two dates; only an administrator may, and works in no   *)
(* branch.                                                                 *)
Recalculate(h, first, last) ==
  /\ up /\ calc[h].step = "idle" /\ export[h].step = "idle"
  /\ "admin" \in Permissions[h] /\ first <= last
  /\ begun < MaxBegun /\ begun' = begun + 1
  /\ calc' = [calc EXCEPT ![h] = [NoWork EXCEPT !.step = "query",
       !.todo = Tasks(<<Scope[h]>>, DaysOf(first * PerDay, last * PerDay))]]
  /\ UNCHANGED <<facts, rows, nextRun, up, jobs, export, files, night, faults>>

(* w goes on to its next task; the nightly job goes back to sleep, until   *)
(* the midnight that follows.                                              *)
NextTask(w, ok) ==
  LET rest == Tail(calc[w].todo) IN
  /\ calc' = [calc EXCEPT ![w] = [step |-> IF rest = <<>> THEN "idle" ELSE "query",
                                  todo |-> rest, data |-> {}, clean |-> @.clean /\ ok]]
  /\ nextRun' = IF w = Nightly /\ rest = <<>> THEN NextMidnight(now) ELSE nextRun

Query(w) ==
  LET task == Head(calc[w].todo) IN
  /\ calc[w].step = "query"
  /\ calc' = [calc EXCEPT ![w].step = "upsert",
       ![w].data = RunLiveQuery(task.branch, Template[task.def], task.day, DayEnd(task.day))]
  /\ UNCHANGED <<facts, rows, nextRun, up, jobs, export, files, night, faults, begun>>

(* A row with a NULL branch conflicts with no other. *)
SameKey(old, new) ==
  /\ old.def = new.def /\ old.from = new.from /\ old.to = new.to
  /\ old.branch = new.branch /\ new.branch # AllBranches

UpsertAggregate(w) ==
  LET task == Head(calc[w].todo)
      row == [def |-> task.def, branch |-> task.branch, data |-> calc[w].data,
              from |-> Label(w, task.day), to |-> Label(w, DayEnd(task.day))]
      old == {i \in DOMAIN rows : SameKey(rows[i], row)}
  IN  /\ calc[w].step = "upsert"
      /\ rows' = IF old = {} THEN Append(rows, row)
                 ELSE [i \in DOMAIN rows |-> IF i \in old THEN row ELSE rows[i]]
      /\ night' = IF w = Nightly /\ night.calm THEN [night EXCEPT !.written = @ \cup {row}]
                   ELSE night
      /\ NextTask(w, TRUE)
      /\ UNCHANGED <<facts, up, jobs, export, files, faults, begun>>

(* A query or an upsert that fails is skipped. *)
TaskFails(w) ==
  /\ calc[w].step # "idle" /\ faults < MaxFaults
  /\ faults' = faults + 1
  /\ night' = IF w = Nightly THEN Disturbed ELSE night
  /\ NextTask(w, FALSE)
  /\ UNCHANGED <<facts, rows, up, jobs, export, files, begun>>

-----------------------------------------------------------------------------
(* The scheduler.                                                          *)

(* What the job goes through: every branch by its code, then all of them.  *)
NightlyScopes == Append(Branches, AllBranches)

Wake ==
  /\ up /\ calc[Nightly].step = "idle" /\ nextRun <= now
  /\ calc' = [calc EXCEPT ![Nightly] = [NoWork EXCEPT !.step = "query",
       !.todo = Tasks(NightlyScopes, DaysOf(TargetDay(nextRun), TargetDay(nextRun)))]]
  /\ night' = [for |-> nextRun, calm |-> TRUE, written |-> {}]
  /\ UNCHANGED <<facts, rows, nextRun, up, jobs, export, files, faults, begun>>

(* The list of branches cannot be read: nothing is computed this night. *)
ListBranchesFails ==
  /\ up /\ calc[Nightly].step = "idle" /\ nextRun <= now /\ faults < MaxFaults
  /\ faults' = faults + 1
  /\ nextRun' = NextMidnight(now)
  /\ UNCHANGED <<facts, rows, calc, up, jobs, export, files, night, begun>>

(* The server stops, with every request and the job at hand; the variant   *)
(* leaves the job running.                                                 *)
StoppedHandlers == [w \in Workers |-> IF w = Nightly THEN calc[w] ELSE NoWork]
Stopped == [w \in Workers |-> NoWork]

Stop ==
  /\ up /\ faults < MaxFaults /\ faults' = faults + 1 /\ up' = FALSE
  /\ calc' = Stopped
  /\ export' = [h \in Handlers |-> NoExport]
  /\ night' = Disturbed
  /\ UNCHANGED <<facts, rows, nextRun, jobs, files, begun>>

(* It sleeps until the next midnight; nights that passed are not made up.  *)
Start ==
  /\ ~up /\ up' = TRUE /\ nextRun' = NextMidnight(now)
  /\ UNCHANGED <<facts, rows, calc, jobs, export, files, night, faults, begun>>

-----------------------------------------------------------------------------
(* Exports of readers, of holdings and of reports.                         *)

(* A report is exported by its definition. *)
Listings == {"readers", "holdings"}
ExportKinds == SetOf(Definitions) \cup Listings
ReportOf(kind) == IF kind \in Listings THEN kind ELSE Template[kind]

(* An administrator names the branch of a report's export in a parameter;  *)
(* the other exports take none and refuse the empty branch.                *)
ExportBranches(h, kind) ==
  IF Scope[h] # AllBranches THEN {Scope[h]}
  ELSE IF kind \in Listings THEN {} ELSE BranchIds

(* The job is on record before anything is read; row_count is -1 for NULL. *)
CreateJob(h, kind) == \E b \in ExportBranches(h, kind) :
  /\ up /\ export[h].step = "idle" /\ calc[h].step = "idle"
  /\ "export" \in Permissions[h]
  /\ begun < MaxBegun /\ begun' = begun + 1
  /\ jobs' = Append(jobs, [branch |-> b, kind |-> kind, count |-> -1])
  /\ export' = [export EXCEPT ![h] = [NoExport EXCEPT !.step = "generate", !.job = Len(jobs) + 1]]
  /\ UNCHANGED <<facts, rows, calc, nextRun, up, files, night, faults>>

(* The variant exports the rows of every branch. *)
ExportedOfAll(kind, b, from, to) ==
  IF kind \in Listings THEN Figures(kind, Committed({kind}, AllBranches))
  ELSE RunLiveQuery(AllBranches, Template[kind], from, to)
Exported(kind, b, from, to) ==
  IF kind \in Listings THEN Figures(kind, Committed({kind}, b))
  ELSE RunLiveQuery(b, Template[kind], from, to)

(* A request that names the last day of a report by its date asks for the  *)
(* rows until the first instant of that day.                               *)
Generate(h, from, to) ==
  LET job == jobs[export[h].job] IN
  /\ export[h].step = "generate"
  /\ export' = [export EXCEPT ![h].step = "finalise",
                  ![h].data = Exported(job.kind, job.branch, from, to)]
  /\ UNCHANGED <<facts, rows, calc, nextRun, up, jobs, files, night, faults, begun>>

(* The number of lines of the file, on record when it is answered. *)
LinesOf(e) == Cardinality(Lines(ReportOf(jobs[e.job].kind), e.data))

Finalise(h) ==
  LET e == export[h] IN
  /\ e.step = "finalise"
  /\ jobs' = [jobs EXCEPT ![e.job].count = LinesOf(e)]
  /\ files' = files \cup {[job |-> e.job, data |-> e.data]}
  /\ export' = [export EXCEPT ![h] = NoExport]
  /\ UNCHANGED <<facts, rows, calc, nextRun, up, night, faults, begun>>

(* A failure leaves 0 in the row when reading or encoding failed and the   *)
(* row could be written, the count when only the answer to that write was  *)
(* lost, else what was there.  No file is answered.                        *)
ExportFails(h) ==
  LET e == export[h] IN
  /\ e.step # "idle" /\ faults < MaxFaults /\ faults' = faults + 1
  /\ \E count \in {0, LinesOf(e), jobs[e.job].count} :
       jobs' = [jobs EXCEPT ![e.job].count = count]
  /\ export' = [export EXCEPT ![h] = NoExport]
  /\ UNCHANGED <<facts, rows, calc, nextRun, up, files, night, begun>>

-----------------------------------------------------------------------------
FactNext == \E f \in Facts : BeginFact(f) \/ ChangeFact(f)
CalculationNext ==
  \/ \E h \in Handlers, r \in Ranges : Recalculate(h, r[1], r[2])
  \/ \E w \in Workers : Query(w) \/ UpsertAggregate(w) \/ TaskFails(w)
SchedulerNext == Wake \/ ListBranchesFails \/ Stop \/ Start
ExportNext == \E h \in Handlers :
  \/ \E kind \in ExportKinds : CreateJob(h, kind)
  \/ \E r \in Ranges : Generate(h, r[1] * PerDay, r[2] * PerDay)
  \/ Finalise(h) \/ ExportFails(h)

ReportsNext == Tick \/ FactNext \/ CalculationNext \/ SchedulerNext \/ ExportNext

ReportsSpec == ReportsInit /\ [][ReportsNext]_reportVars

-----------------------------------------------------------------------------
(* Every variable has its type, no request computes and exports at once,   *)
(* and nothing is computed or exported while the server is down.           *)
Data == SUBSET (Tables \X (Facts \cup Readers) \X {"first", "later"})
Aggregates == [def : SetOf(Definitions), branch : BranchIds \cup {AllBranches}, data : Data,
               from : Int, to : Int]
Task == [branch : BranchIds \cup {AllBranches}, day : Int, def : SetOf(Definitions)]
FactRow == [state : {"absent", "open", "committed"}, at : 0 .. Horizon,
            status : {"first", "later"}, kind : Kinds]
Calculation == [step : {"idle", "query", "upsert"}, todo : Seq(Task), data : Data, clean : BOOLEAN]
Job == [branch : BranchIds, kind : ExportKinds, count : Nat \cup {-1}]
Exporting == [step : {"idle", "generate", "finalise"}, job : Nat, data : Data]
Night == [for : Int, calm : BOOLEAN, written : SUBSET Aggregates]
ReportsTypeOK ==
  /\ now \in 0 .. Horizon /\ zone \in Zones /\ up \in BOOLEAN /\ nextRun \in Int
  /\ begun \in 0 .. MaxBegun /\ faults \in 0 .. MaxFaults
  /\ fact \in [Facts -> FactRow] /\ rows \in Seq(Aggregates)
  /\ calc \in [Workers -> Calculation] /\ jobs \in Seq(Job) /\ export \in [Handlers -> Exporting]
  /\ files \subseteq [job : Nat, data : Data] /\ night \in Night
  /\ \A w \in Workers : (calc[w].step = "idle") = (calc[w].todo = <<>>)
  /\ \A h \in Handlers : export[h].step # "idle" => calc[h].step = "idle" /\ up
  /\ ~up => \A w \in Workers : calc[w].step = "idle"

(* The rows of the last job, while nothing was committed since it began    *)
(* and none of its statements failed.                                      *)
Calm == night.calm /\ calc[Nightly].step = "idle"
Written(def, b) == UNION {row.data : row \in {r \in night.written : r.def = def /\ r.branch = b}}

(* Whatever the zone of the server, a nightly job counts the rows of the   *)
(* last UTC day that was over when it was due, or the readers of them, all *)
(* but those of the last fraction of a second, which no job counts.  And   *)
(* the rows it writes one after the other fit together: that of all        *)
(* branches counts what those of the branches count, each table row in one *)
(* branch only, so that the counts of table rows of the branches add up.   *)
(* Those of active borrowers and enrolled readers need not: a reader       *)
(* counts in every branch, and once in all.                                *)
CountsItsDay(row) ==
  row.data = Figures(Template[row.def],
    {f \in Committed(Counts(Template[row.def]), row.branch) :
       /\ Active(Template[row.def], f)
       /\ DayOf(fact[f].at) = DayOf(night.for) - 1
       /\ fact[f].at % PerDay # PerDay - 1})

NightAddsUp ==
  Calm =>
    /\ \A row \in night.written : Template[row.def] # "utilization" => CountsItsDay(row)
    /\ \A d \in SetOf(Definitions) :
         /\ Written(d, AllBranches) = UNION {Written(d, b) : b \in BranchIds}
         /\ \A b, c \in BranchIds : b # c =>
              \A counted \in Written(d, b) \cap Written(d, c) :
                CountsReaders(Template[d], counted[1])

(* What two days of a branch both count are readers who were active on     *)
(* both.  No table row is, whatever nights were missed or delayed: counts  *)
(* of events, enrollments, registrations and feedback may be added up over *)
(* a period, counts of active borrowers and of enrolled readers may not.   *)
(* Nor those of programs, which may be moved to a day computed later.      *)
CountedOnce ==
  \A i, j \in DOMAIN rows :
    /\ i # j /\ rows[i].def = rows[j].def
    /\ Template[rows[i].def] \notin {"utilization", "resource_yield"}
    /\ rows[i].branch = rows[j].branch /\ rows[i].branch # AllBranches
    => \A counted \in rows[i].data, again \in rows[j].data :
         counted[1] = again[1] /\ counted[2] = again[2] =>
           CountsReaders(Template[rows[i].def], counted[1])

(* A file that was answered is on record: its job has the number of its    *)
(* lines, and all that it counts or lists is of the branch of the job.     *)
FileIsOnRecord ==
  \A file \in files :
    LET job == jobs[file.job]  report == ReportOf(job.kind) IN
    /\ job.count = Cardinality(Lines(report, file.data))
    /\ \A counted \in file.data : \E f \in Facts :
         /\ fact[f].kind[1] = counted[1] /\ fact[f].kind[2] = job.branch
         /\ Subject(report, f) = counted[2]

(* The README says of nights that were missed that a recalculation makes   *)
(* up for them: when one of a day that is over has ended without failure,  *)
(* every branch has a row for the day.  It computes those of all branches. *)
RecalculationBackfills ==
  [][\A h \in Handlers :
       calc[h].step = "upsert" /\ calc'[h].step = "idle" /\ calc'[h].clean /\ up' =>
         LET task == Head(calc[h].todo) IN
         task.day + PerDay <= now => \A b \in BranchIds : \E i \in DOMAIN rows' :
           /\ rows'[i].def = task.def /\ rows'[i].branch = b
           /\ rows'[i].from = Label(h, task.day)]_reportVars
=============================================================================
