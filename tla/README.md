# A verification project for the library management system

The repository is an offline-first library management system: a Go server
(`src/repo/backend`) over one PostgreSQL database (`src/repo/migrations`), and
a web client. These TLA+ modules model what the server does to the database
when several of its requests run at the same time, when statements fail, when
clients go away and when the process dies. TLC checks them on small instances,
and TLAPS proves the main results for every value of the constants.

## 1. Inventory

The server keeps no state of its own. Every HTTP request is a goroutine; it
resolves the session and the branch scope of its user, runs a handler, which
calls a service, which calls repositories. All shared state is in PostgreSQL,
at isolation READ COMMITTED. So the unit of interleaving is the SQL statement:
a statement outside a transaction takes effect at once; inside a transaction it
sees what others have committed so far, and its own writes become visible, and
its row locks go, with COMMIT.

The difficulty of the system is in three patterns that the services repeat:

* *check, then write*: a row is read in one statement and written in another,
  unconditionally (content, moderation, imports, feedback, appeals, login);
* *lock, check, write*: a transaction takes a row `FOR UPDATE` and repeats some
  of the checks under the lock (enrollment, circulation);
* *several writes without a transaction*: one may fail after another succeeded
  (submission of content, decisions, import commits, arbitration, login).

| Component | State | Operations | What makes it correct | Where |
|---|---|---|---|---|
| Program enrollment | `enrollments`, `enrollment_history` | Enroll, Drop | no oversell, one row per reader and program, history is a chain, only eligible readers, no double booking | `Enrollment` |
| Programs, rules, prerequisites | `programs`, `enrollment_rules`, `program_prerequisites` | Create, Update, UpdateStatus, Add/Remove rule and prerequisite | edits wait for the lock of an enrollment; rules bind while nothing changes | `Enrollment` |
| Readers | `readers` | Create, Update, UpdateStatus, RevealSensitive | an edit does not undo a freeze, nor a field somebody else gave unless they overlap; a reveal needs a recent step-up and leaves a record | `Access`; status also in `Enrollment` |
| Circulation | `circulation_events`, `copies.status_code` | Checkout, Return | a copy is lent once, a return closes the loan and names the borrower | `Circulation` |
| Holdings and copies | `holdings`, `copies` | AddCopy, UpdateCopyStatus; catalogue data | overriding a status does not break loans | `Circulation` (status only) |
| Governed content | `governed_content` | Create, Update, Submit, Retract, Publish, Archive | lifecycle; visible only after approval | `Governance` |
| Moderation | `moderation_items` | CreateItemForContent, Assign, Decide | the first decision of an item stays and is carried to the content; few open items | `Governance` |
| Imports | `import_jobs`, `import_rows`, target tables | Upload, Commit, Rollback | all or nothing; once; what the status says is so | `Imports` |
| Stocktake | `stocktake_sessions`, `stocktake_findings` | CreateSession, CloseSession, RecordScan, GetVariances | one active session per branch, one finding per barcode, few after the close, a report that says what is there | `Stocktake` |
| Feedback | `feedback` | Submit, Moderate | a decision stands, unless two moderators overlap | `Casework` |
| Appeals | `appeals`, `appeal_arbitrations` | Submit, Review, Arbitrate | a closed appeal has a ruling on record that fits, and is reopened only by a request it overtook | `Casework` |
| Users, login, sessions | `users`, `sessions`, `captcha_challenges` | Login, Logout, StepUp, request authentication | an account at the threshold gets locked, a challenge is not replayed, a session that ended stays ended | `Login`; step-up and grants in `Access` |
| Reports, scheduler, exports | `report_aggregates`, `export_jobs` | RecalculateAggregates (nightly and on demand), Export | a night counts its day, the rows of branches fit together, no table row is counted in two days; a file that went out is on record | `Reports` |
| Audit log | `audit_events` | Insert | written after the change, failure ignored: the events of grants show what was granted, a reveal is recorded before it | `Access` (grants and reveals) |
| Branch scope, permissions | `user_roles`, `user_branch_assignments` | middleware; AssignRole, RevokeRole, AssignBranch, RevokeBranch | nobody acts beyond what was granted since the request began, and a change is on record | `Access`; in the other modules constants `Scope`, `Permissions`, `Visible` |
| Encryption | the key of the process | Encrypt, Decrypt | a value is opened only by the key that sealed it | `Access` |
| Configuration, health, errors, front end | none of interest | | | not modelled |

How they interact: enrollment reads programs, rules, prerequisites and readers
and locks a program row, which edits of the program and new rows referring to
it wait for. Circulation locks the copy row, for which a status override waits.
Content calls moderation when it is submitted, moderation writes content when
an item is decided: two tables without a common transaction. Imports insert
into the tables of readers and holdings, whose unique reader number is what
keeps two imports apart. The nightly job is a goroutine of the server beside
the requests and ends with it; it reads the tables all the others write, row by
row of its own output. Every request goes by the roles, the permissions and the
branch the middlewares read at its start, while other requests change them.

`PROJECT.json` lists each component with its sources, and under `hazards` every
place of the code that is hard to test, with the properties that cover it.

## 2. Plan

| Order | Module | Content | State |
|---|---|---|---|
| 1 | `SeatLedger` | abstract: atomic confirm, cancel, resize | done |
| 2 | `Enrollment` | requests against programs; implements `SeatLedger` | done |
| 3 | `EnrollmentProofs` | safety and refinement of 2 | done |
| 4 | `Circulation` | copies and loans | done |
| 5 | `Governance` | content and moderation composed | done |
| 6 | `Imports` | jobs, transactions, unique keys | done |
| 7 | `Stocktake` | sessions, scans, the variance report against a reference definition | done |
| 8 | `Login` | attempts, challenges, lockout, sessions, with a clock | done |
| 9 | `Casework` | feedback and appeals: stale decisions, two-statement arbitration | done |
| 10 | `Reports` | aggregates with NULL branches, the nightly scheduler, export records | done |
| 11 | `Access` | middlewares, grants and their audit trail, readers and their encrypted field, step-up and reveal | done |
| 12 | `CirculationProofs`, `GovernanceProofs`, `BulkProofs` (6 and 10), `StocktakeProofs`, `LoginProofs`, `CaseworkProofs`, `AccessProofs` | every invariant and action property of 4 to 11 that a run checks | done |
| 13 | `LendingDesk` | abstract: atomic lend, take back, add, set status; implemented by 4 | done |

Two components have an abstract specification of their own, those whose promise
is a protocol of several operations on one table. For `Imports` and `Login`,
where one would come to mind too, it would say no more than a property does that
is already proved: that a job is in the table as a whole or not at all
(`ImportIsWhole`), and that a lock follows the count of failures
(`LockFollowsThreshold`).

None of the modules declares a RECURSIVE operator, so that all can be proved
about.

## 3. The modules and the code

In all of them `req[h]` is the goroutine of request `h`: its `step` says which
statement comes next, the other fields are the local variables of the handler
and the service that later statements use. `Init` has every request idle. An
action is one statement with the checks on its result; a request that is turned
away goes back to `idle`. `Fail` stands for a failing statement, a client that
goes away and a crash of the server: what is committed stays, the open
transaction is rolled back, its locks go. Fields marked "for properties" record
history and are read by no action: `disturbed` says that a row the request
has looked at was written by somebody else since.

**`Enrollment`** (`domain/enrollment`, `domain/programs`, `UpdateStatus` of
`domain/readers`). `StartEnroll`, `LoadReader`, `LoadRules`, `LoadPrereqs` and
`CheckPrereq` are checks 1 to 6 of `Service.Enroll`, one query each and without
any lock. `LockProgram` begins the transaction with `SELECT ... FOR UPDATE`,
`CountSeats`, `CheckDuplicate` and `CheckSchedule` are checks 7 to 9,
`CommitEnroll` inserts row and history and commits. `Refuse` is any of these
checks failing. `DropLock` and `CommitDrop` are `Repo.Drop`. The remaining
actions are staff and the clock; those that update the program row, or insert a
row that refers to it, wait for its lock. An enrollment row is its status, a
slot a pair of instants, the enrollment window its relation to the clock
(before, open, after). A program that ends, or times that are edited, may move
the window back, as in the code.

**`SeatLedger`** is what a caller may rely on: `Confirm` only into a free seat
and only without an earlier row, `Cancel`, `Resize`.

**`Circulation`** (`domain/circulation`, two operations of `domain/holdings`).
`BeginCheckout` and `BeginReturn` resolve the copy, `ReadActive` is
`GetActiveCheckout`, `LockCopy` the `FOR UPDATE` with its status check, then
`CommitCheckout` or `CommitReturn`. Loans are counted per copy and reader
(`open`, `closed`). `UpdateCopyStatus` overwrites the status whatever the loans
are; `overridden` remembers that it has. The reader's status is no part of the
module: nothing in the code of a checkout looks at it.

**`LendingDesk`** is what a caller may rely on: `Lend` off the shelf only when
nobody has the copy, unless staff set its status against the loans (`byHand`);
`TakeBack` only from somebody who has it; `Add` and `SetStatus` by staff. Who has
a copy (`holders`) are the readers with open checkouts of it.

**`Governance`** (`domain/content`, `domain/moderation`). `Begin` is the
handler's permission check, `GetByID` and the checks of a content operation,
`WriteContent` its UPDATE; Submit goes on through `SubmitContent`, `LookupItem`
(or `LookupFails`: the code takes any error for "no item"), `InsertItem` (or
`InsertFails`, after which the status is put back). `BeginAssign`/`AssignItem`
and `BeginDecide`/`DecideItem`/`CarryVerdict` are the moderator's. There are no
transactions and no locks here.

**`Imports`** (`domain/imports`). `BeginUpload` and `Stage` create, parse and
stage; `BeginCommit`, `LoadRows`, `InsertRow`, then `CommitTx`, `Abort` or
`CommitFails` are `CommitJob`; `WriteStatus` is the `UpdateJobStatus` that
follows in a statement of its own, in `RollbackJob` too. A row is its unique
key and whether it is valid. A key held by an open transaction makes another
INSERT wait (`KeyFree`); a key in the table, a deadlock or any other error is
`InsertFails`, after which the transaction takes no more statements.
`CommitFails` covers a commit whose answer was lost.

**`Stocktake`** (`domain/stocktake`). `BeginCreate` is the check of
`CreateSession` that counts active sessions, `InsertSession` the INSERT under
the partial unique index; `BeginClose` and `UpdateSessionStatus` are
`CloseSession`. A scan is `BeginScan` (the session is active), `GetFinding`
(scanned before?), `LookupCopy` or `LookupNothing` (the code takes any error
for an unknown barcode) and `RecordFinding`, which does not look at the session
again. `BeginReport`, the three queries and `Answer` are `GetVariances`.
`AddCopy` and `ChangeCopyStatus` stand for holdings and circulation. The
history variable `late` counts findings inserted after the end of a session.

**`Login`** (`domain/users`, `middleware/session.go`). `BeginLogin` reads the
user row and makes the checks of steps 2 to 4 of `Service.Login`;
`IssueChallenge`, `FindChallenge`, `MarkUsed`, `CheckPassword`, `CountFailure`,
`SetLockedUntil`, `ResetFailedAttempts` and `CreateSession` are its further
statements, and `MarkFails`, `CountFails`, `LockFails`, `ResetFails` the
errors it ignores. `FindSession`, `Expire`, `Touch` (or `TouchFails`) and
`LoadUser` are `loadSession`, which every request passes; `Logout` follows it.
`BeginUpdate` and `UpdateUser` are the PATCH of a user, which writes the whole
row it has read. Server and database share the clock `now`; a statement that
carries a time computed in Go may carry any time since the previous statement
(`TimesSince`). Whether a password or an answer is right is a free choice.
History: `uses` counts the right answers accepted by a challenge, `ended` holds
sessions that expired while no request used them, `overtaken` marks a request
whose user was locked or deactivated since it began.

**`Casework`** (`domain/feedback`, `domain/appeals`). `BeginModerate`,
`BeginReview` and `BeginArbitrate` are the permission, `GetByID` and the check
of the status; `Moderate` and `Review` the UPDATE, which names the row by its id
only. `Arbitrate` has two more steps: `RecordRuling` inserts the ruling,
`CloseAppeal` writes the status it leads to, and `Fail` may come between them.
`disturbed` marks a request that another one overtook, `raced` a case two
requests met on, `lost` counts arbitrations that died between their writes.

**`Reports`** (`domain/reports`, `domain/exports`, `scheduler`, the job in
`cmd/server/main.go`). Time is counted in ticks, of which `PerDay` make a UTC
day and the last is the fraction of a second after 23:59:59; `zone` is the
server's offset. `BeginFact` and `ChangeFact` are the other requests: a row
carries the time its transaction began and is seen when that commits.
`calc[w]` is a calculation, of a request or of the nightly job, as the list of
what it has to do (`Tasks`), and `Query` and `UpsertAggregate` are its two
statements on the first of them; `TaskFails` is the error that the loop skips.
`Wake`, `ListBranchesFails`, `Stop` and `Start` are the scheduler and the server
around it. A row of `report_aggregates` holds the set of what was counted, with
the status seen, instead of the number (`Figures`): rows of the tables, but for
the active borrowers and enrolled readers of `reader_activity`, which the code
counts as `COUNT(DISTINCT reader_id)`, the readers of those rows (`Subject`). The
lines of an answer (`Lines`) are the groups the model tells apart, by the type of
event or the status. `TargetDay` and `DaysOf` are the two places where an instant
is truncated to its day. An export is `CreateJob`, `Generate` and `Finalise`, or
`ExportFails`. Requests are called `Handlers` here, and the
parts of the specification carry the module's name (`ReportsSpec`), so that one
module can extend this one and `Imports`.

**`Access`** (`middleware`, the grants in `domain/users`, `domain/readers`,
`crypto`, the events of `audit`). `Begin` reads the session and the roles,
`ReadPermissions` the permissions, `ResolveScope` the branch, each when it runs:
a request may hold roles of one moment and a branch of another. A grant is
`EnforceUserScope`, `SnapshotBefore`, `ChangeGrants`, `SnapshotAfter` and
`LogGrant`, the handlers' five statements; the snapshots and the event may fail
without anybody noticing (`Fault`). `CreateReader`, `BeginEdit`/`EditReader` and
`UpdateStatus` are the readers; an edit writes back the encrypted field it read
unless a new one is given, and never the status. A sealed value is a text and
the key it was sealed with, `None` if the server had none. `BeginStepUp` and
`SetStepUp` stamp the session, `BeginReveal` checks the stamp that was read with
the session, then `LogReveal`, then `RevealSensitive`. `Restart` ends all requests
and may change the key. `held` and `could` collect, for the properties, what
the user of a request was granted since it began.

## 4. What is checked

| Run | Instance | Result |
|---|---|---|
| `enrollment` | 2 requests, one scoped to a branch, one administrator; 2 programs with 1 and 2 seats in overlapping slots; 2 readers of two branches; 2 rules; 1 staff change | 7 properties hold (about 2.4 million states) |
| `enrollment_live` | 2 requests, 1 reader, 2 programs, one of them a prerequisite and one not yet created; 1 rule, 3 staff changes | every request ends |
| `enrollment_schedule` | as `enrollment`, staff at rest | **violated** `NoDoubleBooking` |
| `circulation` | 2 requests, 2 copies in two branches, one not yet added; 2 readers, 2 loans of a copy per reader, 2 staff changes | 3 properties hold (about 1.4 million states) |
| `governance` | 1 content, 3 requests (author, author who moderates, moderator who publishes), 2 items before a new submission, 1 failed lookup | 4 properties hold (about 1.3 million states) |
| `imports` | 2 requests, 2 jobs, 7 files (crossed keys, a duplicate key, a missing key, holdings, an invalid row, a malformed file), 2 insertions of a job | 3 properties hold (about 264,000 states) |
| `stocktake` | 2 requests, a clerk and an administrator; 2 sessions of one branch, 2 barcodes, one of them of another branch and not yet in the catalogue; 2 findings, 1 change of a copy | 5 properties hold (about 4.7 million states) |
| `login` | 2 requests, 1 user, 1 challenge, 1 session; a challenge is needed after 1 failure, the lock comes after 2; 3 instants, 1 update, 1 ignored error | 5 properties hold (about 7.9 million states) |
| `casework` | 4 requests (a clerk and a moderator of a branch, an administrator, a moderator of another branch); 1 feedback, 1 appeal, 2 rulings before a new arbitration | 3 properties hold (about 415,000 states) |
| `reports` | the nightly job and one administrator; 2 branches, 1 definition, 1 reader, 2 rows, each a checkout of the reader in either branch or a registration; zones -1 and 0; 2 days of 2 ticks, insertions in the first and the first tick of the second; 1 recalculation or export, 1 failure or restart | 4 properties hold (about 3.4 million states) |
| `reports_backfill` | the same, with a recalculation of one day or of two | **violated** `RecalculationBackfills` |
| `access` | 2 requests at once, 3 in all; an administrator and a member of staff of one of 2 branches, who may be granted anything; 1 reader, 1 text, 1 key or none; a step-up lasts 1 of 3 instants; 1 restart, 1 ignored error | 5 properties hold (about 3.8 million states) |

*Enrollment.* The lock on the program row carries `NoOversell`,
`ReportedSeatsAreFree`, `InsertNeverCollides` and `ImplementsLedger`: drop the
`FOR UPDATE` and each fails. Checks 1 to 6 are not repeated in the transaction,
so eligibility, the rules among it, and a free schedule are stated for a request
nothing disturbed (`UndisturbedIsSound`); without the condition both are false, and `enrollment_schedule` shows the case the header of
`service.go` excludes: one reader, two programs, two locks.

*Circulation.* Unless staff override a status, loans and statuses agree
(`LoanMatchesStatus`). A return closes a loan in every case (`ReturnIsSound`): a
copy that is `checked_out` when it is locked has one, since a lookup found one
before and only returns close loans. It may name the wrong reader only when
something happened after its lookup.

*Governance.* That a decision stands rests on the conditional UPDATE of
`Repo.Decide`. The content side has no such condition: `VisibleWasApproved` is
what remains true of every interleaving. That the item records the verdict
which the content got, and that a submission leaves an item to decide, holds
only for requests nobody interfered with (`QueueIsTruthful`).
`OpenItemsBounded` replaces "at most one non-decided item", which two sessions
of an author already break.

*Imports.* The transaction gives `ImportIsWhole`: the rows of a job are in the
table together, and a job labelled committed has them there. The unique reader
number gives the second half of `CleanAndKeyedOnce`, the checks of the preview
the first. Jobs without unique keys can be inserted twice, after a crash
before the status is written or by two commits at once, and a job labelled
rolled back may have its rows in the table; the model has these behaviours and
no property denies them.

*Stocktake.* The two unique indexes, not the checks before them, carry
`OneActiveSession` and the findings of `RecordsAreFinal`; the condition of the
UPDATE carries the ends. A session does take findings after it was closed, from scans that
found it open, but from fewer than there are requests (`LateFindingsBounded`).
The three queries of the report have three rules for what was seen; on a report
during which nothing changed they agree with one definition per barcode
(`UndisturbedReportIsRight`), a copy catalogued after it was scanned
included: it is unexpected, and missing. Of two simultaneous scans of a barcode
the second gets a conflict, not the finding of the first that the comment at
`service.go:91` promises; nothing is lost by it. The comment at
`service.go:121` calls copies of other branches "unexpected"; the code records
them as found, and the report lists them as misplaced.

*Login.* `LockFollowsThreshold`: failures, a correct login's reset and the lock
are separate statements of concurrent requests, and still an account with the
count at the threshold and nobody about to lock it has a lock, since a reset
clears both and the increment that reaches the threshold is followed by the
lock. Errors that are ignored break it, hence `faults = 0`. A locked or
deactivated user gets no session except from a login already under way
(`NoSessionForExcluded`); that exception is real, a login checks only once. A
challenge serves several logins at once, but no later one
(`ChallengeUsesBounded`). `Touch` is unconditional, yet `EndedStaysEnded`.

*Casework.* Nothing locks a case and no write looks at its status again. So a
decision is undone by a second moderator, and a resolved appeal reopened by a
review, exactly when these had read the row before (`DecidedUnlessOvertaken`).
The order of the two writes of an arbitration is what keeps `AppealOnRecord`: a
crash between them leaves an appeal that is still under review with a ruling
too many, never a closed one without. A status written by the one and a ruling
by the other of two arbitrators may stay side by side; with nobody racing, the
ruling that is shown, the latest, is that of the status.

*Reports.* The job runs at a local midnight and computes a UTC day. For offsets
on both sides the day is the last one that was over (`NightAddsUp`), because the
job takes the instant one day before the midnight and truncates in UTC
(`main.go:202`, and once more in `reports/service.go:163`: either would do,
subtracting the day is what matters); the labels are written in the zone of the
server and may differ by a day from those of a recalculation. The row of all
branches counts what those of the branches count, and each table row is counted
by one branch, so that counts of events, registrations and feedback add up. Those
of active borrowers and of enrolled readers do not: they are distinct readers, and
one who borrows in two branches is counted by both of their rows and once in that
of all. The same goes for days: two rows of a branch never count one table row
twice, whatever nights were missed or late, but a reader who borrows on two days
is counted on both (`CountedOnce`), so a sum over a period counts reader-days.
The price of keeping the days apart is a gap: what carries a time in the last
fraction of a second of a day is counted by none. `utilization` counts everything
older than its day, and a program can be moved to another one, so these two are
excepted. The rows of all branches have a NULL branch and never conflict: a day
computed twice has two of them. An export's row is written before the data is
read and the number of its lines before the file is answered (`FileIsOnRecord`).

*Access.* What a request may do is composed from three reads; no matter how
grants change between them it never does what its user was not granted at some
moment since it began (`ActsWithinGrants`), permission and branch taken each on
its own. A freeze survives every edit, a field only edits that do not overlap
(`RecordIsLatest`). The events of a user's grants follow one another without a
gap and end in what the user has, unless two changes overlapped or something
was lost (`TrailIsRight`). The step-up is checked before the reveal and by the
clock of the check; between it and the answer time may pass, but an older stamp
does not do (`RevealIsSound`). A server started without a key stores new fields
as they are; one started with a key later refuses these instead of answering
them.

Bounds. Two requests suffice for every race between a read and a write of
another request; three in `Governance`, where an author and two moderators meet.
One to three staff changes are enough to disturb each check of a request that
runs. The bounds on loans, items, insertions and findings
(`MaxLoans`, `MaxItems`, `MaxCopies`, `MaxFindings`) and on failures of a user
(`MaxFailures`) stop only new operations from beginning, never one under way, and
leave room for a second round on the same row. `MaxTime`
stops the clock after every duration could run out; `MaxUpdates`, `MaxEdits`
and `MaxFaults` count what staff do and what fails. The thresholds 3 and 5 of
the code are 1 and 2: what matters is that one comes before the other and that
two requests can reach either together. Only `reports` uses symmetry, of its two
rows, which are alike until they are inserted: the requests, programs and readers
of the instances differ in scope, seats and branch. In `reports` two rows let one
reader be active in two branches or on two days, and two ticks tell the seconds of
a day and its last fraction of a second apart; the horizon of two days holds a
night, the next and a restart between them, and `LastInsert` leaves the second
night to count what the second day began with. In `access` the clock moves only once somebody
has stepped up, for nothing else depends on it, and three requests are a change
of grants, one that overlaps it and one that comes after both.

Deadlock is not checked: when bounds are used up, or every program is as the
requests want it, nothing has to happen.

Fairness. Only `enrollment_live` assumes any: a request that has begun takes
its next step (weak fairness of `EnrollStep`: the goroutine is scheduled and
the database answers), and a request that waits for a program row gets it
(strong fairness of `LockProgram`: PostgreSQL queues the waiters of a row).
Nothing forces a request to begin, to fail, or staff to act.

Every property of a passing run has a mutant in `PROJECT.json`: a plausible bug
in the code (a lost `FOR UPDATE`, a missing condition, a status list with one
entry too many) under which TLC finds it violated.

## 5. What is proved

Every invariant and every action property that a passing run checks is a
theorem of its specification. A theorem holds for
every value of the constants that the named assumption of the module allows:
any number of requests, users, copies, files, any capacities, scopes, grants
and bounds, any length of a day. Finiteness is assumed where something is
counted (the readers of a program, the requests of a server, the rows of a file)
and nowhere else.

The proofs have one form. The properties are seldom inductive by themselves,
because what a request will write depends on what it read some steps ago and
not on what is in the tables now. Each module `XProofs` therefore defines
`IInv` (for `Reports`, whose proofs share `BulkProofs` with those of `Imports`,
`ReportsInv`), whose conjuncts say what the steps of a request promise about the
tables, and proves `Init => IInv`, a lemma for each action that it preserves
`IInv`, and `Invariance`, that is `Spec => []IInv`. The invariants follow from
`IInv` alone; the action properties from `IInv` and one step. The lemmas in
front state what the helpers do: types, what a step leaves alone, how a count
changes (with the library's theorems on finite sets). The paragraphs below say,
for each component, what is in `IInv` and why it is needed.

*Enrollment* (`EnrollmentAssumption`): `TypeCorrect`, `NeverCollides`,
`HistoryIsChained`, `NeverOversold`, `ReportIsRight`, `UndisturbedSound`, and
`LedgerImplemented`, the refinement of `SeatLedger`. `ProgramLockInv` and
`RowLockInv`: a lock is held by a request exactly while it is at the steps
between its `FOR UPDATE` and its end. `SeatInv`: the capacity a transaction
read is still the program's, and since it counted, the confirmed readers have
not become more; seats can only be given back, by drops, which do not lock the
program. `DropInv`: the row a drop has locked still has the status it read.
`HistoryInv`: a row that does not exist has no history. `TableStep` lists what a
step can do to the tables, and the refinement maps a commit to `Confirm`, a drop
to `Cancel`, an update of a program to `Resize`, and everything else to a
stutter. `UndisturbedSound` rests on a second invariant on top, `FoundInv`: as
long as nothing disturbed a request, what each check found still holds, the
program's status and window, the reader's status, the rules, the prerequisites
checked so far, the schedule. An edit disturbs every request under way, a commit
those of its reader, and the rest write nothing these checks read. That every
slot has its own instants is the one place where numbers matter:
`ApartNotBusy` shows that the two strict comparisons of the query find every
shared instant.

*Circulation* (`CirculationAssumption`): `TypeCorrect`, `LoansMatch`,
`ReturnsAreSound`, and `DeskImplemented`, the refinement of `LendingDesk`.
`LockInv`: a copy is locked exactly by the request in its write step, and has
the status that request asked for. `AddedInv`: a copy not in the catalogue has
no loans. `ReturnInv`: a return that found a loan still has one to close if the
copy is `checked_out` when it is locked, and its own unless something happened
to the copy. Without the last a return could find a copy lent and nobody who has
it. The refinement maps a commit to `Lend` or `TakeBack`, what staff do to `Add`
or `SetStatus`, and everything else to a stutter: the guards of `Lend` and
`TakeBack` follow from `LockInv`, with `LoanMatchesStatus` for the one and
`ReturnInv` for the other. No run lists `ImplementsDesk`; the theorem alone
establishes it.

*Governance* (`GovernanceAssumption`): `TypeCorrect`, `ApprovedBeforeVisible`,
`OpenItemsAreFew`, `TruthfulQueue`. `RequestInv`: who is about to publish or
archive saw content that an approval had been carried to, and verdicts are
never taken back; an undisturbed request still sees the rows it read.
`BoundInv`: open items and the insertions on their way, counted together, stay
within submitters and failed lookups, since items are inserted only by requests
whose lookup found none or failed; `OpenItemsBounded` counts the items alone and
a lookup on its way would break it.

*Imports* (`ImportsAssumption`): `TypeCorrect`, `ImportsAreWhole`,
`RowsAreCleanAndOnce`. `JobInv`: the rows of a job are in the table equally
often, none before its preview was clean. `RequestInv`: nobody else works on a
job until the request that uploads it has written the result of the preview,
what an open transaction has inserted is among the rows it has come to, and a
commit about to label its job has its rows in the table. `KeyInv`: a reader number is in the table or held by one
open transaction, never both; that is the unique index. `OnceInv`: it belongs to
one row. The lemma `KeysFromRows` ties the index to the rows.

*Stocktake* (`StocktakeAssumption`): `TypeCorrect`, `OneSession`,
`LateFindings`, `ReportsAreRight`, `RecordsStay`. `CreateInv`: the id of a
session being created is nobody else's. `LateInv`: the scans still under way in a
session that ended, and the findings recorded since, leave out the request that
ended it; so late findings stay below the number of requests. `ReportInv`: each
list a report has collected is what its query would return now, unless
something changed. The agreement of the three queries with one definition per
barcode is then a fact about the tables.

*Casework* (`CaseworkAssumption`): `TypeCorrect`, `RulingsOnRecord`,
`DecisionsStand`. `CheckedInv`: an undisturbed request still finds the status it
checked. `OnRecordInv`: a ruling comes before the status that follows it.
`AccountedInv`: for an appeal nobody raced for, each ruling belongs to the
status, to the one arbitration on its way or to one that died; that is the count
`AppealOnRecord` speaks of.

*Access* (`AccessAssumption`): `TypeCorrect`, `RecordsAreLatest`,
`TrailShowsGrants`, `StaysWithinGrants`, `RevealsAreSound`. `AuthInv`: the
permissions and the branch a request has read are among those its user held
since it began; while it is still reading, so are those the user has now.
`TargetInv` and `RecordInv`: an undisturbed edit carries the field that the
reader has. `TrailInv`: the difference between a user's grants and its trail is
that of the one change under way, at each of its steps. `StepUpInv`: stamps lie
in the past and only grow, and a reveal under way passed the check within the
window after the stamp. `CountInv`: reveals written and answered, and requests on
their way, add up to no more than those begun, so that the bounds in `TypeOK`
hold. A first version said that current grants are always among those held; it
is not inductive, for a request may change the grants of its own user.
The assumption that NULL is no value, no key and no pair of both is what lets
the code tell an absent field from a stored one.

*Login* (`LoginAssumption`): `TypeCorrect`, `LockFollows`, `ChallengesAreBounded`,
`EndedStay`, `ExcludedGetNone`. `AdmittedInv`: a login that no lock and no
deactivation overtook is of a user who would still be let in. `ChallengeInv`:
while a challenge is unmarked it was accepted only where the mark failed; once
it is marked, its uses and the logins about to mark it, together, are no more
than the requests at once and the ignored errors. `EndedInv`: a session that ended is
held by nobody who could renew it. `LockFollowsThreshold` is inductive as it
is, from a threshold of at least one (it is 5, `users/service.go:25`).

*Reports* (`ReportsAssumption`): `ReportsTypeCorrect`, `NightsAddUp`,
`NothingCountedTwice`, `FilesOnRecord`, for any number of branches, definitions
and zones, any finite set of rows and readers, and any length of a day. `WorkInv`: a request computes the rows
of all branches only, the nightly job whole UTC days. `QueryInv` and
`AggregateInv`: what was read for a row of a branch and a day, and what the row
counts, are readers or committed rows of that day, and no two aggregates of a
branch and a definition have the same labels; a committed row keeps its table, its branch and, unless it is a program,
its instant (`Settled`), so that what was counted stays of its day. Two rows of
a branch are then of different days, and have at most readers in common
(`CountedOnce`). `NightInv`: while nothing
disturbs the night, what the job has read and written is what the queries of
its day return now, and for every definition and every branch there is either a
row it wrote or a task it still has; when it sleeps again there are only rows,
and those of the branches make up that of all and share at most readers
(`BranchesAddUp`). `ExportInv`: an
export under way has a job of its own, which no file has yet, and what it
has read is of the job's branch; its lines can be counted because rows and
readers are finite (`FiniteLines`). In front stand the lemmas on whole days (`Days`, `DayPeriod`:
the window of the query, up to a second before midnight, is the day but for
its last fraction), on the days of a period (`DayList`) and on the list of tasks (`TaskList`, `EveryTask`: none is
left out). The assumption includes that an administrator of reports works in no
branch: the permission is granted to the role of administrators alone
(`migrations/015_reports_enablement.up.sql`), whose scope is empty
(`middleware/branch_scope.go:30`); a role granted between the reads of the two
middlewares is the business of `Access`. It also includes that some report is
defined, as migrations 014 and 015 see to.

Only model-checked: the liveness of `enrollment_live`
(`EveryRequestEnds`), which rests on ENABLED and on fairness. Statements by
induction over data or about RECURSIVE operators would stay with TLC as well;
the project has none.

## 6. Where code and documentation disagree

Two runs are findings; `PROJECT.json` quotes the lines.

1. Two concurrent enrollments of one reader can double-book it
   (`enrollment_repo.go`, the schedule query, against `enrollment/service.go:12`).
2. A recalculation does not make up for a missed night: it takes the branch from
   the scope of the caller, an administrator has none, and so only the rows of
   all branches are computed (`reports/handler.go:161`, against `README.md:490`).

Noted while the code was modelled, without a run of their own:

* Nothing in a checkout reads the reader's status, so a frozen reader can borrow
  (`circulation/service.go:52`, against `migrations/004_readers.up.sql:15`).
* Of two moderators who decide at once the one whose UPDATE matched no row still
  publishes its verdict, so that content can be visible with a rejection on
  record (`moderation/service.go:115`, against
  `migrations/009_content_moderation.up.sql:5`).
* The content lifecycle is not enforced under stale reads
  (`content_repo.go:98`, against `content/service.go:5`).
* A job can be labelled rolled back with its rows in the table
  (`import_repo.go:81`, against `imports/service.go:182`).
* A server without a key stores the encrypted fields of readers as they are
  (`readers/service.go`, `encryptField`, against
  `migrations/004_readers.up.sql:22`).

## 7. Not modelled

Configuration, health and wiring of the server beyond the nightly job, the
shutdown and the key; the web client; the groups of a report by category, venue,
channel and target, its averages and rates, and the confirmed enrollments joined
to a program; file formats of imports and exports; names and notes of readers, catalogue data of holdings,
notes and reasons of every kind; the lists; the audit events other than those of
grants and reveals, which are inserts nothing reads; and the creation of users,
one INSERT under a unique name (the change of an e-mail address goes with the
update of a user in `Login`). Of the models themselves: lookups that fail before
a request has read anything are stutters; the enrollment channel, which the code
stores and never checks, and waitlist positions, which it never assigns, are
left out; `hasCompletedProgram` reads at most 200 rows of a reader, which the
instances never reach. Deadlocks between two import transactions appear as the
failing statement PostgreSQL makes of them. In `Reports` the zone does not change
(no daylight saving time), a recalculation is of all definitions, a list of
definitions that cannot be read appears as failing tasks, and the template
`utilization` is defined but in no instance; nothing is claimed of liveness, since
a night that fails is skipped by design. In `Access` login, logout and the
active flag are those of `Login`, a user has one session, and the four encrypted
fields of a reader are one.
