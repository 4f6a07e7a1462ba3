------------------------------ MODULE Casework ------------------------------
(***************************************************************************)
(* Reader feedback and its moderation, appeals and their arbitration:      *)
(* internal/domain/feedback, internal/domain/appeals and their             *)
(* repositories.                                                           *)
(*                                                                         *)
(* Every decision reads the row, checks the status it read and writes in   *)
(* statements of their own; an arbitration is two writes, the ruling and   *)
(* then the status of the appeal.  Nothing locks the row and no write      *)
(* looks at the status again.  Texts, tags and targets are left out.       *)
(***************************************************************************)
EXTENDS Integers, Sequences, FiniteSets

CONSTANTS
  Requests,    \* concurrent requests of the server
  Feedbacks,   \* ids of feedback items
  Appeals,     \* ids of appeals
  Branches,    \* ids of branches
  AllBranches, \* the scope of an administrator, the empty branch id
  Scope,       \* the branch scope of each request's user
  Permissions, \* what the role of each request's user permits
  MaxRulings   \* bound: no arbitration begins on an appeal with so many rulings

FeedbackStatuses == {"pending", "approved", "rejected", "flagged"}
AppealStatuses == {"submitted", "under_review", "resolved", "dismissed"}
Decisions == {"upheld", "dismissed", "partial"}
Cases == Feedbacks \cup Appeals

ASSUME CaseworkAssumption ==
  /\ Feedbacks \cap Appeals = {} /\ Cases # {} /\ AllBranches \notin Branches
  /\ Scope \in [Requests -> Branches \cup {AllBranches}]
  /\ Permissions \in [Requests -> SUBSET {"submit", "moderate", "read", "decide"}]
  /\ MaxRulings \in Nat

VARIABLES
  status,   \* feedback.status and appeals.status, "absent" before the row exists
  branch,   \* branch_id of the row, AllBranches before the row exists
  rulings,  \* the decisions in appeal_arbitrations, oldest first
  req,      \* what each request has read so far
  raced,    \* cases a request wrote while another had read it (for properties)
  lost      \* arbitrations that died between their two writes (for properties)

vars == <<status, branch, rulings, req, raced, lost>>

-----------------------------------------------------------------------------
Steps == {"idle", "moderate", "review", "record", "close"}

(* case: the row the request is about; to: the status or decision asked    *)
(* for; disturbed: another request wrote the case since this one read it.  *)
Request == [step : Steps, case : Cases, disturbed : BOOLEAN,
            to : FeedbackStatuses \cup Decisions \cup {"under_review"}]

Idle == [step |-> "idle", case |-> CHOOSE c \in Cases : TRUE, disturbed |-> FALSE,
         to |-> "under_review"]

Init ==
  /\ status = [c \in Cases |-> "absent"]
  /\ branch = [c \in Cases |-> AllBranches]
  /\ rulings = [a \in Appeals |-> <<>>]
  /\ req = [h \in Requests |-> Idle]
  /\ raced = {}
  /\ lost = [a \in Appeals |-> 0]

(* GetByID: an administrator finds every row, the others those of their    *)
(* branch.                                                                 *)
Finds(h, c) ==
  /\ status[c] # "absent"
  /\ Scope[h] \in {AllBranches, branch[c]}

(* h writes a row of its case and goes on as `next`. *)
Write(h, next) ==
  LET c == req[h].case
      overtaken == {k \in Requests \ {h} : req[k].step # "idle" /\ req[k].case = c}
  IN  /\ req' = [k \in Requests |-> IF k = h THEN next
                                    ELSE [req[k] EXCEPT !.disturbed = @ \/ k \in overtaken]]
      /\ raced' = IF overtaken = {} THEN raced ELSE raced \cup {c}

Begin(h, c, step, to) ==
  /\ req[h].step = "idle" /\ Finds(h, c)
  /\ req' = [req EXCEPT ![h] = [Idle EXCEPT !.step = step, !.case = c, !.to = to]]
  /\ UNCHANGED <<status, branch, rulings, raced, lost>>

-----------------------------------------------------------------------------
(* A row is inserted with the branch of its submitter.  An administrator   *)
(* has none, and the INSERT of an empty branch id fails.                   *)
Opening(c) == IF c \in Feedbacks THEN "pending" ELSE "submitted"

Insert(h, c) ==
  /\ Scope[h] # AllBranches
  /\ status' = [status EXCEPT ![c] = Opening(c)]
  /\ branch' = [branch EXCEPT ![c] = Scope[h]]

Submit(h, c) ==
  /\ req[h].step = "idle" /\ "submit" \in Permissions[h] /\ status[c] = "absent"
  /\ Insert(h, c)
  /\ UNCHANGED <<rulings, req, raced, lost>>

(* A flagged item may be decided, and flagged again.  The variant lets a   *)
(* moderator change a rejection into an approval.                          *)
DecidableAgain(f) == status[f] # "approved"
Decidable(f) == status[f] \notin {"approved", "rejected"}

BeginModerate(h, f, to) ==
  /\ "moderate" \in Permissions[h] /\ Decidable(f)
  /\ to \in {"approved", "rejected", "flagged"}
  /\ Begin(h, f, "moderate", to)

(* Any reader of appeals may take one up. *)
BeginReview(h, a) ==
  /\ "read" \in Permissions[h] /\ status[a] = "submitted"
  /\ Begin(h, a, "review", "under_review")

Arbitrable(a) == status[a] = "under_review"

BeginArbitrate(h, a, decision) ==
  /\ "decide" \in Permissions[h] /\ Arbitrable(a) /\ Len(rulings[a]) < MaxRulings
  /\ Begin(h, a, "record", decision)

(* The UPDATE names the row by its id only. *)
SetStatus(h, to) ==
  /\ status' = [status EXCEPT ![req[h].case] = to]
  /\ Write(h, Idle)
  /\ UNCHANGED <<branch, rulings, lost>>

Moderate(h) == req[h].step = "moderate" /\ SetStatus(h, req[h].to)

Review(h) == req[h].step = "review" /\ SetStatus(h, "under_review")

(* The table takes any number of rulings on an appeal; the variant keeps   *)
(* the first.                                                              *)
RecordedFirst(a, decision) == IF rulings[a] = <<>> THEN <<decision>> ELSE rulings[a]
Recorded(a, decision) == Append(rulings[a], decision)

RecordRuling(h) ==
  LET a == req[h].case IN
  /\ req[h].step = "record"
  /\ rulings' = [rulings EXCEPT ![a] = Recorded(a, req[h].to)]
  /\ Write(h, [req[h] EXCEPT !.step = "close"])
  /\ UNCHANGED <<status, branch, lost>>

(* The status a decision leads to; the variant takes the decision for it.  *)
NewStatusAsDecided(decision) == decision
NewStatus(decision) == IF decision = "dismissed" THEN "dismissed" ELSE "resolved"

CloseAppeal(h) == req[h].step = "close" /\ SetStatus(h, NewStatus(req[h].to))

(* The statement fails, or the request dies before it. *)
Fail(h) ==
  /\ req[h].step # "idle"
  /\ req' = [req EXCEPT ![h] = Idle]
  /\ lost' = IF req[h].step = "close" THEN [lost EXCEPT ![req[h].case] = @ + 1] ELSE lost
  /\ UNCHANGED <<status, branch, rulings, raced>>

FeedbackNext == \E h \in Requests, f \in Feedbacks :
  \/ \E to \in FeedbackStatuses : BeginModerate(h, f, to)
  \/ Submit(h, f)

AppealsNext == \E h \in Requests, a \in Appeals :
  \/ Submit(h, a) \/ BeginReview(h, a)
  \/ \E decision \in Decisions : BeginArbitrate(h, a, decision)

Next ==
  \/ FeedbackNext \/ AppealsNext
  \/ \E h \in Requests : Moderate(h) \/ Review(h) \/ RecordRuling(h) \/ CloseAppeal(h) \/ Fail(h)

Spec == Init /\ [][Next]_vars

-----------------------------------------------------------------------------
(* Every variable has its type: a case has a status of its own table, and  *)
(* a request is at a step of its own table.                                *)
TypeOK ==
  /\ status \in [Cases -> FeedbackStatuses \cup AppealStatuses \cup {"absent"}]
  /\ branch \in [Cases -> Branches \cup {AllBranches}]
  /\ rulings \in [Appeals -> Seq(Decisions)]
  /\ req \in [Requests -> Request]
  /\ raced \subseteq Cases
  /\ lost \in [Appeals -> Nat]
  /\ \A f \in Feedbacks : status[f] \in FeedbackStatuses \cup {"absent"}
  /\ \A a \in Appeals : status[a] \in AppealStatuses \cup {"absent"}
  /\ \A h \in Requests : req[h].step \in {"review", "record", "close"} => req[h].case \in Appeals

(* However requests interleave and die, an appeal that is closed has a     *)
(* ruling on record that closes it that way: Arbitrate writes the record   *)
(* before the status, and a lost second write leaves the appeal open.  An  *)
(* appeal that no two requests raced for has one ruling at most beside     *)
(* those of arbitrations that died between the two writes, has none before *)
(* its review, and when it is closed the ruling Get shows, the latest, is  *)
(* the one its status tells of.                                            *)
Fits(a, i) == (rulings[a][i] = "dismissed") = (status[a] = "dismissed")
AppealOnRecord ==
  \A a \in Appeals :
    LET n == Len(rulings[a])
        closed == status[a] \in {"resolved", "dismissed"} IN
    /\ closed => \E i \in DOMAIN rulings[a] : Fits(a, i)
    /\ a \notin raced =>
         /\ n <= 1 + lost[a]
         /\ status[a] = "submitted" => n = 0
         /\ closed => Fits(a, n)

(* A decided item of feedback and a closed appeal change their status in   *)
(* one way only: by a request that had read the row before another wrote   *)
(* it, such as a second moderator's or a review that reopens the appeal.   *)
DecidedUnlessOvertaken ==
  [][\A c \in Cases :
       status[c] \in {"approved", "rejected", "resolved", "dismissed"} /\ status'[c] # status[c]
         => \E h \in Requests : req[h].disturbed /\ req[h].case = c /\ req'[h].step = "idle"]_vars
=============================================================================
