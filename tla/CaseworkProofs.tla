--------------------------- MODULE CaseworkProofs ---------------------------
(***************************************************************************)
(* Proofs about Casework, for every value of its constants.                *)
(***************************************************************************)
EXTENDS Casework, TLAPS

-----------------------------------------------------------------------------
(* The inductive invariant.                                                *)

(* What a request carries fits the step it is at. *)
RequestFits ==
  \A h \in Requests :
    /\ req[h].step = "moderate" => req[h].case \in Feedbacks /\ req[h].to \in FeedbackStatuses
    /\ req[h].step \in {"record", "close"} => req[h].to \in Decisions

(* A request that no other has overtaken still finds the status it checked *)
(* when it began; one that was overtaken is at a case that was raced for.  *)
CheckedStatus(h) ==
  LET c == req[h].case IN
  /\ req[h].step = "moderate" => Decidable(c)
  /\ req[h].step = "review" => status[c] = "submitted"
  /\ req[h].step \in {"record", "close"} => status[c] = "under_review"

Checked(h) ==
  /\ req[h].step # "idle" => status[req[h].case] # "absent"
  /\ req[h].disturbed => req[h].case \in raced
  /\ ~req[h].disturbed => CheckedStatus(h)
CheckedInv == \A h \in Requests : Checked(h)

Closing(h, a) == req[h].step = "close" /\ req[h].case = a
Closed(a) == status[a] \in {"resolved", "dismissed"}

(* The ruling is on record before the status follows it. *)
OnRecordInv ==
  \A a \in Appeals :
    /\ \A h \in Requests : Closing(h, a) => \E i \in DOMAIN rulings[a] : rulings[a][i] = req[h].to
    /\ Closed(a) => \E i \in DOMAIN rulings[a] : Fits(a, i)

(* On an appeal nobody raced for, the rulings are those of arbitrations    *)
(* that died, and one more: of the request about to close the appeal, or   *)
(* of the one that did.                                                    *)
Accounted(a) ==
  LET n == Len(rulings[a]) IN
  /\ status[a] \in {"absent", "submitted"} => n = 0
  /\ n > lost[a] => n = lost[a] + 1 /\ (Closed(a) \/ \E h \in Requests : Closing(h, a))
  /\ Closed(a) => n > 0 /\ Fits(a, n)
  /\ \A h \in Requests : Closing(h, a) =>
       /\ n > 0 /\ rulings[a][n] = req[h].to
       /\ \A k \in Requests : Closing(k, a) => k = h
AccountedInv == \A a \in Appeals \ raced : Accounted(a)

IInv == TypeOK /\ RequestFits /\ CheckedInv /\ OnRecordInv /\ AccountedInv

-----------------------------------------------------------------------------
(* What a write and a lookup do to the requests.                           *)

LEMMA IdleType == Idle \in Request /\ Idle.step = "idle" /\ Idle.disturbed = FALSE
BY CaseworkAssumption DEF Idle, Request, Steps, FeedbackStatuses

(* A request goes on with what it has read. *)
SameReads(k) ==
  req'[k].step = req[k].step /\ req'[k].case = req[k].case /\ req'[k].to = req[k].to

Active(k, c) == req[k].step # "idle" /\ req[k].case = c

(* The writer goes on, the others are disturbed if they are at its case,   *)
(* and then the case counts as raced for.                                  *)
LEMMA WriteEffect ==
  ASSUME TypeOK, NEW h \in Requests, NEW next \in Request, Write(h, next),
         NEW c, c = req[h].case
  PROVE  /\ req' \in [Requests -> Request] /\ req'[h] = next
         /\ \A k \in Requests \ {h} :
              SameReads(k) /\ req'[k].disturbed = (req[k].disturbed \/ Active(k, c))
         /\ c \in Cases /\ raced \subseteq raced' /\ raced' \subseteq raced \cup {c}
         /\ \A k \in Requests \ {h} : Active(k, c) => c \in raced'
<1> DEFINE overtaken == {k \in Requests \ {h} : req[k].step # "idle" /\ req[k].case = c}
<1>1. /\ req \in [Requests -> Request] /\ c \in Cases
      /\ \A k \in Requests : req[k] \in Request /\ req[k].disturbed \in BOOLEAN
  BY DEF TypeOK, Request
<1>2. req' = [k \in Requests |-> IF k = h THEN next
                                 ELSE [req[k] EXCEPT !.disturbed = @ \/ k \in overtaken]]
  BY DEF Write
<1>3. ASSUME NEW k \in Requests \ {h}
      PROVE  /\ SameReads(k) /\ req'[k].disturbed = (req[k].disturbed \/ Active(k, c))
             /\ req'[k] \in Request
  <2>1. PICK b \in BOOLEAN : b = (req[k].disturbed \/ Active(k, c))
    BY <1>1
  <2>2. req'[k] = [req[k] EXCEPT !.disturbed = (req[k].disturbed \/ k \in overtaken)]
    BY <1>2
  <2>3. (req[k].disturbed \/ k \in overtaken) = b
    BY <2>1 DEF Active
  <2>4. req'[k] = [req[k] EXCEPT !.disturbed = b]
    BY <2>2, <2>3
  <2> QED
    BY <1>1, <2>1, <2>4 DEF SameReads, Request
<1>4. req' \in [Requests -> Request] /\ req'[h] = next
  <2>1. req'[h] = next
    BY <1>2
  <2>2. \A k \in Requests : req'[k] \in Request
    BY <1>3, <2>1
  <2> QED
    BY <1>2, <2>1, <2>2
<1>5. raced' = IF overtaken = {} THEN raced ELSE raced \cup {c}
  BY DEF Write
<1>6. \A k \in Requests \ {h} : Active(k, c) => c \in raced'
  BY <1>5 DEF Active
<1> QED
  BY <1>1, <1>3, <1>4, <1>5, <1>6

(* A request that begins has found its case. *)
LEMMA BeginEffect ==
  ASSUME TypeOK, NEW h \in Requests, NEW c \in Cases, NEW step \in Steps,
         NEW to \in FeedbackStatuses \cup Decisions \cup {"under_review"},
         Begin(h, c, step, to)
  PROVE  /\ req' \in [Requests -> Request]
         /\ req'[h].step = step /\ req'[h].case = c /\ req'[h].to = to
         /\ req'[h].disturbed = FALSE
         /\ req[h].step = "idle" /\ status[c] # "absent"
         /\ \A k \in Requests \ {h} : req'[k] = req[k]
         /\ UNCHANGED <<status, branch, rulings, raced, lost>>
<1> DEFINE new == [Idle EXCEPT !.step = step, !.case = c, !.to = to]
<1>1. new \in Request /\ new.step = step /\ new.case = c /\ new.to = to /\ new.disturbed = FALSE
  BY IdleType DEF Request
<1>2. req' = [req EXCEPT ![h] = new] /\ req \in [Requests -> Request]
  BY DEF Begin, TypeOK
<1> HIDE DEF new
<1> QED
  BY <1>1, <1>2 DEF Begin, Finds

-----------------------------------------------------------------------------
(* Each kind of step preserves the invariant.                              *)

LEMMA InitInv == Init => IInv
<1> SUFFICES ASSUME Init PROVE IInv
  OBVIOUS
<1>1. \A h \in Requests : req[h] = Idle
  BY DEF Init
<1>2. TypeOK
  BY <1>1, IdleType, CaseworkAssumption DEF Init, TypeOK, Cases
<1>3. \A a \in Appeals : status[a] = "absent" /\ rulings[a] = <<>> /\ lost[a] = 0
  BY DEF Init, Cases
<1>4. RequestFits /\ CheckedInv /\ OnRecordInv
  BY <1>1, <1>3, IdleType
     DEF RequestFits, CheckedInv, Checked, CheckedStatus, OnRecordInv, Closing, Closed
<1>5. AccountedInv
  BY <1>1, <1>3, IdleType DEF AccountedInv, Accounted, Closing, Closed
<1> QED
  BY <1>2, <1>4, <1>5 DEF IInv

LEMMA SubmitInv ==
  ASSUME IInv, NEW h \in Requests, NEW c \in Cases, Submit(h, c)
  PROVE  IInv'
<1> USE DEF IInv
<1>1. /\ status[c] = "absent" /\ Scope[h] # AllBranches
      /\ status' = [status EXCEPT ![c] = Opening(c)] /\ branch' = [branch EXCEPT ![c] = Scope[h]]
      /\ UNCHANGED <<rulings, req, raced, lost>>
  BY DEF Submit, Insert
<1>2. status'[c] = Opening(c) /\ \A d \in Cases \ {c} : status'[d] = status[d]
  BY <1>1 DEF TypeOK
<1>3. TypeOK'
  BY <1>1, CaseworkAssumption DEF TypeOK, Opening, Cases, FeedbackStatuses, AppealStatuses
<1>4. RequestFits'
  BY <1>1 DEF RequestFits
<1>5. \A k \in Requests : req[k].step # "idle" => req[k].case # c /\ req[k].case \in Cases
  BY <1>1 DEF CheckedInv, Checked, TypeOK, Request
<1>6. CheckedInv'
  BY <1>1, <1>2, <1>5 DEF CheckedInv, Checked, CheckedStatus, Decidable
<1>7. \A a \in Appeals : Closed(a)' => a # c /\ Closed(a) /\ status'[a] = status[a]
  BY <1>2 DEF Closed, Opening, Cases
<1>8. OnRecordInv'
  BY <1>1, <1>7 DEF OnRecordInv, Closing, Fits
<1>9. AccountedInv'
  <2> SUFFICES ASSUME NEW a \in Appeals \ raced PROVE Accounted(a)'
    BY <1>1 DEF AccountedInv
  <2>1. CASE a = c
    BY <1>1, <1>2, <1>5, <2>1 DEF AccountedInv, Accounted, Closing, Closed, Opening, Cases, TypeOK
  <2>2. CASE a # c
    BY <1>1, <1>2, <2>2 DEF AccountedInv, Accounted, Closing, Closed, Fits, Cases
  <2> QED
    BY <2>1, <2>2
<1> QED
  BY <1>3, <1>4, <1>6, <1>8, <1>9

LEMMA BeginInv ==
  ASSUME IInv, NEW h \in Requests, NEW c \in Cases,
         \/ c \in Feedbacks /\ \E to \in FeedbackStatuses : BeginModerate(h, c, to)
         \/ c \in Appeals /\ BeginReview(h, c)
         \/ c \in Appeals /\ \E decision \in Decisions : BeginArbitrate(h, c, decision)
  PROVE  IInv'
<1> USE DEF IInv
<1>1. PICK step \in Steps \ {"close"}, to \in FeedbackStatuses \cup Decisions \cup {"under_review"} :
        /\ Begin(h, c, step, to)
        /\ step = "moderate" => c \in Feedbacks /\ to \in FeedbackStatuses /\ Decidable(c)
        /\ step = "review" => c \in Appeals /\ status[c] = "submitted"
        /\ step = "record" => c \in Appeals /\ to \in Decisions /\ status[c] = "under_review"
  BY DEF BeginModerate, BeginReview, BeginArbitrate, Arbitrable, Steps
<1>2. /\ req' \in [Requests -> Request]
      /\ req'[h].step = step /\ req'[h].case = c /\ req'[h].to = to /\ req'[h].disturbed = FALSE
      /\ req[h].step = "idle" /\ status[c] # "absent"
      /\ \A k \in Requests \ {h} : req'[k] = req[k]
      /\ UNCHANGED <<status, branch, rulings, raced, lost>>
  <2>1. Begin(h, c, step, to) /\ step \in Steps
    BY <1>1
  <2> QED
    BY <2>1, BeginEffect
<1>3. TypeOK'
  BY <1>1, <1>2 DEF TypeOK
<1>4. RequestFits'
  BY <1>1, <1>2 DEF RequestFits
<1>5. CheckedInv'
  BY <1>1, <1>2 DEF CheckedInv, Checked, CheckedStatus, Decidable
<1>6. \A k \in Requests, a \in Appeals : Closing(k, a)' <=> Closing(k, a)
  BY <1>1, <1>2 DEF Closing
<1>7. \A k \in Requests, a \in Appeals : Closing(k, a) => req'[k].to = req[k].to
  BY <1>1, <1>2 DEF Closing
<1>8. OnRecordInv'
  BY <1>2, <1>6, <1>7 DEF OnRecordInv, Closed, Fits
<1>9. AccountedInv'
  BY <1>2, <1>6, <1>7 DEF AccountedInv, Accounted, Closed, Fits
<1> QED
  BY <1>3, <1>4, <1>5, <1>8, <1>9

(* The writes of a status.  On a case nobody raced for, the writer was     *)
(* alone and its case had the status it had checked.                       *)
LEMMA StatusInv ==
  ASSUME IInv, NEW h \in Requests, Moderate(h) \/ Review(h) \/ CloseAppeal(h)
  PROVE  IInv'
<1> USE DEF IInv
<1>1. PICK c \in Cases, to \in {req[h].to, "under_review", NewStatus(req[h].to)} :
        /\ c = req[h].case /\ status' = [status EXCEPT ![c] = to] /\ Write(h, Idle)
        /\ UNCHANGED <<branch, rulings, lost>>
        /\ req[h].step = "moderate" => to = req[h].to
        /\ req[h].step = "review" => to = "under_review"
        /\ req[h].step = "close" => to = NewStatus(req[h].to)
        /\ req[h].step \in {"moderate", "review", "close"}
  <2>1. req[h].case \in Cases
    BY DEF TypeOK, Request
  <2> QED
    BY <2>1 DEF Moderate, Review, CloseAppeal, SetStatus
<1>2. /\ req' \in [Requests -> Request] /\ req'[h] = Idle
      /\ \A k \in Requests \ {h} :
           SameReads(k) /\ req'[k].disturbed = (req[k].disturbed \/ Active(k, c))
      /\ c \in Cases /\ raced \subseteq raced' /\ raced' \subseteq raced \cup {c}
      /\ \A k \in Requests \ {h} : Active(k, c) => c \in raced'
  BY <1>1, IdleType, WriteEffect
<1>3. status'[c] = to /\ \A d \in Cases \ {c} : status'[d] = status[d]
  BY <1>1 DEF TypeOK
<1>4. /\ c \in Feedbacks => to \in FeedbackStatuses
      /\ c \in Appeals => to \in AppealStatuses
  <2>1. req[h].step = "moderate" => c \in Feedbacks /\ to \in FeedbackStatuses
    BY <1>1 DEF RequestFits
  <2>2. req[h].step \in {"review", "close"} => c \in Appeals /\ to \in AppealStatuses
    BY <1>1 DEF RequestFits, NewStatus, Decisions, AppealStatuses, TypeOK
  <2> QED
    BY <1>1, <2>1, <2>2, CaseworkAssumption
<1>5. to # "absent"
  BY <1>4 DEF Cases, FeedbackStatuses, AppealStatuses
<1>6. TypeOK'
  <2>1. status' \in [Cases -> FeedbackStatuses \cup AppealStatuses \cup {"absent"}]
    BY <1>1, <1>4 DEF TypeOK, Cases
  <2>2. raced' \subseteq Cases
    BY <1>2 DEF TypeOK
  <2>3. \A k \in Requests : req'[k].step \in {"review", "record", "close"} => req'[k].case \in Appeals
    BY <1>2, IdleType DEF TypeOK, SameReads
  <2>4. /\ \A f \in Feedbacks : status'[f] \in FeedbackStatuses \cup {"absent"}
        /\ \A a \in Appeals : status'[a] \in AppealStatuses \cup {"absent"}
    BY <1>3, <1>4 DEF TypeOK, Cases
  <2> QED
    BY <1>1, <1>2, <2>1, <2>2, <2>3, <2>4 DEF TypeOK
<1>7. RequestFits'
  BY <1>2, IdleType DEF RequestFits, SameReads
<1>8. ASSUME NEW k \in Requests PROVE Checked(k)'
  <2>1. CASE k = h
    BY <1>2, <2>1, IdleType DEF Checked, CheckedStatus
  <2>2. CASE k # h /\ Active(k, c)
    BY <1>2, <1>3, <1>5, <2>2 DEF SameReads, Active, CheckedInv, Checked
  <2>3. CASE k # h /\ ~Active(k, c)
    <3>1. SameReads(k) /\ req'[k].disturbed = req[k].disturbed /\ req[k].disturbed \in BOOLEAN
      BY <1>2, <2>3 DEF TypeOK, Request
    <3>2. req[k].step # "idle" => req[k].case \in Cases \ {c}
      BY <2>3 DEF Active, TypeOK, Request
    <3> QED
      BY <1>2, <1>3, <3>1, <3>2 DEF SameReads, CheckedInv, Checked, CheckedStatus, Decidable
  <2> QED
    BY <2>1, <2>2, <2>3
<1>9. CheckedInv'
  BY <1>8 DEF CheckedInv
<1>10. \A k \in Requests, a \in Appeals :
         Closing(k, a)' => k # h /\ Closing(k, a) /\ req'[k].to = req[k].to
  BY <1>2, IdleType DEF Closing, SameReads
<1>11. \A k \in Requests \ {h}, a \in Appeals : Closing(k, a) => Closing(k, a)'
  BY <1>2 DEF Closing, SameReads
<1>12. c \in Appeals /\ Closed(c)' => req[h].step = "close" /\ Closing(h, c)
  BY <1>1, <1>3, CaseworkAssumption DEF Closed, Closing, RequestFits
<1>13. OnRecordInv'
  <2> SUFFICES ASSUME NEW a \in Appeals
               PROVE  /\ \A k \in Requests : Closing(k, a)' => \E i \in DOMAIN rulings'[a] : rulings'[a][i] = req'[k].to
                      /\ Closed(a)' => \E i \in DOMAIN rulings'[a] : Fits(a, i)'
    BY DEF OnRecordInv
  <2>1. \A k \in Requests : Closing(k, a)' => \E i \in DOMAIN rulings'[a] : rulings'[a][i] = req'[k].to
    BY <1>1, <1>10 DEF OnRecordInv
  <2>2. CASE a = c
    <3>1. SUFFICES ASSUME Closed(c)' PROVE \E i \in DOMAIN rulings'[a] : Fits(a, i)'
      BY <2>1, <2>2
    <3>2. PICK i \in DOMAIN rulings[c] : rulings[c][i] = req[h].to
      BY <1>12, <2>2, <3>1 DEF OnRecordInv
    <3> QED
      BY <1>1, <1>3, <1>12, <2>2, <3>1, <3>2 DEF Fits, NewStatus
  <2>3. CASE a # c
    BY <1>1, <1>3, <2>1, <2>3 DEF OnRecordInv, Closed, Fits, Cases
  <2> QED
    BY <2>2, <2>3
<1>14. AccountedInv'
  <2> SUFFICES ASSUME NEW a \in Appeals, a \notin raced' PROVE Accounted(a)'
    BY DEF AccountedInv
  <2>1. Accounted(a) /\ a \notin raced
    BY <1>2 DEF AccountedInv
  <2>2. CASE a = c
    <3>1. \A k \in Requests : ~Closing(k, a)'
      BY <1>2, <1>10, <2>2 DEF Closing, Active
    <3>2. ~req[h].disturbed /\ CheckedStatus(h)
      BY <1>1, <2>1, <2>2 DEF CheckedInv, Checked
    <3>3. CASE req[h].step = "review"
      BY <1>1, <1>3, <2>1, <2>2, <3>1, <3>2, <3>3 DEF Accounted, Closed, CheckedStatus, TypeOK
    <3>4. CASE req[h].step = "close"
      <4>1. Closing(h, a) /\ status[a] = "under_review"
        BY <1>1, <2>2, <3>2, <3>4 DEF Closing, CheckedStatus
      <4>2. Closed(a)' /\ ~Closed(a) /\ Fits(a, Len(rulings[a]))' /\ status'[a] \notin {"absent", "submitted"}
        BY <1>1, <1>3, <2>1, <2>2, <3>4, <4>1 DEF Closed, NewStatus, Fits, Accounted
      <4> QED
        BY <1>1, <2>1, <3>1, <4>1, <4>2 DEF Accounted
    <3> QED
      BY <1>1, <2>2, <3>3, <3>4, CaseworkAssumption DEF RequestFits
  <2>3. CASE a # c
    <3>1. status'[a] = status[a] /\ rulings' = rulings /\ lost' = lost
      BY <1>1, <1>3, <2>3 DEF Cases
    <3>2. \A k \in Requests : Closing(k, a)' <=> Closing(k, a)
      BY <1>1, <1>10, <1>11, <2>3 DEF Closing
    <3> QED
      BY <2>1, <3>1, <3>2, <1>10 DEF Accounted, Closed, Fits
  <2> QED
    BY <2>2, <2>3
<1> QED
  BY <1>6, <1>7, <1>9, <1>13, <1>14

(* The ruling of an arbitration: on a case nobody raced for, no other was  *)
(* about to close the appeal, so the rulings were those of dead ones.      *)
LEMMA RecordInv ==
  ASSUME IInv, NEW h \in Requests, RecordRuling(h)
  PROVE  IInv'
<1> USE DEF IInv
<1> DEFINE next == [req[h] EXCEPT !.step = "close"]
<1>1. PICK a \in Appeals :
        /\ a = req[h].case /\ req[h].step = "record" /\ req[h].to \in Decisions
        /\ rulings' = [rulings EXCEPT ![a] = Append(rulings[a], req[h].to)]
        /\ Write(h, next)
        /\ UNCHANGED <<status, branch, lost>>
  <2>1. req[h].step = "record" /\ req[h].case \in Appeals /\ req[h].to \in Decisions
    BY DEF RecordRuling, TypeOK, RequestFits
  <2> QED
    BY <2>1 DEF RecordRuling, Recorded
<1>2. /\ next \in Request /\ next.step = "close" /\ next.case = a /\ next.to = req[h].to
      /\ next.disturbed = req[h].disturbed
  BY <1>1 DEF TypeOK, Request, Steps
<1> HIDE DEF next
<1>3. /\ req' \in [Requests -> Request] /\ req'[h] = next
      /\ \A k \in Requests \ {h} :
           SameReads(k) /\ req'[k].disturbed = (req[k].disturbed \/ Active(k, a))
      /\ raced \subseteq raced' /\ raced' \subseteq raced \cup {a} /\ raced' \subseteq Cases
      /\ \A k \in Requests \ {h} : Active(k, a) => a \in raced'
  BY <1>1, <1>2, WriteEffect DEF TypeOK
<1>4. /\ rulings' \in [Appeals -> Seq(Decisions)]
      /\ rulings[a] \in Seq(Decisions) /\ rulings'[a] = Append(rulings[a], req[h].to)
      /\ \A b \in Appeals \ {a} : rulings'[b] = rulings[b]
  BY <1>1 DEF TypeOK
<1>5. /\ Len(rulings'[a]) = Len(rulings[a]) + 1 /\ Len(rulings[a]) \in Nat
      /\ rulings'[a][Len(rulings[a]) + 1] = req[h].to
      /\ Len(rulings[a]) + 1 \in DOMAIN rulings'[a]
      /\ \A i \in DOMAIN rulings[a] : i \in DOMAIN rulings'[a] /\ rulings'[a][i] = rulings[a][i]
  BY <1>1, <1>4
<1>6. TypeOK'
  <2>1. \A k \in Requests : req'[k].step \in {"review", "record", "close"} => req'[k].case \in Appeals
    BY <1>1, <1>2, <1>3 DEF TypeOK, SameReads
  <2> QED
    BY <1>1, <1>3, <1>4, <2>1 DEF TypeOK
<1>7. RequestFits'
  BY <1>1, <1>2, <1>3 DEF RequestFits, SameReads
<1>8. ASSUME NEW k \in Requests PROVE Checked(k)'
  <2>1. CASE k = h
    BY <1>1, <1>2, <1>3, <2>1 DEF CheckedInv, Checked, CheckedStatus
  <2>2. CASE k # h /\ Active(k, a)
    BY <1>1, <1>3, <2>2 DEF SameReads, Active, CheckedInv, Checked
  <2>3. CASE k # h /\ ~Active(k, a)
    <3>1. SameReads(k) /\ req'[k].disturbed = req[k].disturbed /\ req[k].disturbed \in BOOLEAN
      BY <1>3, <2>3 DEF TypeOK, Request
    <3> QED
      BY <1>1, <1>3, <3>1 DEF SameReads, CheckedInv, Checked, CheckedStatus, Decidable
  <2> QED
    BY <2>1, <2>2, <2>3
<1>9. CheckedInv'
  BY <1>8 DEF CheckedInv
<1>10. /\ Closing(h, a)' /\ req'[h].to = req[h].to
       /\ \A b \in Appeals : Closing(h, b)' => b = a
       /\ \A k \in Requests \ {h}, b \in Appeals :
            (Closing(k, b)' <=> Closing(k, b)) /\ req'[k].to = req[k].to
  BY <1>2, <1>3 DEF Closing, SameReads
<1>11. OnRecordInv'
  <2> SUFFICES ASSUME NEW b \in Appeals
               PROVE  /\ \A k \in Requests : Closing(k, b)' => \E i \in DOMAIN rulings'[b] : rulings'[b][i] = req'[k].to
                      /\ Closed(b)' => \E i \in DOMAIN rulings'[b] : Fits(b, i)'
    BY DEF OnRecordInv
  <2>1. CASE b = a
    <3>1. \A k \in Requests : Closing(k, b)' => \E i \in DOMAIN rulings'[b] : rulings'[b][i] = req'[k].to
      BY <1>5, <1>10, <2>1 DEF OnRecordInv
    <3>2. Closed(b)' => \E i \in DOMAIN rulings'[b] : Fits(b, i)'
      BY <1>1, <1>5, <2>1 DEF OnRecordInv, Closed, Fits
    <3> QED
      BY <3>1, <3>2
  <2>2. CASE b # a
    BY <1>1, <1>4, <1>10, <2>2 DEF OnRecordInv, Closed, Fits
  <2> QED
    BY <2>1, <2>2
<1>12. AccountedInv'
  <2> SUFFICES ASSUME NEW b \in Appeals, b \notin raced' PROVE Accounted(b)'
    BY DEF AccountedInv
  <2>1. Accounted(b)
    BY <1>3 DEF AccountedInv
  <2>2. CASE b = a
    <3>1. \A k \in Requests \ {h} : ~Closing(k, b) /\ ~Closing(k, b)'
      BY <1>3, <1>10, <2>2 DEF Closing, Active
    <3>2. ~Closing(h, b) /\ status[b] = "under_review"
      BY <1>1, <1>3, <2>2 DEF Closing, CheckedInv, Checked, CheckedStatus
    <3>3. Len(rulings[b]) <= lost[b] /\ lost[b] \in Nat
      BY <1>5, <2>1, <2>2, <3>1, <3>2 DEF Accounted, Closed, TypeOK
    <3>4. /\ status'[b] = "under_review" /\ lost' = lost
          /\ Len(rulings'[b]) = Len(rulings[b]) + 1 /\ Len(rulings[b]) \in Nat
          /\ rulings'[b][Len(rulings[b]) + 1] = req'[h].to
      BY <1>1, <1>5, <1>10, <2>2, <3>2
    <3>5. Len(rulings'[b]) > lost'[b] => Len(rulings'[b]) = lost'[b] + 1
      BY <3>3, <3>4
    <3>6. Closing(h, b)' /\ \A k \in Requests : Closing(k, b)' => k = h
      BY <1>10, <2>2, <3>1
    <3>7. /\ Len(rulings'[b]) > 0 /\ rulings'[b][Len(rulings'[b])] = req'[h].to
      BY <3>4
    <3> QED
      BY <3>4, <3>5, <3>6, <3>7 DEF Accounted, Closed
  <2>3. CASE b # a
    <3>1. \A k \in Requests : (Closing(k, b)' <=> Closing(k, b)) /\ req'[k].to = req[k].to
      BY <1>1, <1>10, <2>3 DEF Closing
    <3> QED
      BY <1>1, <1>4, <2>1, <2>3, <3>1 DEF Accounted, Closed, Fits
  <2> QED
    BY <2>2, <2>3
<1> QED
  BY <1>6, <1>7, <1>9, <1>11, <1>12

(* An arbitration that dies before it closes the appeal leaves its ruling  *)
(* on record, and is counted. *)
LEMMA FailInv ==
  ASSUME IInv, NEW h \in Requests, Fail(h)
  PROVE  IInv'
<1> USE DEF IInv
<1>1. /\ req[h].step # "idle" /\ req' = [req EXCEPT ![h] = Idle]
      /\ lost' = IF req[h].step = "close" THEN [lost EXCEPT ![req[h].case] = @ + 1] ELSE lost
      /\ UNCHANGED <<status, branch, rulings, raced>>
  BY DEF Fail
<1>2. req'[h] = Idle /\ \A k \in Requests \ {h} : req'[k] = req[k]
  BY <1>1 DEF TypeOK
<1>3. \A a \in Appeals : lost[a] \in Nat /\ lost'[a] = IF Closing(h, a) THEN lost[a] + 1 ELSE lost[a]
  BY <1>1 DEF TypeOK, Closing
<1>4. TypeOK'
  BY <1>1, <1>2, IdleType DEF TypeOK
<1>5. RequestFits' /\ CheckedInv'
  BY <1>1, <1>2, IdleType DEF RequestFits, CheckedInv, Checked, CheckedStatus, Decidable
<1>6. \A k \in Requests, a \in Appeals :
        /\ Closing(k, a)' => k # h
        /\ k # h => (Closing(k, a)' <=> Closing(k, a)) /\ req'[k].to = req[k].to
  BY <1>2, IdleType DEF Closing
<1>7. OnRecordInv'
  BY <1>1, <1>6 DEF OnRecordInv, Closed, Fits
<1>8. ASSUME NEW a \in Appeals \ raced PROVE Accounted(a)'
  <2>1. Accounted(a) /\ Len(rulings[a]) \in Nat
    BY DEF AccountedInv, TypeOK
  <2>2. CASE Closing(h, a)
    <3>1. Len(rulings[a]) <= lost'[a]
      BY <1>3, <2>1, <2>2 DEF Accounted
    <3> QED
      BY <1>1, <1>3, <1>6, <2>1, <2>2, <3>1 DEF Accounted, Closed, Fits
  <2>3. CASE ~Closing(h, a)
    BY <1>1, <1>3, <1>6, <2>1, <2>3 DEF Accounted, Closed, Fits
  <2> QED
    BY <2>2, <2>3
<1> QED
  BY <1>1, <1>4, <1>5, <1>7, <1>8 DEF AccountedInv

LEMMA NextInv == IInv /\ [Next]_vars => IInv'
<1> SUFFICES ASSUME IInv, [Next]_vars PROVE IInv'
  OBVIOUS
<1>1. ASSUME NEW h \in Requests, NEW f \in Feedbacks, NEW to \in FeedbackStatuses, BeginModerate(h, f, to)
      PROVE  IInv'
  BY <1>1, BeginInv DEF Cases
<1>2. ASSUME NEW h \in Requests, NEW c \in Cases, Submit(h, c) PROVE IInv'
  BY <1>2, SubmitInv
<1>3. ASSUME NEW h \in Requests, NEW a \in Appeals,
             BeginReview(h, a) \/ \E decision \in Decisions : BeginArbitrate(h, a, decision)
      PROVE  IInv'
  BY <1>3, BeginInv DEF Cases
<1>4. ASSUME NEW h \in Requests, Moderate(h) \/ Review(h) \/ CloseAppeal(h) PROVE IInv'
  BY <1>4, StatusInv
<1>5. ASSUME NEW h \in Requests, RecordRuling(h) PROVE IInv'
  BY <1>5, RecordInv
<1>6. ASSUME NEW h \in Requests, Fail(h) PROVE IInv'
  BY <1>6, FailInv
<1>7. CASE UNCHANGED vars
  BY <1>7 DEF vars, IInv, TypeOK, RequestFits, CheckedInv, Checked, CheckedStatus, Decidable,
              OnRecordInv, AccountedInv, Accounted, Closing, Closed, Fits
<1> QED
  BY <1>1, <1>2, <1>3, <1>4, <1>5, <1>6, <1>7 DEF Next, FeedbackNext, AppealsNext, Cases

-----------------------------------------------------------------------------
(* What casework promises.                                                 *)

(* Invariance: the invariant the properties below follow from holds        *)
(* throughout. *)
THEOREM Invariance == Spec => []IInv
BY InitInv, NextInv, PTL DEF Spec

(* Type correctness: an item of feedback and an appeal keep to the         *)
(* statuses of their own table, however the decisions interleave.          *)
THEOREM TypeCorrect == Spec => []TypeOK
<1>1. IInv => TypeOK
  BY DEF IInv
<1> QED
  BY <1>1, Invariance, PTL

(* A closed appeal has on record a ruling that closes it that way, and one *)
(* nobody raced for has no second ruling but for arbitrations that died.   *)
THEOREM RulingsOnRecord == Spec => []AppealOnRecord
<1>1. IInv => AppealOnRecord
  <2> SUFFICES ASSUME IInv, NEW a \in Appeals
               PROVE  /\ Closed(a) => \E i \in DOMAIN rulings[a] : Fits(a, i)
                      /\ a \notin raced =>
                           /\ Len(rulings[a]) <= 1 + lost[a]
                           /\ status[a] = "submitted" => Len(rulings[a]) = 0
                           /\ Closed(a) => Fits(a, Len(rulings[a]))
    BY DEF AppealOnRecord, Closed
  <2>1. Len(rulings[a]) \in Nat /\ lost[a] \in Nat
    BY DEF IInv, TypeOK
  <2>2. a \notin raced => Accounted(a)
    BY DEF IInv, AccountedInv
  <2> QED
    BY <2>1, <2>2 DEF IInv, OnRecordInv, Accounted
<1> QED
  BY <1>1, Invariance, PTL

(* Only a request that was overtaken while it ran changes a decision that  *)
(* was taken: a second moderator's, a second ruling's, a late review's.    *)
THEOREM DecisionsStand == Spec => DecidedUnlessOvertaken
<1> DEFINE Sound == \A c \in Cases :
       status[c] \in {"approved", "rejected", "resolved", "dismissed"} /\ status'[c] # status[c]
         => \E h \in Requests : req[h].disturbed /\ req[h].case = c /\ req'[h].step = "idle"
<1>1. IInv /\ [Next]_vars => [Sound]_vars
  <2> SUFFICES ASSUME IInv, Next, NEW c \in Cases,
                      status[c] \in {"approved", "rejected", "resolved", "dismissed"},
                      status'[c] # status[c]
               PROVE  \E h \in Requests : req[h].disturbed /\ req[h].case = c /\ req'[h].step = "idle"
    BY DEF vars
  <2>1. ASSUME NEW h \in Requests, NEW d \in Cases, Submit(h, d) PROVE FALSE
    BY <2>1 DEF Submit, Insert, IInv, TypeOK
  <2>2. ASSUME NEW h \in Requests, Moderate(h) \/ Review(h) \/ CloseAppeal(h)
        PROVE  req[h].disturbed /\ req[h].case = c /\ req'[h].step = "idle"
    <3>1. /\ req[h].step \in {"moderate", "review", "close"} /\ req[h].case = c
          /\ Write(h, Idle)
      BY <2>2 DEF Moderate, Review, CloseAppeal, SetStatus, IInv, TypeOK
    <3>2. req[h].disturbed
      <4>1. ~req[h].disturbed => CheckedStatus(h)
        BY DEF IInv, CheckedInv, Checked
      <4>2. req[h].step = "moderate" => status[c] \in FeedbackStatuses \cup {"absent"}
        BY <3>1 DEF IInv, RequestFits, TypeOK
      <4> QED
        BY <3>1, <4>1, <4>2 DEF CheckedStatus, Decidable, FeedbackStatuses
    <3>3. req'[h] = Idle
      BY <3>1 DEF Write
    <3> QED
      BY <3>1, <3>2, <3>3, IdleType
  <2>3. ASSUME NEW h \in Requests, RecordRuling(h) \/ Fail(h) PROVE FALSE
    BY <2>3 DEF RecordRuling, Fail
  <2>4. ASSUME NEW h \in Requests, NEW f \in Feedbacks, NEW to, BeginModerate(h, f, to) PROVE FALSE
    BY <2>4 DEF BeginModerate, Begin
  <2>5. ASSUME NEW h \in Requests, NEW a \in Appeals,
               BeginReview(h, a) \/ \E decision \in Decisions : BeginArbitrate(h, a, decision)
        PROVE  FALSE
    BY <2>5 DEF BeginReview, BeginArbitrate, Begin
  <2> QED
    BY <2>1, <2>2, <2>3, <2>4, <2>5 DEF Next, FeedbackNext, AppealsNext, Cases
<1> QED
  BY <1>1, Invariance, PTL DEF Spec, DecidedUnlessOvertaken
=============================================================================
