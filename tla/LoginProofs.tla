---------------------------- MODULE LoginProofs ----------------------------
(***************************************************************************)
(* Proofs about Login, for every value of its constants.                   *)
(***************************************************************************)
EXTENDS Login, FiniteSetTheorems, TLAPS

-----------------------------------------------------------------------------
(* The inductive invariant.                                                *)

(* The steps on the way to a session. *)
LoginSteps == {"challenge", "mark", "password", "count", "reset", "create"}

(* A login that no lock and no deactivation has overtaken is still of a    *)
(* user that would be let in.                                              *)
Admitted(h) ==
  req[h].step \in LoginSteps /\ ~req[h].overtaken =>
    user[req[h].user].active /\ user[req[h].user].locked <= now
AdmittedInv == \A h \in Requests : Admitted(h)

(* Before a challenge is marked used it is accepted only where the mark    *)
(* failed; from then on nobody finds it open, those who had found it are   *)
(* left.                                                                   *)
Marking(c) == {h \in Requests : req[h].step = "mark" /\ req[h].key = c}
ChallengeFits(c) ==
  /\ challenge[c].used \/ Marking(c) # {} => challenge[c].issued
  /\ ~challenge[c].used => uses[c] <= faults
  /\ challenge[c].used => uses[c] + Cardinality(Marking(c)) <= Cardinality(Requests) + faults
ChallengeInv == \A c \in Challenges : ChallengeFits(c)

(* A session that ended has its expiry behind it and nobody who could move *)
(* it.                                                                     *)
Ended(s) == session[s].created /\ session[s].expires <= now /\ ~InUse(s)
EndedInv == \A s \in ended : Ended(s)

IInv == TypeOK /\ AdmittedInv /\ LockFollowsThreshold /\ ChallengeInv /\ EndedInv

-----------------------------------------------------------------------------
(* What a step does to the requests.                                       *)

LEMMA IdleType ==
  /\ Idle \in Request /\ Idle.step = "idle" /\ Idle.session = NoSession
  /\ Idle.key = NoKey /\ Idle.seen = 0 /\ ~Idle.overtaken
<1>1. (CHOOSE u \in Users : TRUE) \in Users
  BY LoginAssumption
<1> QED
  BY <1>1 DEF Idle, Request, Steps

(* Requests other than h are as they were. *)
Moves(h) ==
  /\ req' \in [Requests -> Request]
  /\ \A k \in Requests \ {h} : req'[k] = req[k]

(* h ends, or goes on for its user with its session; it does not come to   *)
(* the mark of a challenge, nor from elsewhere to a login.                 *)
GoesOn(h) ==
  /\ req[h].step # "idle" /\ req'[h].step # "mark"
  /\ req'[h].user = req[h].user /\ req'[h].session = req[h].session
  /\ req'[h].overtaken = req[h].overtaken
  /\ req'[h].step \in LoginSteps => req[h].step \in LoginSteps
Continues(h) == Moves(h) /\ (req'[h] = Idle \/ GoesOn(h))

LEMMA OwnStep ==
  ASSUME TypeOK, NEW h \in Requests, NEW r \in Request, req' = [req EXCEPT ![h] = r]
  PROVE  Moves(h) /\ req'[h] = r
BY DEF TypeOK, Moves

LEMMA EndContinues ==
  ASSUME TypeOK, NEW h \in Requests, End(h)
  PROVE  Continues(h) /\ req'[h] = Idle
BY OwnStep, IdleType DEF End, Continues

LEMMA GotoEffect ==
  ASSUME TypeOK, NEW h \in Requests, NEW step \in Steps, Goto(h, step)
  PROVE  /\ Moves(h) /\ req'[h].step = step
         /\ req'[h].user = req[h].user /\ req'[h].session = req[h].session
         /\ req'[h].key = req[h].key /\ req'[h].overtaken = req[h].overtaken
<1> DEFINE r == [req[h] EXCEPT !.step = step, !.at = IF step \in Timed THEN now ELSE 0]
<1>1. req[h] \in Request /\ now \in Nat
  BY DEF TypeOK
<1>2. /\ r \in Request /\ r.step = step /\ r.user = req[h].user /\ r.session = req[h].session
      /\ r.key = req[h].key /\ r.overtaken = req[h].overtaken
  BY <1>1 DEF Request
<1>3. req' = [req EXCEPT ![h] = r]
  BY DEF Goto, TypeOK
<1> HIDE DEF r
<1> QED
  BY <1>2, <1>3, OwnStep

LEMMA GotoContinues ==
  ASSUME TypeOK, NEW h \in Requests, NEW step \in Steps \ {"mark"}, Goto(h, step),
         req[h].step # "idle", step \in LoginSteps => req[h].step \in LoginSteps
  PROVE  Continues(h) /\ req'[h].step = step /\ req'[h].user = req[h].user
BY GotoEffect DEF Continues, GoesOn

LEMMA RefuseContinues ==
  ASSUME TypeOK, NEW h \in Requests, RefuseAnswer(h), req[h].step \in LoginSteps
  PROVE  Continues(h) /\ req'[h].step = "count"
<1> DEFINE r == [req[h] EXCEPT !.step = "count", !.wrongKey = TRUE, !.key = NoKey]
<1>1. req[h] \in Request
  BY DEF TypeOK
<1>2. /\ r \in Request /\ r.step = "count" /\ r.user = req[h].user /\ r.session = req[h].session
      /\ r.overtaken = req[h].overtaken
  BY <1>1 DEF Request, Steps
<1>3. req' = [req EXCEPT ![h] = r]
  BY DEF RefuseAnswer, TypeOK
<1> HIDE DEF r
<1>4. Moves(h) /\ req'[h] = r
  BY <1>2, <1>3, OwnStep
<1> QED
  BY <1>2, <1>4 DEF Continues, GoesOn, LoginSteps

LEMMA CompareContinues ==
  ASSUME TypeOK, NEW h \in Requests, CompareAnswer(h), req[h].step \in LoginSteps
  PROVE  /\ Continues(h) /\ req'[h].step \in {"password", "count"}
         /\ uses' \in {uses, [uses EXCEPT ![req[h].key] = @ + 1]}
<1>1. CASE RefuseAnswer(h) /\ uses' = uses
  BY <1>1, RefuseContinues
<1>2. CASE /\ req' = [req EXCEPT ![h].step = "password", ![h].key = NoKey]
           /\ uses' = [uses EXCEPT ![req[h].key] = @ + 1]
  <2> DEFINE r == [req[h] EXCEPT !.step = "password", !.key = NoKey]
  <2>1. req[h] \in Request
    BY DEF TypeOK
  <2>2. /\ r \in Request /\ r.step = "password" /\ r.user = req[h].user
        /\ r.session = req[h].session /\ r.overtaken = req[h].overtaken
    BY <2>1 DEF Request, Steps
  <2>3. req' = [req EXCEPT ![h] = r]
    BY <1>2 DEF TypeOK
  <2> HIDE DEF r
  <2>4. Moves(h) /\ req'[h] = r
    BY <2>2, <2>3, OwnStep
  <2> QED
    BY <1>2, <2>2, <2>4 DEF Continues, GoesOn, LoginSteps
<1> QED
  BY <1>1, <1>2 DEF CompareAnswer

LEMMA AfterFailureContinues ==
  ASSUME TypeOK, NEW h \in Requests, NEW count, AfterFailure(h, count), req[h].step = "count"
  PROVE  /\ Continues(h)
         /\ LocksOut(count) => req'[h].step = "lock" /\ req'[h].user = req[h].user
<1>1. CASE LocksOut(count)
  BY <1>1, GotoContinues DEF AfterFailure, LoginSteps, Steps
<1>2. CASE ~LocksOut(count) /\ Goto(h, "issue")
  BY <1>2, GotoContinues DEF LoginSteps, Steps
<1>3. CASE ~LocksOut(count) /\ End(h)
  BY <1>3, EndContinues
<1> QED
  BY <1>1, <1>2, <1>3 DEF AfterFailure

-----------------------------------------------------------------------------
(* What a request that continues leaves true of the tables.                *)

LEMMA AdmittedKept ==
  ASSUME AdmittedInv, NEW h \in Requests, Continues(h), UNCHANGED <<user, now>>
  PROVE  AdmittedInv'
<1>1. Admitted(h)'
  BY IdleType DEF Continues, GoesOn, AdmittedInv, Admitted, LoginSteps
<1>2. ASSUME NEW k \in Requests \ {h} PROVE Admitted(k)'
  BY DEF Continues, Moves, AdmittedInv, Admitted
<1> QED
  BY <1>1, <1>2 DEF AdmittedInv

(* A lock is owed as before, or an error was dropped. *)
LEMMA LockKept ==
  ASSUME LockFollowsThreshold, NEW h \in Requests, Moves(h), UNCHANGED user,
         faults \in Nat, \/ req[h].step # "lock" /\ faults' = faults
                         \/ faults' = faults + 1
  PROVE  LockFollowsThreshold'
<1>1. CASE faults' = faults + 1
  BY <1>1 DEF LockFollowsThreshold
<1>2. CASE req[h].step # "lock" /\ faults' = faults
  <2> SUFFICES ASSUME NEW u \in Users, user'[u].failed >= LockoutThreshold, faults' = 0,
                      \A k \in Requests : req'[k].user = u => req'[k].step # "lock"
               PROVE  user'[u].locked # 0
    BY DEF LockFollowsThreshold
  <2>1. \A k \in Requests : req[k].user = u => req[k].step # "lock"
    BY <1>2 DEF Moves
  <2> QED
    BY <1>2, <2>1 DEF LockFollowsThreshold
<1> QED
  BY <1>1, <1>2

LEMMA MarkingFinite ==
  ASSUME NEW c \in Challenges
  PROVE  /\ IsFiniteSet(Marking(c)) /\ Cardinality(Marking(c)) \in Nat
         /\ Cardinality(Marking(c)) <= Cardinality(Requests) /\ Cardinality(Requests) \in Nat
<1>1. Marking(c) \subseteq Requests /\ IsFiniteSet(Requests)
  BY LoginAssumption DEF Marking
<1> QED
  BY <1>1, FS_Subset, FS_CardinalityType

(* Fewer requests at the mark, more faults. *)
LEMMA ChallengeKept ==
  ASSUME TypeOK, ChallengeInv, NEW h \in Requests, Moves(h), req'[h].step # "mark",
         UNCHANGED <<challenge, uses>>, faults' \in Nat, faults <= faults'
  PROVE  ChallengeInv'
<1> SUFFICES ASSUME NEW c \in Challenges PROVE ChallengeFits(c)'
  BY DEF ChallengeInv
<1>1. ChallengeFits(c) /\ uses[c] \in Nat /\ faults \in Nat
  BY LoginAssumption DEF ChallengeInv, TypeOK
<1>2. Marking(c)' \subseteq Marking(c)
  BY DEF Marking, Moves
<1>3. IsFiniteSet(Marking(c)) /\ Cardinality(Marking(c)) \in Nat /\ Cardinality(Requests) \in Nat
  BY MarkingFinite
<1>4. IsFiniteSet(Marking(c)') /\ Cardinality(Marking(c)') <= Cardinality(Marking(c))
  BY <1>2, <1>3, FS_Subset
<1>5. Cardinality(Marking(c)') \in Nat
  BY <1>4, FS_CardinalityType
<1> QED
  BY <1>1, <1>2, <1>3, <1>4, <1>5 DEF ChallengeFits

LEMMA EndedKept ==
  ASSUME EndedInv, NEW h \in Requests, Moves(h), UNCHANGED <<session, now, ended>>,
         \A s \in ended : req'[h].step # "idle" /\ req'[h].session = s =>
                            req[h].step # "idle" /\ req[h].session = s
  PROVE  EndedInv'
<1> SUFFICES ASSUME NEW s \in ended PROVE Ended(s)'
  BY DEF EndedInv
<1>1. Ended(s)
  BY DEF EndedInv
<1>2. InUse(s)' => InUse(s)
  BY DEF Moves, InUse
<1> QED
  BY <1>1, <1>2 DEF Ended

LEMMA ContinuesEndedKept ==
  ASSUME TypeOK, EndedInv, NEW h \in Requests, Continues(h), UNCHANGED <<session, now, ended>>
  PROVE  EndedInv'
<1>1. \A s \in ended : req'[h].step # "idle" /\ req'[h].session = s =>
                         req[h].step # "idle" /\ req[h].session = s
  BY IdleType DEF Continues, GoesOn
<1> QED
  BY <1>1, EndedKept DEF Continues

(* A step of h that writes neither users, challenges nor sessions. *)
LEMMA QuietStep ==
  ASSUME IInv, NEW h \in Requests, Continues(h),
         UNCHANGED <<now, authVars, updates, historyVars>>,
         \/ req[h].step # "lock" /\ faults' = faults
         \/ Fault
  PROVE  IInv'
<1>1. TypeOK /\ faults \in Nat /\ faults' \in 0 .. MaxFaults /\ faults' \in Nat /\ faults <= faults'
  BY LoginAssumption DEF IInv, TypeOK, Fault
<1>2. TypeOK'
  BY <1>1 DEF Continues, Moves, TypeOK, authVars, historyVars
<1>3. AdmittedInv'
  BY AdmittedKept DEF IInv, authVars
<1>4. LockFollowsThreshold'
  BY <1>1, LockKept DEF IInv, authVars, Continues, Fault
<1>5. ChallengeInv'
  <2>1. req'[h].step # "mark"
    BY IdleType DEF Continues, GoesOn
  <2> QED
    BY <1>1, <2>1, ChallengeKept DEF IInv, authVars, historyVars, Continues
<1>6. EndedInv'
  BY <1>1, ContinuesEndedKept DEF IInv, authVars, historyVars
<1> QED
  BY <1>2, <1>3, <1>4, <1>5, <1>6 DEF IInv

LEMMA InitInv == Init => IInv
<1> SUFFICES ASSUME Init PROVE IInv
  OBVIOUS
<1>1. \A h \in Requests : req[h] = Idle
  BY DEF Init
<1>2. TypeOK
  <2>1. (CHOOSE u \in Users : TRUE) \in Users
    BY LoginAssumption
  <2> QED
    BY <2>1, IdleType, LoginAssumption DEF Init, TypeOK, UserRows, ChallengeRows, SessionRows
<1>3. AdmittedInv /\ EndedInv
  BY <1>1, IdleType DEF Init, AdmittedInv, Admitted, LoginSteps, EndedInv
<1>4. LockFollowsThreshold
  BY LoginAssumption DEF Init, LockFollowsThreshold
<1>5. ChallengeInv
  <2>1. \A c \in Challenges : Marking(c) = {}
    BY <1>1, IdleType DEF Marking
  <2> QED
    BY <2>1 DEF Init, ChallengeInv, ChallengeFits
<1> QED
  BY <1>2, <1>3, <1>4, <1>5 DEF IInv

-----------------------------------------------------------------------------
(* The steps.                                                              *)

LEMMA StartStep ==
  ASSUME IInv, NEW h \in Requests, NEW r \in Request, req' = [req EXCEPT ![h] = r],
         req[h].step = "idle", r.step # "mark",
         UNCHANGED <<now, authVars, faults, historyVars>>, updates' \in 0 .. MaxUpdates,
         Admitted(h)', r.session \notin ended
  PROVE  IInv'
<1>1. TypeOK /\ faults \in Nat
  BY LoginAssumption DEF IInv, TypeOK
<1>2. Moves(h) /\ req'[h] = r
  BY <1>1, OwnStep
<1>3. TypeOK'
  BY <1>1, <1>2 DEF Moves, TypeOK, authVars, historyVars
<1>4. AdmittedInv'
  <2>1. ASSUME NEW k \in Requests \ {h} PROVE Admitted(k)'
    BY <1>2 DEF Moves, IInv, AdmittedInv, Admitted, authVars
  <2> QED
    BY <2>1 DEF AdmittedInv
<1>5. LockFollowsThreshold'
  BY <1>1, <1>2, LockKept DEF IInv, authVars
<1>6. ChallengeInv'
  BY <1>1, <1>2, ChallengeKept DEF IInv, authVars, historyVars
<1>7. EndedInv'
  BY <1>2, EndedKept DEF IInv, authVars, historyVars
<1> QED
  BY <1>3, <1>4, <1>5, <1>6, <1>7 DEF IInv

LEMMA BeginLoginInv ==
  ASSUME IInv, NEW h \in Requests, NEW u \in Users, NEW key \in Challenges \cup {NoKey},
         BeginLogin(h, u, key)
  PROVE  IInv'
<1> DEFINE r == [Idle EXCEPT !.user = u, !.key = key, !.seen = user[u].failed,
                    !.at = IF key = NoKey /\ user[u].failed >= CaptchaThreshold THEN now ELSE 0,
                    !.step = IF key # NoKey THEN "challenge"
                             ELSE IF user[u].failed >= CaptchaThreshold THEN "issue"
                             ELSE "password"]
<1>1. TypeOK /\ now \in Nat /\ user[u] \in UserRows
  BY DEF IInv, TypeOK
<1>2. /\ r \in Request /\ r.user = u /\ r.session = NoSession
      /\ r.step \in {"challenge", "issue", "password"}
  BY <1>1, IdleType DEF Request, Steps, UserRows
<1>3. req' = [req EXCEPT ![h] = r]
  BY DEF BeginLogin
<1> HIDE DEF r
<1>4. req'[h] = r
  BY <1>1, <1>2, <1>3, OwnStep
<1>5. Admitted(h)'
  <2>1. user[u].active /\ ~(user[u].locked > now) /\ user[u].locked \in Nat
    BY <1>1 DEF BeginLogin, Locked, UserRows
  <2>2. user' = user /\ now' = now
    BY DEF BeginLogin, authVars
  <2> QED
    BY <1>1, <1>2, <1>4, <2>1, <2>2 DEF Admitted
<1>6. r.session \notin ended
  BY <1>1, <1>2, LoginAssumption DEF TypeOK
<1>7. updates' \in 0 .. MaxUpdates /\ faults' = faults
  BY <1>1 DEF BeginLogin, boundVars, TypeOK
<1> QED
  BY <1>2, <1>3, <1>5, <1>6, <1>7, StartStep DEF BeginLogin

LEMMA FindSessionInv ==
  ASSUME IInv, NEW h \in Requests, NEW s \in Sessions, FindSession(h, s)
  PROVE  IInv'
<1> DEFINE r == [Idle EXCEPT !.step = "touch", !.user = session[s].user,
                    !.session = s, !.seen = session[s].expires, !.at = now]
<1>1. TypeOK /\ now \in Nat /\ session[s] \in SessionRows
  BY DEF IInv, TypeOK
<1>2. r \in Request /\ r.session = s /\ r.step = "touch"
  BY <1>1, IdleType DEF Request, Steps, SessionRows
<1>3. req' = [req EXCEPT ![h] = r]
  BY DEF FindSession
<1> HIDE DEF r
<1>4. req'[h] = r
  BY <1>1, <1>2, <1>3, OwnStep
<1>5. Admitted(h)'
  BY <1>2, <1>4 DEF Admitted, LoginSteps
<1>6. s \notin ended
  <2>1. session[s].expires > now /\ session[s].expires \in Nat
    BY <1>1 DEF FindSession, LiveSession, SessionRows
  <2> QED
    BY <1>1, <2>1 DEF IInv, EndedInv, Ended
<1>7. updates' \in 0 .. MaxUpdates /\ faults' = faults
  BY <1>1 DEF FindSession, boundVars, TypeOK
<1> QED
  BY <1>2, <1>3, <1>5, <1>6, <1>7, StartStep DEF FindSession

LEMMA BeginUpdateInv ==
  ASSUME IInv, NEW h \in Requests, NEW u \in Users,
         NEW wish \in {"activate", "deactivate", "email"}, BeginUpdate(h, u, wish)
  PROVE  IInv'
<1> DEFINE r == [Idle EXCEPT !.step = "write", !.user = u,
                    !.seen = IF wish = "activate" THEN 1
                             ELSE IF wish = "deactivate" THEN 0
                             ELSE IF user[u].active THEN 1 ELSE 0]
<1>1. TypeOK
  BY DEF IInv
<1>2. r \in Request /\ r.session = NoSession /\ r.step = "write"
  BY IdleType DEF Request, Steps
<1>3. req' = [req EXCEPT ![h] = r]
  BY DEF BeginUpdate
<1> HIDE DEF r
<1>4. req'[h] = r
  BY <1>1, <1>2, <1>3, OwnStep
<1>5. Admitted(h)'
  BY <1>2, <1>4 DEF Admitted, LoginSteps
<1>6. r.session \notin ended
  BY <1>1, <1>2, LoginAssumption DEF TypeOK
<1>7. updates' \in 0 .. MaxUpdates
  BY <1>1, LoginAssumption DEF BeginUpdate, TypeOK
<1> QED
  BY <1>2, <1>3, <1>5, <1>6, <1>7, StartStep DEF BeginUpdate

(* Steps that neither begin nor write. *)
LEMMA QuietInv ==
  ASSUME IInv, NEW h \in Requests,
         \/ CheckPassword(h) \/ CountFails(h) \/ LockFails(h) \/ ResetFails(h)
         \/ TouchFails(h) \/ LoadUser(h) \/ Fail(h)
  PROVE  IInv'
<1>1. TypeOK /\ req[h] \in Request
  BY DEF IInv, TypeOK
<1>2. CASE CheckPassword(h)
  <2>1. CASE Goto(h, "count")
    <3>1. Continues(h)
      BY <1>1, <1>2, <2>1, GotoContinues DEF CheckPassword, Steps, LoginSteps
    <3> QED
      BY <1>2, <3>1, QuietStep DEF CheckPassword, boundVars
  <2>2. CASE req' = [req EXCEPT ![h].step = "reset", ![h].seen = 0]
    <3> DEFINE r == [req[h] EXCEPT !.step = "reset", !.seen = 0]
    <3>1. /\ r \in Request /\ r.step = "reset" /\ r.user = req[h].user
          /\ r.session = req[h].session /\ r.overtaken = req[h].overtaken
      BY <1>1 DEF Request, Steps
    <3>2. req' = [req EXCEPT ![h] = r]
      BY <1>1, <2>2 DEF TypeOK
    <3> HIDE DEF r
    <3>3. Moves(h) /\ req'[h] = r
      BY <1>1, <3>1, <3>2, OwnStep
    <3>4. Continues(h)
      BY <1>2, <3>1, <3>3 DEF CheckPassword, Continues, GoesOn, LoginSteps
    <3> QED
      BY <1>2, <3>4, QuietStep DEF CheckPassword, boundVars
  <2> QED
    BY <1>2, <2>1, <2>2 DEF CheckPassword
<1>3. CASE CountFails(h)
  <2>1. Continues(h)
    BY <1>1, <1>3, AfterFailureContinues DEF CountFails
  <2> QED
    BY <1>3, <2>1, QuietStep DEF CountFails
<1>4. CASE LockFails(h)
  BY <1>1, <1>4, EndContinues, QuietStep DEF LockFails
<1>5. CASE ResetFails(h)
  <2>1. Continues(h)
    BY <1>1, <1>5, GotoContinues DEF ResetFails, Steps, LoginSteps
  <2> QED
    BY <1>5, <2>1, QuietStep DEF ResetFails
<1>6. CASE TouchFails(h)
  <2>1. Continues(h)
    BY <1>1, <1>6, GotoContinues DEF TouchFails, Steps, LoginSteps
  <2> QED
    BY <1>6, <2>1, QuietStep DEF TouchFails
<1>7. CASE LoadUser(h)
  <2>1. Goto(h, "logout") \/ End(h)
    BY <1>7 DEF LoadUser
  <2>2. Continues(h)
    BY <1>1, <1>7, <2>1, GotoContinues, EndContinues DEF LoadUser, Steps, LoginSteps
  <2> QED
    BY <1>7, <2>2, QuietStep DEF LoadUser, boundVars
<1>8. CASE Fail(h)
  BY <1>1, <1>8, EndContinues, QuietStep DEF Fail, boundVars
<1> QED
  BY <1>2, <1>3, <1>4, <1>5, <1>6, <1>7, <1>8

(* Challenges. *)

LEMMA IssueChallengeInv ==
  ASSUME IInv, NEW h \in Requests, IssueChallenge(h)
  PROVE  IInv'
<1>1. TypeOK /\ req[h] \in Request /\ faults \in Nat /\ faults' = faults
  BY LoginAssumption DEF IssueChallenge, IInv, TypeOK, boundVars
<1>2. PICK c \in Challenges, t \in TimesSince(h) :
        /\ ~challenge[c].issued
        /\ challenge' = [challenge EXCEPT ![c] =
             [issued |-> TRUE, used |-> FALSE, expires |-> t + CaptchaTTL]]
  BY DEF IssueChallenge
<1>3. Continues(h) /\ Moves(h) /\ req'[h] = Idle
  BY <1>1, EndContinues DEF IssueChallenge, Continues
<1>4. t + CaptchaTTL \in Nat
  BY <1>1, LoginAssumption DEF TimesSince, Request, TypeOK
<1>5. TypeOK'
  BY <1>1, <1>2, <1>3, <1>4 DEF IssueChallenge, TypeOK, Moves, ChallengeRows, boundVars, historyVars
<1>6. AdmittedInv' /\ LockFollowsThreshold' /\ EndedInv'
  BY <1>1, <1>3, AdmittedKept, LockKept, ContinuesEndedKept DEF IssueChallenge, IInv, historyVars
<1>7. ASSUME NEW x \in Challenges PROVE ChallengeFits(x)'
  <2>1. Marking(x)' \subseteq Marking(x) /\ uses' = uses
    BY <1>3, IdleType DEF IssueChallenge, Marking, Moves, historyVars
  <2>2. ChallengeFits(x) /\ uses[x] \in Nat
    BY <1>1 DEF IInv, ChallengeInv, TypeOK
  <2>3. IsFiniteSet(Marking(x)) /\ Cardinality(Marking(x)) \in Nat /\ Cardinality(Requests) \in Nat
    BY MarkingFinite
  <2>4. IsFiniteSet(Marking(x)') /\ Cardinality(Marking(x)') <= Cardinality(Marking(x))
    BY <2>1, <2>3, FS_Subset
  <2>5. Cardinality(Marking(x)') \in Nat
    BY <2>4, FS_CardinalityType
  <2>6. CASE x = c
    <3>1. challenge'[x].issued /\ ~challenge'[x].used
      BY <1>1, <1>2, <2>6 DEF TypeOK
    <3>2. ~challenge[x].used
      BY <1>2, <2>2, <2>6 DEF ChallengeFits
    <3> QED
      BY <1>1, <2>1, <2>2, <3>1, <3>2 DEF ChallengeFits
  <2>7. CASE x # c
    <3>1. challenge'[x] = challenge[x]
      BY <1>1, <1>2, <2>7 DEF TypeOK
    <3> QED
      BY <1>1, <2>1, <2>2, <2>3, <2>4, <2>5, <3>1 DEF ChallengeFits
  <2> QED
    BY <2>6, <2>7
<1> QED
  BY <1>5, <1>6, <1>7 DEF IInv, ChallengeInv

LEMMA FindChallengeInv ==
  ASSUME IInv, NEW h \in Requests, FindChallenge(h)
  PROVE  IInv'
<1>1. TypeOK /\ req[h].step = "challenge" /\ faults \in Nat
  BY LoginAssumption DEF FindChallenge, IInv, TypeOK
<1>2. CASE RefuseAnswer(h)
  <2>1. Continues(h)
    BY <1>1, <1>2, RefuseContinues DEF LoginSteps
  <2> QED
    BY <1>1, <2>1, QuietStep DEF FindChallenge, boundVars
<1>3. CASE OpenChallenge(req[h].key) /\ Goto(h, "mark")
  <2>1. /\ Moves(h) /\ req'[h].step = "mark" /\ req'[h].user = req[h].user
        /\ req'[h].session = req[h].session /\ req'[h].key = req[h].key
        /\ req'[h].overtaken = req[h].overtaken
    BY <1>1, <1>3, GotoEffect DEF Steps
  <2>2. UNCHANGED <<now, user, challenge, session, updates, faults, uses, ended>>
    BY DEF FindChallenge, authVars, boundVars, historyVars
  <2>3. TypeOK'
    BY <1>1, <2>1, <2>2 DEF TypeOK, Moves
  <2>4. AdmittedInv'
    <3>1. Admitted(h)'
      BY <1>1, <2>1, <2>2 DEF IInv, AdmittedInv, Admitted, LoginSteps
    <3>2. ASSUME NEW k \in Requests \ {h} PROVE Admitted(k)'
      BY <2>1, <2>2 DEF Moves, IInv, AdmittedInv, Admitted
    <3> QED
      BY <3>1, <3>2 DEF AdmittedInv
  <2>5. LockFollowsThreshold'
    BY <1>1, <2>1, <2>2, LockKept DEF IInv
  <2>6. EndedInv'
    BY <1>1, <2>1, <2>2, EndedKept DEF IInv
  <2>7. ASSUME NEW c \in Challenges PROVE ChallengeFits(c)'
    <3>1. ChallengeFits(c)
      BY DEF IInv, ChallengeInv
    <3>2. CASE c = req[h].key
      BY <1>3, <2>2, <3>1, <3>2 DEF ChallengeFits, OpenChallenge
    <3>3. CASE c # req[h].key
      <4>1. Marking(c)' = Marking(c)
        BY <1>1, <2>1, <3>3 DEF Marking, Moves
      <4> QED
        BY <2>2, <3>1, <4>1 DEF ChallengeFits
    <3> QED
      BY <3>2, <3>3
  <2> QED
    BY <2>3, <2>4, <2>5, <2>6, <2>7 DEF IInv, ChallengeInv
<1> QED
  BY <1>2, <1>3 DEF FindChallenge

(* The use of a challenge: whoever has found it open leaves the mark.      *)
LEMMA CompareInv ==
  ASSUME IInv, NEW h \in Requests, CompareAnswer(h), req[h].step = "mark",
         UNCHANGED <<now, user, session, updates, ended>>,
         \/ faults' = faults /\ challenge' = [challenge EXCEPT ![req[h].key].used = TRUE]
         \/ Fault /\ challenge' = challenge
  PROVE  IInv'
<1>1. TypeOK /\ req[h] \in Request
  BY DEF IInv, TypeOK
<1>2. faults \in Nat /\ faults' \in 0 .. MaxFaults /\ faults' \in Nat /\ faults <= faults'
  BY <1>1, LoginAssumption DEF TypeOK, Fault
<1>3. /\ Continues(h) /\ Moves(h) /\ req'[h].step \in {"password", "count"}
      /\ uses' \in {uses, [uses EXCEPT ![req[h].key] = @ + 1]}
  BY <1>1, CompareContinues DEF LoginSteps, Continues
<1>4. TypeOK'
  <2>1. challenge' \in [Challenges -> ChallengeRows]
    BY <1>1 DEF TypeOK, ChallengeRows
  <2>2. uses' \in [Challenges -> Nat]
    BY <1>1, <1>3 DEF TypeOK
  <2> QED
    BY <1>1, <1>2, <1>3, <2>1, <2>2 DEF TypeOK, Moves
<1>5. AdmittedInv' /\ LockFollowsThreshold' /\ EndedInv'
  BY <1>1, <1>2, <1>3, AdmittedKept, LockKept, ContinuesEndedKept DEF IInv, Fault
<1>6. ASSUME NEW c \in Challenges PROVE ChallengeFits(c)'
  <2>1. ChallengeFits(c) /\ uses[c] \in Nat /\ challenge[c] \in ChallengeRows
    BY <1>1 DEF IInv, ChallengeInv, TypeOK
  <2>2. /\ IsFiniteSet(Marking(c)) /\ Cardinality(Marking(c)) \in Nat
        /\ Cardinality(Marking(c)) <= Cardinality(Requests) /\ Cardinality(Requests) \in Nat
    BY MarkingFinite
  <2>3. CASE c = req[h].key
    <3>1. h \in Marking(c) /\ Marking(c)' = Marking(c) \ {h}
      BY <1>3, <2>3 DEF Marking, Moves
    <3>2. Cardinality(Marking(c) \ {h}) = Cardinality(Marking(c)) - 1
      BY <2>2, <3>1, FS_RemoveElement
    <3>3. Cardinality(Marking(c)') = Cardinality(Marking(c)) - 1
      BY <3>1, <3>2
    <3>4. challenge[c].issued /\ uses'[c] \in Nat /\ uses'[c] <= uses[c] + 1
      BY <1>1, <1>3, <2>1, <2>3, <3>1 DEF ChallengeFits, TypeOK
    <3>5. CASE faults' = faults /\ challenge' = [challenge EXCEPT ![req[h].key].used = TRUE]
      <4>1. challenge'[c].used /\ challenge'[c].issued
        BY <1>1, <2>1, <2>3, <3>4, <3>5 DEF TypeOK, ChallengeRows
      <4> QED
        BY <1>2, <2>1, <2>2, <3>3, <3>4, <3>5, <4>1 DEF ChallengeFits
    <3>6. CASE Fault /\ challenge' = challenge
      BY <1>2, <2>1, <2>2, <3>3, <3>4, <3>6 DEF ChallengeFits, Fault
    <3> QED
      BY <3>5, <3>6
  <2>4. CASE c # req[h].key
    <3>1. Marking(c)' = Marking(c)
      BY <1>3, <2>4 DEF Marking, Moves
    <3>2. challenge'[c] = challenge[c] /\ uses'[c] = uses[c]
      BY <1>1, <1>3, <2>4 DEF TypeOK
    <3> QED
      BY <1>2, <2>1, <2>2, <3>1, <3>2 DEF ChallengeFits
  <2> QED
    BY <2>3, <2>4
<1> QED
  BY <1>4, <1>5, <1>6 DEF IInv, ChallengeInv

LEMMA MarkInv ==
  ASSUME IInv, NEW h \in Requests, MarkUsed(h) \/ MarkFails(h)
  PROVE  IInv'
<1>1. CASE MarkUsed(h)
  BY <1>1, CompareInv DEF MarkUsed, boundVars
<1>2. CASE MarkFails(h)
  BY <1>2, CompareInv DEF MarkFails, authVars
<1> QED
  BY <1>1, <1>2

(* Users. *)

(* A step that writes the row of the user of h and no other table. *)
LEMMA UserWritten ==
  ASSUME IInv, NEW h \in Requests, NEW u \in Users, NEW row \in UserRows,
         user' = [user EXCEPT ![u] = row],
         req' \in [Requests -> Request], req'[h].step # "mark",
         req'[h].step # "idle" => req[h].step # "idle" /\ req'[h].session = req[h].session,
         \A k \in Requests \ {h} : /\ req'[k].step = req[k].step /\ req'[k].key = req[k].key
                                   /\ req'[k].session = req[k].session,
         UNCHANGED <<now, challenge, session, boundVars, historyVars>>
  PROVE  TypeOK' /\ ChallengeInv' /\ EndedInv'
<1>1. TypeOK
  BY DEF IInv
<1>2. TypeOK'
  BY <1>1 DEF TypeOK, boundVars, historyVars
<1>3. ASSUME NEW c \in Challenges PROVE ChallengeFits(c)'
  <2>1. ChallengeFits(c) /\ uses[c] \in Nat /\ faults \in Nat
    BY <1>1, LoginAssumption DEF IInv, ChallengeInv, TypeOK
  <2>2. Marking(c)' \subseteq Marking(c)
    BY DEF Marking
  <2>3. IsFiniteSet(Marking(c)) /\ Cardinality(Marking(c)) \in Nat /\ Cardinality(Requests) \in Nat
    BY MarkingFinite
  <2>4. IsFiniteSet(Marking(c)') /\ Cardinality(Marking(c)') <= Cardinality(Marking(c))
    BY <2>2, <2>3, FS_Subset
  <2>5. Cardinality(Marking(c)') \in Nat
    BY <2>4, FS_CardinalityType
  <2>6. challenge' = challenge /\ uses' = uses /\ faults' = faults
    BY DEF boundVars, historyVars
  <2> QED
    BY <2>1, <2>2, <2>3, <2>4, <2>5, <2>6 DEF ChallengeFits
<1>4. ASSUME NEW s \in ended PROVE Ended(s)'
  <2>1. Ended(s)
    BY DEF IInv, EndedInv
  <2>2. InUse(s)' => InUse(s)
    BY DEF InUse
  <2> QED
    BY <2>1, <2>2 DEF Ended
<1>5. ended' = ended
  BY DEF historyVars
<1> QED
  BY <1>2, <1>3, <1>4, <1>5 DEF ChallengeInv, EndedInv

LEMMA ContinuesUserWritten ==
  ASSUME IInv, NEW h \in Requests, NEW u \in Users, NEW row \in UserRows,
         user' = [user EXCEPT ![u] = row], Continues(h),
         UNCHANGED <<now, challenge, session, boundVars, historyVars>>
  PROVE  TypeOK' /\ ChallengeInv' /\ EndedInv'
<1>1. /\ req' \in [Requests -> Request] /\ req'[h].step # "mark"
      /\ req'[h].step # "idle" => req[h].step # "idle" /\ req'[h].session = req[h].session
      /\ \A k \in Requests \ {h} : /\ req'[k].step = req[k].step /\ req'[k].key = req[k].key
                                   /\ req'[k].session = req[k].session
  BY IdleType DEF Continues, Moves, GoesOn
<1> QED
  BY <1>1, UserWritten

(* The other users as they were. *)
LEMMA OtherUsers ==
  ASSUME TypeOK, NEW u \in Users, NEW row, user' = [user EXCEPT ![u] = row]
  PROVE  user'[u] = row /\ \A v \in Users \ {u} : user'[v] = user[v]
BY DEF TypeOK

LEMMA CountFailureInv ==
  ASSUME IInv, NEW h \in Requests, CountFailure(h)
  PROVE  IInv'
<1>1. TypeOK /\ req[h] \in Request /\ req[h].step = "count"
  BY DEF CountFailure, IInv, TypeOK
<1>2. PICK u \in Users : u = req[h].user
  BY <1>1 DEF Request
<1>3. user[u] \in UserRows
  BY <1>1 DEF TypeOK
<1> DEFINE row == [user[u] EXCEPT !.failed = @ + 1]
<1>4. /\ row \in UserRows /\ row.failed = user[u].failed + 1
      /\ row.active = user[u].active /\ row.locked = user[u].locked
  BY <1>3 DEF UserRows
<1>5. user' = [user EXCEPT ![u] = row] /\ AfterFailure(h, row.failed)
  BY <1>2, <1>4 DEF CountFailure
<1> HIDE DEF row
<1>6. /\ Continues(h) /\ Moves(h)
      /\ LocksOut(row.failed) => req'[h].step = "lock" /\ req'[h].user = u
  BY <1>1, <1>2, <1>5, AfterFailureContinues DEF Continues
<1>7. user'[u] = row /\ \A v \in Users \ {u} : user'[v] = user[v]
  BY <1>1, <1>5, OtherUsers
<1>8. TypeOK' /\ ChallengeInv' /\ EndedInv'
  BY <1>4, <1>5, <1>6, ContinuesUserWritten DEF CountFailure
<1>9. \A v \in Users : user'[v].active = user[v].active /\ user'[v].locked = user[v].locked
  BY <1>4, <1>7
<1>10. AdmittedInv'
  <2>1. ASSUME NEW k \in Requests PROVE Admitted(k)'
    <3>1. Admitted(k) /\ req[k].user \in Users /\ now' = now
      BY <1>1 DEF CountFailure, IInv, AdmittedInv, TypeOK, Request
    <3>2. CASE k = h
      BY <1>6, <1>9, <3>1, <3>2, IdleType DEF Continues, GoesOn, Admitted, LoginSteps
    <3>3. CASE k # h
      BY <1>6, <1>9, <3>1, <3>3 DEF Moves, Admitted
    <3> QED
      BY <3>2, <3>3
  <2> QED
    BY <2>1 DEF AdmittedInv
<1>11. LockFollowsThreshold'
  <2> SUFFICES ASSUME NEW v \in Users, user'[v].failed >= LockoutThreshold, faults' = 0,
                      \A k \in Requests : req'[k].user = v => req'[k].step # "lock"
               PROVE  user'[v].locked # 0
    BY DEF LockFollowsThreshold
  <2>1. v # u
    BY <1>6, <1>7 DEF LocksOut
  <2>2. \A k \in Requests : req[k].user = v => req[k].step # "lock"
    BY <1>1, <1>6 DEF Moves
  <2>3. faults = 0
    BY DEF CountFailure, boundVars
  <2> QED
    BY <1>7, <2>1, <2>2, <2>3 DEF IInv, LockFollowsThreshold
<1> QED
  BY <1>8, <1>10, <1>11 DEF IInv

LEMMA OvertakeEffect ==
  ASSUME TypeOK, NEW h \in Requests, NEW u, req' = Overtake(u, h)
  PROVE  /\ req' \in [Requests -> Request] /\ req'[h] = Idle
         /\ \A k \in Requests \ {h} :
              /\ req'[k].step = req[k].step /\ req'[k].key = req[k].key
              /\ req'[k].session = req[k].session /\ req'[k].user = req[k].user
              /\ req[k].overtaken => req'[k].overtaken
              /\ req[k].step # "idle" /\ req[k].user = u => req'[k].overtaken
<1>1. \A k \in Requests : req[k] \in Request
  BY DEF TypeOK
<1>2. req' = [k \in Requests |-> IF k = h THEN Idle
                      ELSE IF req[k].step # "idle" /\ req[k].user = u
                           THEN [req[k] EXCEPT !.overtaken = TRUE] ELSE req[k]]
  BY DEF Overtake
<1>3. \A k \in Requests : [req[k] EXCEPT !.overtaken = TRUE] \in Request
  BY <1>1 DEF Request
<1>4. req' \in [Requests -> Request] /\ req'[h] = Idle
  BY <1>1, <1>2, <1>3, IdleType
<1>5. ASSUME NEW k \in Requests \ {h}
      PROVE   /\ req'[k].step = req[k].step /\ req'[k].key = req[k].key
              /\ req'[k].session = req[k].session /\ req'[k].user = req[k].user
              /\ req[k].overtaken => req'[k].overtaken
              /\ req[k].step # "idle" /\ req[k].user = u => req'[k].overtaken
  <2>1. CASE req[k].step # "idle" /\ req[k].user = u
    <3>1. req'[k] = [req[k] EXCEPT !.overtaken = TRUE]
      BY <1>2, <2>1
    <3> QED
      BY <1>1, <3>1 DEF Request
  <2>2. CASE ~(req[k].step # "idle" /\ req[k].user = u)
    BY <1>2, <2>2
  <2> QED
    BY <2>1, <2>2
<1> QED
  BY <1>4, <1>5

(* A write of the row of u that overtakes the logins of u. *)
LEMMA OvertakeInv ==
  ASSUME IInv, NEW h \in Requests, NEW u \in Users, NEW row \in UserRows,
         user' = [user EXCEPT ![u] = row], req' = Overtake(u, h),
         UNCHANGED <<now, challenge, session, boundVars, historyVars>>
  PROVE  TypeOK' /\ ChallengeInv' /\ EndedInv' /\ AdmittedInv'
<1>1. TypeOK
  BY DEF IInv
<1>2. /\ req' \in [Requests -> Request] /\ req'[h] = Idle
      /\ \A k \in Requests \ {h} :
           /\ req'[k].step = req[k].step /\ req'[k].key = req[k].key
           /\ req'[k].session = req[k].session /\ req'[k].user = req[k].user
           /\ req[k].overtaken => req'[k].overtaken
           /\ req[k].step # "idle" /\ req[k].user = u => req'[k].overtaken
  BY <1>1, OvertakeEffect
<1>3. TypeOK' /\ ChallengeInv' /\ EndedInv'
  BY <1>2, IdleType, UserWritten
<1>4. \A v \in Users \ {u} : user'[v] = user[v]
  BY <1>1, OtherUsers
<1>5. ASSUME NEW k \in Requests PROVE Admitted(k)'
  <2>1. CASE k = h
    BY <1>2, <2>1, IdleType DEF Admitted, LoginSteps
  <2>2. CASE k # h /\ req[k].user = u
    BY <1>2, <2>2 DEF Admitted, LoginSteps
  <2>3. CASE k # h /\ req[k].user # u
    <3>1. Admitted(k) /\ req[k].user \in Users
      BY <1>1 DEF IInv, AdmittedInv, TypeOK, Request
    <3> QED
      BY <1>2, <1>4, <2>3, <3>1 DEF Admitted
  <2> QED
    BY <2>1, <2>2, <2>3
<1> QED
  BY <1>3, <1>5 DEF AdmittedInv

LEMMA SetLockedUntilInv ==
  ASSUME IInv, NEW h \in Requests, SetLockedUntil(h)
  PROVE  IInv'
<1>1. TypeOK /\ req[h] \in Request /\ req[h].step = "lock"
  BY DEF SetLockedUntil, IInv, TypeOK
<1>2. PICK u \in Users : u = req[h].user
  BY <1>1 DEF Request
<1>3. PICK t \in TimesSince(h) : user' = [user EXCEPT ![u].locked = t + LockoutDuration]
  BY <1>2 DEF SetLockedUntil
<1>4. t + LockoutDuration \in Nat \ {0}
  BY <1>1, LoginAssumption DEF TimesSince, Request, TypeOK
<1> DEFINE row == [user[u] EXCEPT !.locked = t + LockoutDuration]
<1>5. row \in UserRows /\ row.locked # 0
  BY <1>1, <1>4 DEF TypeOK, UserRows
<1>6. user' = [user EXCEPT ![u] = row]
  BY <1>3
<1> HIDE DEF row
<1>7. TypeOK' /\ ChallengeInv' /\ EndedInv' /\ AdmittedInv'
  BY <1>2, <1>5, <1>6, OvertakeInv DEF SetLockedUntil
<1>8. user'[u] = row /\ \A v \in Users \ {u} : user'[v] = user[v]
  BY <1>1, <1>6, OtherUsers
<1>9. LockFollowsThreshold'
  <2> SUFFICES ASSUME NEW v \in Users, v # u, user'[v].failed >= LockoutThreshold, faults' = 0,
                      \A k \in Requests : req'[k].user = v => req'[k].step # "lock"
               PROVE  user'[v].locked # 0
    BY <1>5, <1>8 DEF LockFollowsThreshold
  <2>1. \A k \in Requests : req[k].user = v => req[k].step # "lock"
    <3>1. req' = Overtake(u, h)
      BY <1>2 DEF SetLockedUntil
    <3> QED
      BY <1>1, <1>2, <3>1, OvertakeEffect
  <2>2. faults = 0
    BY DEF SetLockedUntil, boundVars
  <2> QED
    BY <1>8, <2>1, <2>2 DEF IInv, LockFollowsThreshold
<1> QED
  BY <1>7, <1>9 DEF IInv

LEMMA ResetFailedAttemptsInv ==
  ASSUME IInv, NEW h \in Requests, ResetFailedAttempts(h)
  PROVE  IInv'
<1>1. TypeOK /\ req[h] \in Request /\ req[h].step = "reset" /\ now \in Nat
  BY DEF ResetFailedAttempts, IInv, TypeOK
<1>2. PICK u \in Users : u = req[h].user
  BY <1>1 DEF Request
<1> DEFINE row == Reset(user[u])
<1>3. /\ row \in UserRows /\ row.failed = 0 /\ row.locked = 0
      /\ row.active = user[u].active
  BY <1>1 DEF Reset, UserRows, TypeOK
<1>4. user' = [user EXCEPT ![u] = row]
  BY <1>2 DEF ResetFailedAttempts
<1> HIDE DEF row
<1>5. Continues(h) /\ Moves(h)
  BY <1>1, GotoContinues DEF ResetFailedAttempts, Continues, Steps, LoginSteps
<1>6. user'[u] = row /\ \A v \in Users \ {u} : user'[v] = user[v]
  BY <1>1, <1>4, OtherUsers
<1>7. TypeOK' /\ ChallengeInv' /\ EndedInv'
  BY <1>3, <1>4, <1>5, ContinuesUserWritten DEF ResetFailedAttempts
<1>8. AdmittedInv'
  <2>1. \A v \in Users : /\ user'[v].active = user[v].active
                         /\ user[v].locked <= now => user'[v].locked <= now
    BY <1>1, <1>3, <1>6
  <2>2. ASSUME NEW k \in Requests PROVE Admitted(k)'
    <3>1. Admitted(k) /\ req[k].user \in Users /\ now' = now
      BY <1>1 DEF ResetFailedAttempts, IInv, AdmittedInv, TypeOK, Request
    <3>2. CASE k = h
      BY <1>5, <2>1, <3>1, <3>2, IdleType DEF Continues, GoesOn, Admitted, LoginSteps
    <3>3. CASE k # h
      BY <1>5, <2>1, <3>1, <3>3 DEF Moves, Admitted
    <3> QED
      BY <3>2, <3>3
  <2> QED
    BY <2>2 DEF AdmittedInv
<1>9. LockFollowsThreshold'
  <2> SUFFICES ASSUME NEW v \in Users, user'[v].failed >= LockoutThreshold, faults' = 0,
                      \A k \in Requests : req'[k].user = v => req'[k].step # "lock"
               PROVE  user'[v].locked # 0
    BY DEF LockFollowsThreshold
  <2>1. v # u
    BY <1>3, <1>6, LoginAssumption
  <2>2. \A k \in Requests : req[k].user = v => req[k].step # "lock"
    BY <1>1, <1>5 DEF Moves
  <2>3. faults = 0
    BY DEF ResetFailedAttempts, boundVars
  <2> QED
    BY <1>6, <2>1, <2>2, <2>3 DEF IInv, LockFollowsThreshold
<1> QED
  BY <1>7, <1>8, <1>9 DEF IInv

LEMMA UpdateUserInv ==
  ASSUME IInv, NEW h \in Requests, UpdateUser(h)
  PROVE  IInv'
<1>1. TypeOK /\ req[h] \in Request /\ req[h].step = "write"
  BY DEF UpdateUser, IInv, TypeOK
<1>2. PICK u \in Users : u = req[h].user
  BY <1>1 DEF Request
<1> DEFINE row == [user[u] EXCEPT !.active = (req[h].seen = 1)]
<1>3. /\ row \in UserRows /\ row.failed = user[u].failed /\ row.locked = user[u].locked
      /\ req[h].seen = 1 => row.active
  <2>1. user[u] \in UserRows
    BY <1>1 DEF TypeOK
  <2>2. CASE req[h].seen = 1
    <3>1. row = [user[u] EXCEPT !.active = TRUE]
      BY <2>2
    <3> HIDE DEF row
    <3> QED
      BY <2>1, <3>1 DEF UserRows
  <2>3. CASE req[h].seen # 1
    <3>1. row = [user[u] EXCEPT !.active = FALSE]
      BY <2>3
    <3> HIDE DEF row
    <3> QED
      BY <2>1, <2>3, <3>1 DEF UserRows
  <2> QED
    BY <2>2, <2>3
<1>4. user' = [user EXCEPT ![u] = row]
  BY <1>2 DEF UpdateUser
<1> HIDE DEF row
<1>5. user'[u] = row /\ \A v \in Users \ {u} : user'[v] = user[v]
  BY <1>1, <1>4, OtherUsers
<1>6. faults' = faults /\ now' = now
  BY DEF UpdateUser, boundVars
<1>7. (\A k \in Requests : req[k].step = "lock" => req'[k].step = "lock" /\ req'[k].user = req[k].user)
       => LockFollowsThreshold'
  BY <1>3, <1>5, <1>6 DEF IInv, LockFollowsThreshold
<1>8. CASE req[h].seen = 1
  <2>1. Continues(h) /\ Moves(h) /\ req'[h] = Idle
    BY <1>1, <1>8, EndContinues DEF UpdateUser, Continues
  <2>2. TypeOK' /\ ChallengeInv' /\ EndedInv'
    BY <1>3, <1>4, <2>1, ContinuesUserWritten DEF UpdateUser
  <2>3. \A v \in Users : /\ user[v].active => user'[v].active
                         /\ user'[v].locked = user[v].locked
    BY <1>3, <1>5, <1>8
  <2>4. ASSUME NEW k \in Requests PROVE Admitted(k)'
    <3>1. Admitted(k) /\ req[k].user \in Users
      BY <1>1 DEF IInv, AdmittedInv, TypeOK, Request
    <3>2. CASE k = h
      BY <2>1, <3>2, IdleType DEF Admitted, LoginSteps
    <3>3. CASE k # h
      BY <1>6, <2>1, <2>3, <3>1, <3>3 DEF Moves, Admitted
    <3> QED
      BY <3>2, <3>3
  <2>5. LockFollowsThreshold'
    BY <1>1, <1>7, <2>1 DEF Moves
  <2> QED
    BY <2>2, <2>4, <2>5 DEF IInv, AdmittedInv
<1>9. CASE req[h].seen # 1
  <2>1. req' = Overtake(u, h)
    BY <1>2, <1>9 DEF UpdateUser
  <2>2. TypeOK' /\ ChallengeInv' /\ EndedInv' /\ AdmittedInv'
    BY <1>3, <1>4, <2>1, OvertakeInv DEF UpdateUser
  <2>3. LockFollowsThreshold'
    BY <1>1, <1>7, <2>1, OvertakeEffect
  <2> QED
    BY <2>2, <2>3 DEF IInv
<1> QED
  BY <1>8, <1>9

(* Sessions. *)

(* A step that writes sessions, none that ended past the clock. *)
LEMMA SessionWritten ==
  ASSUME IInv, NEW h \in Requests, Continues(h), req[h].step # "lock",
         UNCHANGED <<now, user, challenge, boundVars, historyVars>>,
         session' \in [Sessions -> SessionRows],
         \A s \in ended : session'[s].created /\ session'[s].expires <= now
  PROVE  IInv'
<1>1. TypeOK /\ faults \in Nat /\ faults' = faults
  BY LoginAssumption DEF IInv, TypeOK, boundVars
<1>2. TypeOK'
  BY <1>1 DEF Continues, Moves, TypeOK, boundVars, historyVars
<1>3. AdmittedInv'
  BY AdmittedKept DEF IInv
<1>4. LockFollowsThreshold'
  BY <1>1, LockKept DEF IInv, Continues
<1>5. ChallengeInv'
  <2>1. req'[h].step # "mark"
    BY IdleType DEF Continues, GoesOn
  <2> QED
    BY <1>1, <2>1, ChallengeKept DEF IInv, historyVars, Continues
<1>6. EndedInv'
  <2>1. ended' = ended
    BY DEF historyVars
  <2>2. ASSUME NEW s \in ended PROVE Ended(s)'
    <3>1. s # NoSession
      BY <1>1, LoginAssumption DEF TypeOK
    <3>2. InUse(s)' => InUse(s)
      BY <3>1, IdleType DEF Continues, Moves, GoesOn, InUse
    <3> QED
      BY <3>2 DEF IInv, EndedInv, Ended
  <2> QED
    BY <2>1, <2>2 DEF EndedInv
<1> QED
  BY <1>2, <1>3, <1>4, <1>5, <1>6 DEF IInv

LEMMA EndedFacts ==
  ASSUME IInv
  PROVE  \A s \in ended : /\ s \in Sessions /\ session[s].created /\ session[s].expires <= now
                          /\ \A h \in Requests : req[h].step # "idle" => req[h].session # s
BY DEF IInv, TypeOK, EndedInv, Ended, InUse

LEMMA CreateSessionInv ==
  ASSUME IInv, NEW h \in Requests, CreateSession(h)
  PROVE  IInv'
<1>1. TypeOK /\ req[h] \in Request /\ req[h].step = "create"
  BY DEF CreateSession, IInv, TypeOK
<1>2. PICK s \in Sessions, t \in TimesSince(h) :
       /\ ~session[s].created
       /\ session' = [session EXCEPT ![s] =
            [created |-> TRUE, user |-> req[h].user, valid |-> TRUE, expires |-> t + Inactivity]]
  BY DEF CreateSession
<1>3. Continues(h)
  BY <1>1, EndContinues DEF CreateSession
<1>4. t + Inactivity \in Nat
  BY <1>1, LoginAssumption DEF TimesSince, Request, TypeOK
<1>5. session' \in [Sessions -> SessionRows]
  BY <1>1, <1>2, <1>4 DEF TypeOK, SessionRows, Request
<1>6. \A x \in ended : session'[x].created /\ session'[x].expires <= now
  BY <1>1, <1>2, EndedFacts DEF TypeOK
<1> QED
  BY <1>1, <1>3, <1>5, <1>6, SessionWritten DEF CreateSession

LEMMA InvalidateInv ==
  ASSUME IInv, NEW h \in Requests, Expire(h) \/ Logout(h)
  PROVE  IInv'
<1>1. /\ TypeOK /\ End(h) /\ req[h].step # "lock"
      /\ session' = [session EXCEPT ![req[h].session].valid = FALSE]
      /\ UNCHANGED <<now, user, challenge, boundVars, historyVars>>
  BY DEF Expire, Logout, IInv
<1>2. Continues(h)
  BY <1>1, EndContinues
<1>3. /\ session' \in [Sessions -> SessionRows]
      /\ \A s \in Sessions : /\ session'[s].created = session[s].created
                             /\ session'[s].expires = session[s].expires
  BY <1>1 DEF TypeOK, SessionRows
<1> QED
  BY <1>1, <1>2, <1>3, EndedFacts, SessionWritten

LEMMA TouchInv ==
  ASSUME IInv, NEW h \in Requests, Touch(h)
  PROVE  IInv'
<1>1. TypeOK /\ req[h] \in Request /\ req[h].step = "touch"
  BY DEF Touch, IInv, TypeOK
<1>2. PICK t \in TimesSince(h) :
        session' = [session EXCEPT ![req[h].session].expires = t + Inactivity]
  BY DEF Touch
<1>3. Continues(h)
  BY <1>1, GotoContinues DEF Touch, Steps, LoginSteps
<1>4. t + Inactivity \in Nat
  BY <1>1, LoginAssumption DEF TimesSince, Request, TypeOK
<1>5. /\ session' \in [Sessions -> SessionRows]
      /\ \A s \in Sessions \ {req[h].session} : session'[s] = session[s]
  BY <1>1, <1>2, <1>4 DEF TypeOK, SessionRows
<1>6. \A s \in ended : session'[s].created /\ session'[s].expires <= now
  BY <1>1, <1>5, EndedFacts
<1> QED
  BY <1>1, <1>3, <1>5, <1>6, SessionWritten DEF Touch

LEMMA TickInv ==
  ASSUME IInv, Tick
  PROVE  IInv'
<1>1. TypeOK /\ now \in Nat /\ now' = now + 1
  BY DEF Tick, IInv, TypeOK
<1>2. TypeOK'
  <2>1. now' \in 1 .. MaxTime
    BY <1>1, LoginAssumption DEF Tick, TypeOK
  <2> QED
    BY <1>1, <2>1 DEF Tick, TypeOK, authVars, boundVars
<1>3. AdmittedInv'
  <2>1. ASSUME NEW h \in Requests PROVE Admitted(h)'
    <3>1. Admitted(h) /\ user[req[h].user].locked \in Nat
      BY <1>1 DEF IInv, AdmittedInv, TypeOK, Request, UserRows
    <3> QED
      BY <1>1, <3>1 DEF Tick, Admitted, authVars
  <2> QED
    BY <2>1 DEF AdmittedInv
<1>4. LockFollowsThreshold'
  BY DEF Tick, IInv, LockFollowsThreshold, authVars, boundVars
<1>5. ChallengeInv'
  BY DEF Tick, IInv, ChallengeInv, ChallengeFits, Marking, authVars, boundVars
<1>6. EndedInv'
  <2>1. ASSUME NEW s \in ended' PROVE Ended(s)'
    <3>1. CASE s \in ended
      <4>1. Ended(s) /\ session[s].expires \in Nat
        BY <1>1, <3>1 DEF IInv, EndedInv, TypeOK, SessionRows
      <4> QED
        BY <1>1, <4>1 DEF Tick, Ended, InUse, authVars
    <3>2. CASE s \notin ended
      BY <1>1, <3>2 DEF Tick, Ended, InUse, authVars
    <3> QED
      BY <3>1, <3>2
  <2> QED
    BY <2>1 DEF EndedInv
<1> QED
  BY <1>2, <1>3, <1>4, <1>5, <1>6 DEF IInv

-----------------------------------------------------------------------------
(* The theorems.                                                           *)

LEMMA StutterInv ==
  ASSUME IInv, UNCHANGED vars
  PROVE  IInv'
BY DEF vars, authVars, boundVars, historyVars, IInv, TypeOK, AdmittedInv, Admitted,
   LockFollowsThreshold, ChallengeInv, ChallengeFits, Marking, EndedInv, Ended, InUse

LEMMA NextInv == IInv /\ [Next]_vars => IInv'
<1> SUFFICES ASSUME IInv, [Next]_vars PROVE IInv'
  OBVIOUS
<1>1. CASE \E h \in Requests, u \in Users, key \in Challenges \cup {NoKey} : BeginLogin(h, u, key)
  BY <1>1, BeginLoginInv
<1>2. CASE \E h \in Requests, s \in Sessions : FindSession(h, s)
  BY <1>2, FindSessionInv
<1>3. CASE \E h \in Requests, u \in Users, wish \in {"activate", "deactivate", "email"} :
             BeginUpdate(h, u, wish)
  BY <1>3, BeginUpdateInv
<1>4. CASE \E h \in Requests : LoginStep(h)
  BY <1>4, IssueChallengeInv, FindChallengeInv, MarkInv, QuietInv, CountFailureInv,
     SetLockedUntilInv, ResetFailedAttemptsInv, CreateSessionInv DEF LoginStep
<1>5. CASE \E h \in Requests : SessionStep(h)
  BY <1>5, InvalidateInv, TouchInv, QuietInv DEF SessionStep
<1>6. CASE \E h \in Requests : UpdateUser(h)
  BY <1>6, UpdateUserInv
<1>7. CASE \E h \in Requests : FaultStep(h)
  BY <1>7, MarkInv, QuietInv DEF FaultStep
<1>8. CASE Tick
  BY <1>8, TickInv
<1>9. CASE UNCHANGED vars
  BY <1>9, StutterInv
<1> QED
  BY <1>1, <1>2, <1>3, <1>4, <1>5, <1>6, <1>7, <1>8, <1>9 DEF Next

(* The conjuncts of the invariant hold together in every reachable state:  *)
(* a login not overtaken is of a user who may log in, whoever will mark a  *)
(* challenge is counted, nobody holds a session that ended.                *)
THEOREM Invariance == Spec => []IInv
BY InitInv, NextInv, PTL DEF Spec

(* Tables and requests keep their types. *)
THEOREM TypeCorrect == Spec => []TypeOK
<1>1. IInv => TypeOK
  BY DEF IInv
<1> QED
  BY <1>1, Invariance, PTL

(* An account at the threshold is locked once its failures are through,    *)
(* in whatever order counts, locks and resets of its logins come.          *)
THEOREM LockFollows == Spec => []LockFollowsThreshold
<1>1. IInv => LockFollowsThreshold
  BY DEF IInv
<1> QED
  BY <1>1, Invariance, PTL

(* A challenge serves at most as many logins as run at once, and one more  *)
(* for each failure to mark it.                                            *)
THEOREM ChallengesAreBounded == Spec => []ChallengeUsesBounded
<1>1. IInv => ChallengeUsesBounded
  <2> SUFFICES ASSUME IInv, NEW c \in Challenges
               PROVE  uses[c] <= Cardinality(Requests) + faults
    BY DEF ChallengeUsesBounded
  <2>1. ChallengeFits(c) /\ uses[c] \in Nat /\ faults \in Nat
    BY LoginAssumption DEF IInv, ChallengeInv, TypeOK
  <2>2. Cardinality(Marking(c)) \in Nat /\ Cardinality(Requests) \in Nat
    BY MarkingFinite
  <2> QED
    BY <2>1, <2>2 DEF ChallengeFits
<1> QED
  BY <1>1, Invariance, PTL

(* The unconditional renewal never revives a session that expired while    *)
(* nobody used it.                                                         *)
THEOREM EndedStay == Spec => []EndedStaysEnded
<1>1. IInv => EndedStaysEnded
  BY DEF IInv, EndedInv, Ended, EndedStaysEnded
<1> QED
  BY <1>1, Invariance, PTL

(* A locked or inactive user gets a session only from a login that the     *)
(* lock or the deactivation overtook.                                      *)
THEOREM ExcludedGetNone == Spec => NoSessionForExcluded
<1> DEFINE Sound ==
      \A h \in Requests :
        CreateSession(h) /\ ~req[h].overtaken
          => user[req[h].user].active /\ ~(user[req[h].user].locked > now)
<1>1. IInv /\ [Next]_vars => [Sound]_vars
  <2> SUFFICES ASSUME IInv, NEW h \in Requests, CreateSession(h), ~req[h].overtaken
               PROVE  user[req[h].user].active /\ ~(user[req[h].user].locked > now)
    OBVIOUS
  <2>1. Admitted(h) /\ req[h].step = "create"
    BY DEF IInv, AdmittedInv, CreateSession
  <2>2. now \in Nat /\ user[req[h].user].locked \in Nat
    BY DEF IInv, TypeOK, Request, UserRows
  <2> QED
    BY <2>1, <2>2 DEF Admitted, LoginSteps
<1> QED
  BY <1>1, Invariance, PTL DEF Spec, NoSessionForExcluded

=============================================================================
