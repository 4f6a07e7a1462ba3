------------------------------- MODULE Login -------------------------------
(***************************************************************************)
(* Signing in and staying signed in: Service.Login and Logout of           *)
(* internal/domain/users, the update of a user by an administrator, and    *)
(* the session check of internal/middleware/session.go that every request  *)
(* passes.                                                                 *)
(*                                                                         *)
(* A login reads the user row once and decides by what it read; the count  *)
(* of failures, the lock and the reset are UPDATEs of their own, and so    *)
(* are the use of a captcha challenge and the renewal of a session.        *)
(* Passwords, answers and tokens are right or wrong; server and database   *)
(* share one clock.                                                        *)
(***************************************************************************)
EXTENDS Integers, FiniteSets

CONSTANTS
  Requests,           \* concurrent requests of the server
  Users,              \* ids of users
  Challenges,         \* ids of captcha challenges (bound: so many are issued)
  Sessions,           \* ids of sessions (bound: so many are created)
  CaptchaThreshold,   \* failures after which a login needs a challenge
  LockoutThreshold,   \* failures after which the account is locked
  LockoutDuration, CaptchaTTL, Inactivity,
  MaxTime,            \* bound: the clock stops
  MaxFailures,        \* bound: no login begins for a user with more failures
  MaxUpdates,         \* bound: updates of users
  MaxFaults,          \* bound: failing statements whose error the code ignores
  NoKey, NoSession

ASSUME LoginAssumption ==
  /\ Users # {} /\ IsFiniteSet(Requests)
  /\ CaptchaThreshold \in Nat /\ LockoutThreshold \in Nat \ {0}
  /\ CaptchaThreshold <= LockoutThreshold
  /\ {LockoutDuration, CaptchaTTL, Inactivity} \subseteq Nat \ {0}
  /\ {MaxTime, MaxFailures, MaxUpdates, MaxFaults} \subseteq Nat /\ MaxTime # 0
  /\ NoKey \notin Challenges /\ NoSession \notin Sessions

VARIABLES
  now,          \* the clock
  user,         \* users: active, failed_attempts, locked_until (0 for NULL)
  challenge,    \* captcha_challenges: issued, used, expires_at
  session,      \* sessions: user, is_valid, expires_at
  req,          \* what each request has read so far
  updates,      \* updates of users so far
  faults,       \* ignored failures so far
  uses,         \* right answers accepted by challenge (for properties)
  ended         \* sessions that expired while no request used them (for properties)

authVars == <<user, challenge, session>>
boundVars == <<updates, faults>>
historyVars == <<uses, ended>>
vars == <<now, authVars, req, boundVars, historyVars>>

-----------------------------------------------------------------------------
Steps == {"idle", "issue", "challenge", "mark", "password", "count", "lock",
          "reset", "create", "touch", "load", "logout", "write"}

UserRows == [active : BOOLEAN, failed : Nat, locked : Nat]
ChallengeRows == [issued : BOOLEAN, used : BOOLEAN, expires : Nat]
SessionRows == [created : BOOLEAN, user : Users, valid : BOOLEAN, expires : Nat]

(***************************************************************************)
(* seen: the failures a login read, the active flag an update will write   *)
(* (1 or 0), the expiry of the session a request found; at: when a timed   *)
(* step became possible; wrongKey: the failure to count is one of the      *)
(* challenge; overtaken: the user was locked or deactivated since the      *)
(* request began (read by properties only).                                *)
(***************************************************************************)
Request == [step : Steps, user : Users, key : Challenges \cup {NoKey},
            session : Sessions \cup {NoSession}, seen : Nat, at : Nat,
            wrongKey : BOOLEAN, overtaken : BOOLEAN]

Idle == [step |-> "idle", user |-> CHOOSE u \in Users : TRUE, key |-> NoKey,
         session |-> NoSession, seen |-> 0, at |-> 0,
         wrongKey |-> FALSE, overtaken |-> FALSE]

Init ==
  /\ now = 1
  /\ user = [u \in Users |-> [active |-> TRUE, failed |-> 0, locked |-> 0]]
  /\ challenge = [c \in Challenges |-> [issued |-> FALSE, used |-> FALSE, expires |-> 0]]
  /\ session = [s \in Sessions |-> [created |-> FALSE, user |-> CHOOSE u \in Users : TRUE,
                                    valid |-> FALSE, expires |-> 0]]
  /\ req = [h \in Requests |-> Idle]
  /\ updates = 0 /\ faults = 0
  /\ uses = [c \in Challenges |-> 0]
  /\ ended = {}

(* The steps whose statement carries a time the code read before it. *)
Timed == {"issue", "lock", "create", "touch"}

Goto(h, step) ==
  req' = [req EXCEPT ![h].step = step, ![h].at = IF step \in Timed THEN now ELSE 0]
End(h) == req' = [req EXCEPT ![h] = Idle]

(* An error that the code drops: the request goes on as if nothing were. *)
Fault == faults < MaxFaults /\ faults' = faults + 1

(* Times the code may have read since the current step became possible. *)
TimesSince(h) == req[h].at .. now

-----------------------------------------------------------------------------
(* Login.                                                                  *)

(* model.User.IsLocked; the variant compares with the duration only. *)
NeverLocked(u) == user[u].locked > now + LockoutDuration
Locked(u) == user[u].locked > now

(* GetByUsername, the checks of steps 2 to 4.  A key may be one never      *)
(* issued.                                                                 *)
BeginLogin(h, u, key) ==
  LET row == user[u] IN
  /\ req[h].step = "idle"
  /\ row.active /\ ~Locked(u)
  /\ row.failed <= MaxFailures
  /\ req' = [req EXCEPT ![h] =
       [Idle EXCEPT !.user = u, !.key = key, !.seen = row.failed,
                    !.at = IF key = NoKey /\ row.failed >= CaptchaThreshold THEN now ELSE 0,
                    !.step = IF key # NoKey THEN "challenge"
                             ELSE IF row.failed >= CaptchaThreshold THEN "issue"
                             ELSE "password"]]
  /\ UNCHANGED <<now, authVars, boundVars, historyVars>>

(* issueCaptcha, after which the client is told to answer. *)
IssueChallenge(h) ==
  /\ req[h].step = "issue"
  /\ \E c \in Challenges, t \in TimesSince(h) :
       /\ ~challenge[c].issued
       /\ challenge' = [challenge EXCEPT ![c] =
            [issued |-> TRUE, used |-> FALSE, expires |-> t + CaptchaTTL]]
  /\ End(h)
  /\ UNCHANGED <<now, user, session, boundVars, historyVars>>

(* WHERE used = false AND expires_at > NOW(); the variant forgets used. *)
UnexpiredChallenge(c) == challenge[c].issued /\ challenge[c].expires > now
OpenChallenge(c) == challenge[c].issued /\ ~challenge[c].used /\ challenge[c].expires > now

RefuseAnswer(h) ==
  req' = [req EXCEPT ![h].step = "count", ![h].wrongKey = TRUE, ![h].key = NoKey]

(* A lookup that fails counts as a challenge that is not there. *)
FindChallenge(h) ==
  /\ req[h].step = "challenge"
  /\ \/ OpenChallenge(req[h].key) /\ Goto(h, "mark")
     \/ RefuseAnswer(h)
  /\ UNCHANGED <<now, authVars, boundVars, historyVars>>

(* The comparison that follows MarkUsed, whether that succeeded or not. *)
CompareAnswer(h) ==
  \/ /\ req' = [req EXCEPT ![h].step = "password", ![h].key = NoKey]
     /\ uses' = [uses EXCEPT ![req[h].key] = @ + 1]
  \/ RefuseAnswer(h) /\ uses' = uses

MarkUsed(h) ==
  /\ req[h].step = "mark"
  /\ challenge' = [challenge EXCEPT ![req[h].key].used = TRUE]
  /\ CompareAnswer(h)
  /\ UNCHANGED <<now, user, session, boundVars, ended>>

MarkFails(h) ==
  /\ req[h].step = "mark" /\ Fault
  /\ CompareAnswer(h)
  /\ UNCHANGED <<now, authVars, updates, ended>>

CheckPassword(h) ==
  /\ req[h].step = "password"
  /\ \/ Goto(h, "count")
     \/ req' = [req EXCEPT ![h].step = "reset", ![h].seen = 0]
  /\ UNCHANGED <<now, authVars, boundVars, historyVars>>

(* newCount >= LockoutThreshold; in the variant >. *)
LocksLater(count) == count > LockoutThreshold
LocksOut(count) == count >= LockoutThreshold

(* What a login does with the new count. *)
AfterFailure(h, count) ==
  IF LocksOut(count) THEN Goto(h, "lock")
  ELSE IF count >= CaptchaThreshold /\ ~req[h].wrongKey THEN Goto(h, "issue")
  ELSE End(h)

(* UPDATE ... SET failed_attempts = failed_attempts + 1 RETURNING. *)
CountFailure(h) ==
  LET u == req[h].user IN
  /\ req[h].step = "count"
  /\ user' = [user EXCEPT ![u].failed = @ + 1]
  /\ AfterFailure(h, user[u].failed + 1)
  /\ UNCHANGED <<now, challenge, session, boundVars, historyVars>>

(* If counting fails, a wrong password goes by the count read at first, a  *)
(* wrong answer by zero.                                                   *)
CountFails(h) ==
  /\ req[h].step = "count" /\ Fault
  /\ AfterFailure(h, IF req[h].wrongKey THEN 0 ELSE req[h].seen + 1)
  /\ UNCHANGED <<now, authVars, updates, historyVars>>

Overtake(u, h) ==
  [k \in Requests |-> IF k = h THEN Idle
                      ELSE IF req[k].step # "idle" /\ req[k].user = u
                           THEN [req[k] EXCEPT !.overtaken = TRUE] ELSE req[k]]

SetLockedUntil(h) ==
  LET u == req[h].user IN
  /\ req[h].step = "lock"
  /\ \E t \in TimesSince(h) : user' = [user EXCEPT ![u].locked = t + LockoutDuration]
  /\ req' = Overtake(u, h)
  /\ UNCHANGED <<now, challenge, session, boundVars, historyVars>>

LockFails(h) ==
  /\ req[h].step = "lock" /\ Fault
  /\ End(h)
  /\ UNCHANGED <<now, authVars, updates, historyVars>>

(* The row after a correct password; the variant takes one failure off. *)
Decremented(row) == [row EXCEPT !.failed = @ - 1, !.locked = 0]
Reset(row) == [row EXCEPT !.failed = 0, !.locked = 0]

(* Unconditional: a lock set since the row was read goes with the count. *)
ResetFailedAttempts(h) ==
  /\ req[h].step = "reset"
  /\ user' = [user EXCEPT ![req[h].user] = Reset(@)]
  /\ Goto(h, "create")
  /\ UNCHANGED <<now, challenge, session, boundVars, historyVars>>

ResetFails(h) ==
  /\ req[h].step = "reset" /\ Fault
  /\ Goto(h, "create")
  /\ UNCHANGED <<now, authVars, updates, historyVars>>

CreateSession(h) ==
  /\ req[h].step = "create"
  /\ \E s \in Sessions, t \in TimesSince(h) :
       /\ ~session[s].created
       /\ session' = [session EXCEPT ![s] =
            [created |-> TRUE, user |-> req[h].user, valid |-> TRUE, expires |-> t + Inactivity]]
  /\ End(h)
  /\ UNCHANGED <<now, user, challenge, boundVars, historyVars>>

-----------------------------------------------------------------------------
(* A request with a session: loadSession, then the handler.                *)

(* WHERE is_valid = true AND expires_at > NOW(); the variant forgets the   *)
(* expiry.                                                                 *)
ValidSession(s) == session[s].valid
LiveSession(s) == session[s].valid /\ session[s].expires > now

FindSession(h, s) ==
  /\ req[h].step = "idle" /\ LiveSession(s)
  /\ req' = [req EXCEPT ![h] = [Idle EXCEPT !.step = "touch", !.user = session[s].user,
                                  !.session = s, !.seen = session[s].expires, !.at = now]]
  /\ UNCHANGED <<now, authVars, boundVars, historyVars>>

(* The expiry that was read is compared with the clock again: past it, the *)
(* session is invalidated; otherwise renewed, without another condition.   *)
Expire(h) ==
  /\ req[h].step = "touch" /\ req[h].seen < now
  /\ session' = [session EXCEPT ![req[h].session].valid = FALSE]
  /\ End(h)
  /\ UNCHANGED <<now, user, challenge, boundVars, historyVars>>

Touch(h) ==
  /\ req[h].step = "touch"
  /\ \E t \in TimesSince(h) :
       t <= req[h].seen
         /\ session' = [session EXCEPT ![req[h].session].expires = t + Inactivity]
  /\ Goto(h, "load")
  /\ UNCHANGED <<now, user, challenge, boundVars, historyVars>>

TouchFails(h) ==
  /\ req[h].step = "touch" /\ Fault
  /\ Goto(h, "load")
  /\ UNCHANGED <<now, authVars, updates, historyVars>>

(* The user must be active.  The request is a logout, or one that does     *)
(* nothing more here.                                                      *)
LoadUser(h) ==
  /\ req[h].step = "load"
  /\ IF user[req[h].user].active THEN Goto(h, "logout") \/ End(h) ELSE End(h)
  /\ UNCHANGED <<now, authVars, boundVars, historyVars>>

Logout(h) ==
  /\ req[h].step = "logout"
  /\ session' = [session EXCEPT ![req[h].session].valid = FALSE]
  /\ End(h)
  /\ UNCHANGED <<now, user, challenge, boundVars, historyVars>>

-----------------------------------------------------------------------------
(* An administrator updates a user: the row is read, changed in memory and *)
(* written whole, the active flag included when only the email changes.    *)

BeginUpdate(h, u, wish) ==
  /\ req[h].step = "idle" /\ updates < MaxUpdates
  /\ req' = [req EXCEPT ![h] =
       [Idle EXCEPT !.step = "write", !.user = u,
                    !.seen = IF wish = "activate" THEN 1
                             ELSE IF wish = "deactivate" THEN 0
                             ELSE IF user[u].active THEN 1 ELSE 0]]
  /\ updates' = updates + 1
  /\ UNCHANGED <<now, authVars, faults, historyVars>>

UpdateUser(h) ==
  LET u == req[h].user IN
  /\ req[h].step = "write"
  /\ user' = [user EXCEPT ![u].active = (req[h].seen = 1)]
  /\ IF req[h].seen = 1 THEN End(h) ELSE req' = Overtake(u, h)
  /\ UNCHANGED <<now, challenge, session, boundVars, historyVars>>

-----------------------------------------------------------------------------
(* A statement whose error ends the request fails, the client goes away or *)
(* the server dies; at the step "lock" this is LockFails.                  *)
Fail(h) ==
  /\ req[h].step \notin {"idle", "lock"}
  /\ End(h)
  /\ UNCHANGED <<now, authVars, boundVars, historyVars>>

InUse(s) == \E h \in Requests : req[h].step # "idle" /\ req[h].session = s

Tick ==
  /\ now < MaxTime
  /\ now' = now + 1
  /\ ended' = ended \cup {s \in Sessions : session[s].created /\ session[s].expires <= now + 1 /\ ~InUse(s)}
  /\ UNCHANGED <<authVars, req, boundVars, uses>>

LoginStep(h) ==
  \/ IssueChallenge(h) \/ FindChallenge(h) \/ MarkUsed(h) \/ CheckPassword(h)
  \/ CountFailure(h) \/ SetLockedUntil(h) \/ ResetFailedAttempts(h) \/ CreateSession(h)

SessionStep(h) == Expire(h) \/ Touch(h) \/ LoadUser(h) \/ Logout(h)

FaultStep(h) ==
  MarkFails(h) \/ CountFails(h) \/ LockFails(h) \/ ResetFails(h) \/ TouchFails(h) \/ Fail(h)

Next ==
  \/ \E h \in Requests, u \in Users, key \in Challenges \cup {NoKey} : BeginLogin(h, u, key)
  \/ \E h \in Requests, s \in Sessions : FindSession(h, s)
  \/ \E h \in Requests, u \in Users, wish \in {"activate", "deactivate", "email"} :
       BeginUpdate(h, u, wish)
  \/ \E h \in Requests : LoginStep(h) \/ SessionStep(h) \/ UpdateUser(h) \/ FaultStep(h)
  \/ Tick

Spec == Init /\ [][Next]_vars

-----------------------------------------------------------------------------
(* Properties.                                                             *)

(* Types of the tables and the requests. *)
TypeOK ==
  /\ now \in 1 .. MaxTime
  /\ user \in [Users -> UserRows]
  /\ challenge \in [Challenges -> ChallengeRows]
  /\ session \in [Sessions -> SessionRows]
  /\ req \in [Requests -> Request]
  /\ updates \in 0 .. MaxUpdates /\ faults \in 0 .. MaxFaults
  /\ uses \in [Challenges -> Nat]
  /\ ended \subseteq Sessions

(* When an account has reached the threshold and every request that        *)
(* counted a failure is through, it has a lock, however failures, resets   *)
(* and locks of concurrent logins were ordered.                            *)
LockFollowsThreshold ==
  \A u \in Users :
    /\ user[u].failed >= LockoutThreshold /\ faults = 0
    /\ \A h \in Requests : req[h].user = u => req[h].step # "lock"
    => user[u].locked # 0

(* A session is created for a locked or inactive user only by a login that *)
(* was under way when the user was locked or deactivated.                  *)
NoSessionForExcluded ==
  [][\A h \in Requests :
       CreateSession(h) /\ ~req[h].overtaken
         => user[req[h].user].active /\ ~(user[req[h].user].locked > now)]_vars

(* A challenge is marked used by everybody who found it unused: it serves  *)
(* no more logins than were under way at once, or could not mark it.       *)
ChallengeUsesBounded == \A c \in Challenges : uses[c] <= Cardinality(Requests) + faults

(* A session that expired while nobody used it is never renewed: renewal,  *)
(* which has no condition, comes only from requests that found it alive.   *)
EndedStaysEnded == \A s \in ended : session[s].expires <= now
=============================================================================
