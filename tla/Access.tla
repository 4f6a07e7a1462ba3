------------------------------- MODULE Access -------------------------------
(***************************************************************************)
(* Who may change what, and the records that protects: the middlewares     *)
(* session.go and branch_scope.go that every request passes, the grants of *)
(* roles and branches (internal/domain/users), and the readers with their  *)
(* encrypted fields, the step-up and the reveal (internal/domain/readers). *)
(*                                                                         *)
(* A request reads its session, the roles, the permissions and the branch  *)
(* of its user in statements of their own and goes by what it read to its  *)
(* end.  A user has one session, login and logout are those of Login; the  *)
(* four encrypted fields of a reader are treated alike and stand as one,   *)
(* the names and notes, which every edit replaces, are left out.           *)
(***************************************************************************)
EXTENDS Integers, FiniteSets, FiniteSetsExt

CONSTANTS
  Requests,     \* concurrent requests of the server
  Users,        \* users, each with one session
  Roles,        \* names of roles, "administrator" among them
  PermissionsOf,\* the permissions of each role
  InitialGrants,\* the roles and branches users have at first
  Branches,     \* ids of branches
  AllBranches,  \* the scope of an administrator, the empty branch id
  NoBranch,     \* the scope that matches no branch, the nil UUID
  Readers,      \* ids of readers
  Values,       \* texts of the encrypted field
  Keys,         \* encryption keys the server may be started with
  None,         \* NULL; the server has no key
  Window,       \* how long a step-up lasts
  MaxTime,      \* bound: the clock stops
  MaxBegun,     \* bound: requests that begin
  MaxRestarts,  \* bound: restarts of the server
  MaxFaults     \* bound: failing statements whose error the code ignores

Grants == Roles \cup Branches
Permissions == UNION {PermissionsOf[r] : r \in Roles}
Statuses == {"active", "frozen", "blacklisted", "pending_verification"}

ASSUME AccessAssumption ==
  /\ IsFiniteSet(Requests) /\ Users # {} /\ Readers # {}
  /\ "administrator" \in Roles /\ Roles \cap Branches = {}
  /\ PermissionsOf \in [Roles -> SUBSET {"users:admin", "readers:write", "readers:reveal_sensitive"}]
  /\ InitialGrants \in [Users -> SUBSET Grants]
  /\ AllBranches # NoBranch /\ {AllBranches, NoBranch} \cap Branches = {}
  /\ None \notin Values \cup Keys \cup [key : Keys \cup {None}, text : Values]
  /\ {Window, MaxTime, MaxBegun, MaxRestarts, MaxFaults} \subseteq Nat /\ MaxTime # 0

VARIABLES
  now,      \* the clock
  key,      \* the key the server was started with, or None
  grants,   \* user_roles and user_branch_assignments
  stepup,   \* stepup_at of the session of each user, 0 for NULL
  reader,   \* readers
  trail,    \* the grants the latest audit event of each user shows
  req,      \* what each request has read so far
  begun, restarts, faults,
  attempts, \* reveals in the audit log
  answers,  \* reveals answered (for properties)
  latest,   \* the values last given for each reader (for properties)
  tainted   \* readers two edits overlapped on, users with a lost or overlapping
            \* change of grants (for properties)

boundVars == <<begun, restarts, faults>>
historyVars == <<attempts, answers, latest, tainted>>
vars == <<now, key, grants, stepup, reader, trail, req, boundVars, historyVars>>

-----------------------------------------------------------------------------
Steps == {"idle", "permissions", "scope", "handler", "setstepup",
          "edit", "log", "decrypt", "before", "grant", "after", "event"}

Sealed == [key : Keys \cup {None}, text : Values] \cup {None}
ReaderRows == [branch : Branches \cup {NoBranch}, status : Statuses \cup {"absent"}, secret : Sealed]
NoReader == [branch |-> NoBranch, status |-> "absent", secret |-> None]

(***************************************************************************)
(* user: who asks; admin, permissions, scope, stepup: what the middlewares *)
(* read; target, row, shown: the user or reader the request is about and   *)
(* what it read of it; at: when the step-up was found recent.  For the     *)
(* properties, held and could are the scopes and permissions its user had  *)
(* since it began, disturbed: another request wrote the target since.      *)
(***************************************************************************)
Request == [step : Steps, user : Users, admin : BOOLEAN, permissions : SUBSET Permissions,
            scope : Branches \cup {AllBranches, NoBranch}, stepup : Nat, at : Nat,
            target : Users \cup Readers, row : ReaderRows, grant : Grants,
            shown : SUBSET Grants, held : SUBSET (Branches \cup {AllBranches}),
            could : SUBSET Permissions, disturbed : BOOLEAN]

Idle == [step |-> "idle", user |-> CHOOSE u \in Users : TRUE, admin |-> FALSE,
         permissions |-> {}, scope |-> NoBranch, stepup |-> 0, at |-> 0,
         target |-> CHOOSE u \in Users : TRUE, row |-> NoReader,
         grant |-> CHOOSE g \in Grants : TRUE, shown |-> {}, held |-> {}, could |-> {},
         disturbed |-> FALSE]

Init ==
  /\ now = 1 /\ key \in Keys \cup {None}
  /\ grants = InitialGrants
  /\ stepup = [u \in Users |-> 0]
  /\ reader = [r \in Readers |-> NoReader]
  /\ trail = InitialGrants
  /\ req = [h \in Requests |-> Idle]
  /\ begun = 0 /\ restarts = 0 /\ faults = 0
  /\ attempts = 0 /\ answers = 0
  /\ latest = [r \in Readers |-> [status |-> "absent", text |-> None]]
  /\ tainted = {}

End(h) == req' = [req EXCEPT ![h] = Idle]

(* An error that the code drops: the request goes on as if nothing were. *)
Fault == faults < MaxFaults /\ faults' = faults + 1

-----------------------------------------------------------------------------
(* The middlewares.                                                        *)

PermissionsBy(gs) == UNION {PermissionsOf[g] : g \in gs \cap Roles}
ScopesBy(gs) == IF "administrator" \in gs THEN {AllBranches} ELSE gs \cap Branches

(* loadSession: the session row and the roles. *)
Begin(h, u) ==
  /\ req[h].step = "idle" /\ begun < MaxBegun
  /\ begun' = begun + 1
  /\ req' = [req EXCEPT ![h] =
       [Idle EXCEPT !.step = "permissions", !.user = u, !.stepup = stepup[u],
                    !.admin = "administrator" \in grants[u],
                    !.held = ScopesBy(grants[u]), !.could = PermissionsBy(grants[u])]]
  /\ UNCHANGED <<now, key, grants, stepup, reader, trail, restarts, faults, historyVars>>

ReadPermissions(h) ==
  /\ req[h].step = "permissions"
  /\ req' = [req EXCEPT ![h].step = "scope",
                        ![h].permissions = PermissionsBy(grants[req[h].user])]
  /\ UNCHANGED <<now, key, grants, stepup, reader, trail, boundVars, historyVars>>

(* The branches to choose from, whatever comes first.  The variant falls   *)
(* back on the scope that filters nothing.                                 *)
ScopesOrAll(h) ==
  LET mine == grants[req[h].user] \cap Branches
  IN  IF req[h].admin \/ mine = {} THEN {AllBranches} ELSE mine
Scopes(h) ==
  LET mine == grants[req[h].user] \cap Branches
  IN  IF req[h].admin THEN {AllBranches} ELSE IF mine = {} THEN {NoBranch} ELSE mine

(* A query that fails leaves the request without a branch. *)
ResolveScope(h) ==
  /\ req[h].step = "scope"
  /\ \E b \in Scopes(h) \cup (IF req[h].admin THEN {} ELSE {NoBranch}) :
       req' = [req EXCEPT ![h].step = "handler", ![h].scope = b]
  /\ UNCHANGED <<now, key, grants, stepup, reader, trail, boundVars, historyVars>>

May(h, permission) == req[h].step = "handler" /\ permission \in req[h].permissions

-----------------------------------------------------------------------------
(* Grants of roles and branches.                                           *)

(* The branches of the user are looked at unless the caller is an          *)
(* administrator.                                                          *)
EnforceUserScope(h, u, g) ==
  /\ May(h, "users:admin")
  /\ req[h].admin \/ req[h].scope \in grants[u]
  /\ req' = [req EXCEPT ![h].step = "before", ![h].target = u, ![h].grant = g]
  /\ UNCHANGED <<now, key, grants, stepup, reader, trail, boundVars, historyVars>>

(* GetRoles or GetBranches: grants of the kind that is changed.  The       *)
(* snapshots go to the audit event only, an error leaves them empty.  The  *)
(* variant shows the branches whatever is changed.                         *)
Kin(g) == IF g \in Roles THEN Roles ELSE Branches
SnapshotOfBranches(h) == grants[req[h].target] \cap Branches
Snapshot(h) == grants[req[h].target] \cap Kin(req[h].grant)

Changing(h, u) == req[h].target = u /\ req[h].step \in {"grant", "after", "event"}

Snap(h, next) ==
  LET u == req[h].target IN
  \/ /\ req' = [req EXCEPT ![h].step = next, ![h].shown = Snapshot(h)]
     /\ tainted' = IF next = "grant" /\ \E k \in Requests : Changing(k, u)
                   THEN tainted \cup {u} ELSE tainted
     /\ UNCHANGED faults
  \/ /\ Fault
     /\ req' = [req EXCEPT ![h].step = next, ![h].shown = {}]
     /\ tainted' = tainted \cup {u}

SnapshotBefore(h) ==
  /\ req[h].step = "before" /\ Snap(h, "grant")
  /\ UNCHANGED <<now, key, grants, stepup, reader, trail, begun, restarts, attempts, answers, latest>>

(* INSERT ... ON CONFLICT DO NOTHING, or DELETE. *)
Granted(h) == grants[req[h].target] \cup {req[h].grant}
Revoked(h) == grants[req[h].target] \ {req[h].grant}

ChangeGrants(h) ==
  LET u == req[h].target IN
  /\ req[h].step = "grant"
  /\ \E gs \in {Granted(h), Revoked(h)} :
       /\ grants' = [grants EXCEPT ![u] = gs]
       /\ req' = [k \in Requests |->
            IF k = h THEN [req[h] EXCEPT !.step = "after"]
            ELSE IF req[k].user = u /\ req[k].step # "idle"
                 THEN [req[k] EXCEPT !.held = @ \cup ScopesBy(gs), !.could = @ \cup PermissionsBy(gs)]
            ELSE req[k]]
  /\ UNCHANGED <<now, key, stepup, reader, trail, boundVars, historyVars>>

SnapshotAfter(h) ==
  /\ req[h].step = "after" /\ Snap(h, "event")
  /\ UNCHANGED <<now, key, grants, stepup, reader, trail, begun, restarts, attempts, answers, latest>>

(* LogAdminChange; the failure of the INSERT is dropped. *)
LogGrant(h) ==
  LET u == req[h].target IN
  /\ req[h].step = "event" /\ End(h)
  /\ \/ /\ trail' = [trail EXCEPT ![u] = (@ \ Kin(req[h].grant)) \cup req[h].shown]
        /\ UNCHANGED <<faults, tainted>>
     \/ Fault /\ tainted' = tainted \cup {u} /\ UNCHANGED trail
  /\ UNCHANGED <<now, key, grants, stepup, reader, begun, restarts, attempts, answers, latest>>

-----------------------------------------------------------------------------
(* Readers.                                                                *)

(* encryptField; the variant has no case for a field that is not given. *)
EncryptNil(text) == [key |-> key, text |-> text]
Encrypt(text) == IF text = None THEN None ELSE [key |-> key, text |-> text]

(* What the text of a field was when it was given. *)
TextOf(secret) == IF secret = None THEN None ELSE secret.text

(* A body may name any branch, without one it is the scope; an empty or an *)
(* unknown branch fails.                                                   *)
CreateReader(h, r, b, text) ==
  /\ May(h, "readers:write") /\ reader[r].status = "absent"
  /\ reader' = [reader EXCEPT ![r] =
       [branch |-> b, status |-> "active", secret |-> Encrypt(text)]]
  /\ latest' = [latest EXCEPT ![r] = [status |-> "active", text |-> text]]
  /\ End(h)
  /\ UNCHANGED <<now, key, grants, stepup, trail, boundVars, attempts, answers, tainted>>

InScope(h, r) ==
  /\ reader[r].status # "absent"
  /\ req[h].scope \in {AllBranches, reader[r].branch}

BeginEdit(h, r) ==
  /\ May(h, "readers:write") /\ InScope(h, r)
  /\ req' = [req EXCEPT ![h].step = "edit", ![h].target = r, ![h].row = reader[r]]
  /\ UNCHANGED <<now, key, grants, stepup, reader, trail, boundVars, historyVars>>

(* The encrypted field that is given or else the one that was read; the    *)
(* status is not written.  The variant writes the row that was read.       *)
WholeRow(h, r, text) ==
  [req[h].row EXCEPT !.secret = IF text = None THEN @ ELSE Encrypt(text)]
Overlay(h, r, text) ==
  [reader[r] EXCEPT !.secret = IF text = None THEN req[h].row.secret ELSE Encrypt(text)]

EditReader(h, text) ==
  LET r == req[h].target IN
  /\ req[h].step = "edit"
  /\ reader' = [reader EXCEPT ![r] = Overlay(h, r, text)]
  /\ latest' = IF text = None THEN latest ELSE [latest EXCEPT ![r].text = text]
  /\ req' = [k \in Requests |->
       IF k = h THEN Idle
       ELSE [req[k] EXCEPT !.disturbed = @ \/ (req[k].step = "edit" /\ req[k].target = r)]]
  /\ tainted' = IF req[h].disturbed /\ text = None THEN tainted \cup {r} ELSE tainted
  /\ UNCHANGED <<now, key, grants, stepup, trail, boundVars, attempts, answers>>

(* One UPDATE in the scope of the caller. *)
UpdateStatus(h, r, status) ==
  /\ May(h, "readers:write") /\ InScope(h, r)
  /\ reader' = [reader EXCEPT ![r].status = status]
  /\ latest' = [latest EXCEPT ![r].status = status]
  /\ End(h)
  /\ UNCHANGED <<now, key, grants, stepup, trail, boundVars, attempts, answers, tainted>>

-----------------------------------------------------------------------------
(* Step-up and reveal.                                                     *)

(* The password is right; of the middlewares only loadSession is run. *)
BeginStepUp(h) ==
  /\ req[h].step = "scope"
  /\ req' = [req EXCEPT ![h].step = "setstepup"]
  /\ UNCHANGED <<now, key, grants, stepup, reader, trail, boundVars, historyVars>>

(* The failure of the UPDATE is dropped. *)
SetStepUp(h) ==
  /\ req[h].step = "setstepup" /\ End(h)
  /\ \/ stepup' = [stepup EXCEPT ![req[h].user] = now] /\ UNCHANGED faults
     \/ Fault /\ UNCHANGED stepup
  /\ UNCHANGED <<now, key, grants, reader, trail, begun, restarts, historyVars>>

(* By the step-up read with the session; the variant asks for any. *)
HadStepUp(h) == req[h].stepup # 0
HasRecentStepUp(h) == req[h].stepup # 0 /\ now - req[h].stepup <= Window

BeginReveal(h, r) ==
  /\ May(h, "readers:reveal_sensitive") /\ HasRecentStepUp(h)
  /\ req' = [req EXCEPT ![h].step = "log", ![h].target = r, ![h].at = now]
  /\ UNCHANGED <<now, key, grants, stepup, reader, trail, boundVars, historyVars>>

LogReveal(h) ==
  /\ req[h].step = "log"
  /\ req' = [req EXCEPT ![h].step = "decrypt"]
  /\ \/ attempts' = attempts + 1 /\ UNCHANGED faults
     \/ Fault /\ UNCHANGED attempts
  /\ UNCHANGED <<now, key, grants, stepup, reader, trail, begun, restarts, answers, latest, tainted>>

(* A server with a key opens what this key sealed; one without hands out   *)
(* what is stored.                                                         *)
Decrypts(secret) == secret # None /\ key # None => secret.key = key

RevealSensitive(h) ==
  /\ req[h].step = "decrypt"
  /\ InScope(h, req[h].target) /\ Decrypts(reader[req[h].target].secret)
  /\ answers' = answers + 1
  /\ End(h)
  /\ UNCHANGED <<now, key, grants, stepup, reader, trail, boundVars, attempts, latest, tainted>>

-----------------------------------------------------------------------------
(* A statement whose error ends the request fails, a check refuses it, or  *)
(* it asked for nothing that is modelled here.  A grant that is made stays *)
(* without its event if the request dies.                                  *)
Lost(hs) == {req[h].target : h \in {k \in hs : req[k].step \in {"after", "event"}}}

Fail(h) ==
  /\ req[h].step # "idle"
  /\ End(h)
  /\ tainted' = tainted \cup Lost({h})
  /\ UNCHANGED <<now, key, grants, stepup, reader, trail, boundVars, attempts, answers, latest>>

(* The server stops and is started with a key or without. *)
Restart(k) ==
  /\ restarts < MaxRestarts /\ k # key
  /\ restarts' = restarts + 1
  /\ key' = k
  /\ req' = [h \in Requests |-> Idle]
  /\ tainted' = tainted \cup Lost(Requests)
  /\ UNCHANGED <<now, grants, stepup, reader, trail, begun, faults, attempts, answers, latest>>

(* Only the age of a step-up is read off the clock. *)
Tick ==
  /\ now < MaxTime /\ \E u \in Users : stepup[u] # 0
  /\ now' = now + 1
  /\ UNCHANGED <<key, grants, stepup, reader, trail, req, boundVars, historyVars>>

Middleware(h) == ReadPermissions(h) \/ ResolveScope(h)

GrantNext(h) ==
  \/ \E u \in Users, g \in Grants : EnforceUserScope(h, u, g)
  \/ SnapshotBefore(h) \/ ChangeGrants(h) \/ SnapshotAfter(h) \/ LogGrant(h)

ReaderNext(h) == \E r \in Readers :
  \/ \E b \in Branches, text \in Values \cup {None} : CreateReader(h, r, b, text)
  \/ BeginEdit(h, r)
  \/ \E status \in Statuses : UpdateStatus(h, r, status)

RevealNext(h) ==
  \/ BeginStepUp(h) \/ SetStepUp(h) \/ LogReveal(h) \/ RevealSensitive(h)
  \/ \E r \in Readers : BeginReveal(h, r)

Next ==
  \/ \E h \in Requests, u \in Users : Begin(h, u)
  \/ \E h \in Requests, text \in Values \cup {None} : EditReader(h, text)
  \/ \E h \in Requests :
       Middleware(h) \/ GrantNext(h) \/ ReaderNext(h) \/ RevealNext(h) \/ Fail(h)
  \/ \E k \in Keys \cup {None} : Restart(k)
  \/ Tick

Spec == Init /\ [][Next]_vars

-----------------------------------------------------------------------------
(* Types of the tables, the requests and the histories. *)
TypeOK ==
  /\ now \in 1 .. MaxTime /\ key \in Keys \cup {None}
  /\ grants \in [Users -> SUBSET Grants] /\ trail \in [Users -> SUBSET Grants]
  /\ stepup \in [Users -> 0 .. MaxTime]
  /\ reader \in [Readers -> ReaderRows]
  /\ req \in [Requests -> Request]
  /\ begun \in 0 .. MaxBegun /\ restarts \in 0 .. MaxRestarts /\ faults \in 0 .. MaxFaults
  /\ {attempts, answers} \subseteq 0 .. MaxBegun
  /\ latest \in [Readers -> [status : Statuses \cup {"absent"}, text : Values \cup {None}]]
  /\ tainted \subseteq Users \cup Readers

(* A reader is changed, and grants are, only by a request whose user had   *)
(* the permission, and for the reader a scope that covers its branch, at   *)
(* some moment since the request began: the roles, permissions and branch  *)
(* it read apart never add up to more than was granted meanwhile.          *)
ActsWithinGrants ==
  [][/\ \A r \in Readers : reader'[r] # reader[r] =>
          \E h \in Requests :
            /\ req[h] # req'[h] /\ "readers:write" \in req[h].could
            /\ reader[r].status = "absent" \/ {AllBranches, reader[r].branch} \cap req[h].held # {}
     /\ grants' # grants =>
          \E h \in Requests : req[h] # req'[h] /\ "users:admin" \in req[h].could]_vars

(* A reader has the status that was given last, and the encrypted field    *)
(* too unless two edits overlapped: an edit carries back the field it read *)
(* but never the status that a freeze has changed since.                   *)
RecordIsLatest ==
  \A r \in Readers :
    /\ reader[r].status = latest[r].status
    /\ r \notin tainted => TextOf(reader[r].secret) = latest[r].text

(* The latest audit events of a user show the grants it has, and the       *)
(* snapshot before a change is what the event before it left, as long as   *)
(* no two changes overlapped and no snapshot, event or request was lost.   *)
TrailIsRight ==
  \A u \in Users \ tainted :
    /\ (\A h \in Requests : ~Changing(h, u)) => trail[u] = grants[u]
    /\ \A h \in Requests : req[h].step = "grant" /\ req[h].target = u =>
         req[h].shown = trail[u] \cap Kin(req[h].grant)

(* A reveal is answered only in a session whose user gave the password at  *)
(* most Window before the check, after the attempt went to the audit log   *)
(* unless that failed; and while the server has a key, whatever it had     *)
(* before, it answers the text given last unless two edits overlapped.     *)
RevealIsSound ==
  [][answers' # answers =>
       /\ answers' <= attempts + faults
       /\ \E h \in Requests :
            LET row == reader[req[h].target] IN
            /\ req[h].step = "decrypt" /\ req'[h] = Idle
            /\ req[h].at <= stepup[req[h].user] + Window
            /\ key # None /\ req[h].target \notin tainted =>
                 row.secret = Encrypt(latest[req[h].target].text)]_vars
=============================================================================
