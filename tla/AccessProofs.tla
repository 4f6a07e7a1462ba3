---------------------------- MODULE AccessProofs ----------------------------
(***************************************************************************)
(* Proofs about Access, for every value of its constants.                  *)
(***************************************************************************)
EXTENDS Access, FiniteSetTheorems, TLAPS

-----------------------------------------------------------------------------
(* The inductive invariant.                                                *)

(* What a request read of its user was granted at some moment since it     *)
(* began, and until it has read the last of it so is what its user has     *)
(* now.  One that began before its user became the administrator may read  *)
(* a branch that stayed assigned; then held has the scope of the           *)
(* administrator.                                                          *)
AuthFits(h) ==
  LET gs == grants[req[h].user] IN
  req[h].step # "idle" =>
    /\ req[h].step \in {"permissions", "scope"} =>
         PermissionsBy(gs) \subseteq req[h].could /\ ScopesBy(gs) \subseteq req[h].held
    /\ req[h].permissions \subseteq req[h].could
    /\ req[h].admin => AllBranches \in req[h].held
    /\ req[h].scope # NoBranch => {AllBranches, req[h].scope} \cap req[h].held # {}
    /\ req[h].step \in {"before", "grant", "after", "event"} => "users:admin" \in req[h].could
    /\ req[h].step = "edit" => "readers:write" \in req[h].could
AuthInv == \A h \in Requests : AuthFits(h)

(* The target is of the right kind; an edit is of a reader in scope, and   *)
(* holds its encrypted field as long as no other edit wrote it.            *)
TargetFits(h) ==
  LET r == req[h].target IN
  /\ req[h].step \in {"before", "grant", "after", "event"} => r \in Users
  /\ req[h].step \in {"edit", "log", "decrypt"} => r \in Readers
  /\ req[h].step = "edit" =>
       /\ InScope(h, r)
       /\ ~req[h].disturbed => req[h].row.secret = reader[r].secret
TargetInv == \A h \in Requests : TargetFits(h)

(* The clock of step-ups runs forward. *)
StepUpFits(h) ==
  LET given == stepup[req[h].user] IN
  /\ req[h].stepup <= given
  /\ req[h].step \in {"log", "decrypt"} => req[h].at <= given + Window
StepUpInv ==
  /\ \A u \in Users : stepup[u] <= now
  /\ \A h \in Requests : StepUpFits(h)

RecordInv ==
  /\ RecordIsLatest
  /\ \A r \in Readers : reader[r].status # "absent" => reader[r].branch \in Branches

(* At most one request at a time changes the grants of a user that is not  *)
(* tainted, and until its event is written they differ from the trail in   *)
(* nothing but what it changes.                                            *)
TrailFits(h) ==
  LET u    == req[h].target
      kin  == Kin(req[h].grant)
  IN  /\ req[h].step = "grant" => trail[u] = grants[u] /\ req[h].shown = trail[u] \cap kin
      /\ req[h].step \in {"after", "event"} => trail[u] \ kin = grants[u] \ kin
      /\ req[h].step = "event" => req[h].shown = grants[u] \cap kin
TrailOf(u) ==
  /\ (\A h \in Requests : ~Changing(h, u)) => trail[u] = grants[u]
  /\ \A h \in Requests : Changing(h, u) => TrailFits(h)
  /\ \A h, k \in Requests : Changing(h, u) /\ Changing(k, u) => h = k
TrailInv == \A u \in Users \ tainted : TrailOf(u)

(* A request that began writes at most one reveal to the audit log and     *)
(* answers at most one; it comes to the answer by the one or by a fault.   *)
Active == {h \in Requests : req[h].step # "idle"}
Decrypting == {h \in Requests : req[h].step = "decrypt"}
CountInv ==
  /\ attempts + Cardinality(Active \ Decrypting) <= begun
  /\ answers + Cardinality(Active) <= begun
  /\ answers + Cardinality(Decrypting) <= attempts + faults

IInv ==
  /\ TypeOK /\ AuthInv /\ TargetInv /\ StepUpInv
  /\ RecordInv /\ TrailInv /\ CountInv

-----------------------------------------------------------------------------
(* What a step does to the requests it is not of.                          *)

Reading == {"permissions", "scope"}
Writing == {"grant", "after", "event"}

LEMMA IdleType ==
  /\ Idle \in Request /\ Idle.step = "idle" /\ Idle.stepup = 0 /\ ~Idle.disturbed
  /\ Idle.permissions = {} /\ ~Idle.admin /\ Idle.scope = NoBranch
<1>1. (CHOOSE u \in Users : TRUE) \in Users /\ (CHOOSE g \in Grants : TRUE) \in Grants
  BY AccessAssumption DEF Grants
<1>2. NoReader \in ReaderRows
  BY DEF NoReader, ReaderRows, Sealed
<1> QED
  BY <1>1, <1>2 DEF Idle, Request, Steps

LEMMA GrantsType ==
  ASSUME NEW gs
  PROVE  /\ PermissionsBy(gs) \in SUBSET Permissions
         /\ ScopesBy(gs) \in SUBSET (Branches \cup {AllBranches})
BY DEF PermissionsBy, Permissions, ScopesBy

(* Requests other than h are as they were. *)
Moves(h) ==
  /\ req' \in [Requests -> Request]
  /\ \A k \in Requests \ {h} : req'[k] = req[k]

LEMMA OwnStep ==
  ASSUME TypeOK, NEW h \in Requests, NEW r \in Request, req' = [req EXCEPT ![h] = r]
  PROVE  Moves(h) /\ req'[h] = r
BY DEF TypeOK, Moves

(* What a request holds on to while another one writes. *)
Keeps(k) ==
  /\ req'[k] \in Request
  /\ req'[k].step = req[k].step /\ req'[k].user = req[k].user /\ req'[k].admin = req[k].admin
  /\ req'[k].permissions = req[k].permissions /\ req'[k].scope = req[k].scope
  /\ req'[k].stepup = req[k].stepup /\ req'[k].at = req[k].at
  /\ req'[k].target = req[k].target /\ req'[k].row = req[k].row
  /\ req'[k].grant = req[k].grant /\ req'[k].shown = req[k].shown
  /\ req[k].held \subseteq req'[k].held /\ req[k].could \subseteq req'[k].could
  /\ req[k].disturbed => req'[k].disturbed

LEMMA MovesKeep ==
  ASSUME TypeOK, NEW h \in Requests, Moves(h)
  PROVE  \A k \in Requests \ {h} : Keeps(k)
BY DEF Moves, Keeps

(* Requests that keep what they hold fit if their tables are unchanged. *)
LEMMA KeptFits ==
  ASSUME NEW k \in Requests, Keeps(k), AuthFits(k), TargetFits(k), StepUpFits(k)
  PROVE  /\ grants' = grants => AuthFits(k)'
         /\ reader' = reader => TargetFits(k)'
         /\ stepup' = stepup => StepUpFits(k)'
<1>1. ASSUME grants' = grants PROVE AuthFits(k)'
  BY <1>1 DEF Keeps, AuthFits
<1>2. ASSUME reader' = reader PROVE TargetFits(k)'
  BY <1>2 DEF Keeps, TargetFits, InScope
<1>3. ASSUME stepup' = stepup PROVE StepUpFits(k)'
  BY <1>3 DEF Keeps, StepUpFits
<1> QED
  BY <1>1, <1>2, <1>3

LEMMA IdleFits ==
  ASSUME TypeOK, TypeOK', NEW h \in Requests, req'[h] = Idle
  PROVE  AuthFits(h)' /\ TargetFits(h)' /\ StepUpFits(h)'
<1>1. stepup'[Idle.user] \in Nat
  BY IdleType, AccessAssumption DEF Request, TypeOK
<1> QED
  BY <1>1, IdleType DEF AuthFits, TargetFits, StepUpFits

LEMMA MovesFit ==
  ASSUME IInv, NEW h \in Requests, Moves(h), UNCHANGED <<now, grants, reader, stepup>>,
         AuthFits(h)', TargetFits(h)', StepUpFits(h)'
  PROVE  AuthInv' /\ TargetInv' /\ StepUpInv'
<1>1. TypeOK
  BY DEF IInv
<1>2. \A k \in Requests \ {h} : Keeps(k)
  BY <1>1, MovesKeep
<1>3. \A k \in Requests : AuthFits(k) /\ TargetFits(k) /\ StepUpFits(k)
  BY DEF IInv, AuthInv, TargetInv, StepUpInv
<1>4. ASSUME NEW k \in Requests \ {h}
      PROVE  AuthFits(k)' /\ TargetFits(k)' /\ StepUpFits(k)'
  BY <1>2, <1>3, KeptFits
<1>5. \A u \in Users : stepup'[u] <= now'
  BY DEF IInv, StepUpInv
<1> QED
  BY <1>4, <1>5 DEF AuthInv, TargetInv, StepUpInv

(* The trail goes on fitting when no request enters, leaves or changes the *)
(* steps between the snapshot and the event.                               *)
SameWriting(k) ==
  \/ req[k].step \notin Writing /\ req'[k].step \notin Writing
  \/ /\ req'[k].step = req[k].step /\ req'[k].target = req[k].target
     /\ req'[k].grant = req[k].grant /\ req'[k].shown = req[k].shown

LEMMA TrailKept ==
  ASSUME TrailInv, UNCHANGED <<trail, grants>>, tainted \subseteq tainted',
         \A k \in Requests : SameWriting(k)
  PROVE  TrailInv'
<1> SUFFICES ASSUME NEW u \in Users, u \notin tainted' PROVE TrailOf(u)'
  BY DEF TrailInv
<1>1. TrailOf(u)
  BY DEF TrailInv
<1>2. \A k \in Requests : Changing(k, u)' <=> Changing(k, u)
  BY DEF Changing, SameWriting, Writing
<1>3. ASSUME NEW k \in Requests, Changing(k, u) PROVE TrailFits(k)'
  <2>1. TrailFits(k) /\ req[k].step \in Writing
    BY <1>1, <1>3 DEF TrailOf, Changing, Writing
  <2>2. /\ req'[k].step = req[k].step /\ req'[k].target = req[k].target
        /\ req'[k].grant = req[k].grant /\ req'[k].shown = req[k].shown
    BY <2>1 DEF SameWriting
  <2> QED
    BY <2>1, <2>2 DEF TrailFits, Kin
<1> QED
  BY <1>1, <1>2, <1>3 DEF TrailOf

LEMMA FiniteCounts ==
  ASSUME TypeOK
  PROVE  /\ IsFiniteSet(Active) /\ IsFiniteSet(Decrypting)
         /\ IsFiniteSet(Active \ Decrypting)
         /\ Cardinality(Active) \in Nat /\ Cardinality(Decrypting) \in Nat
         /\ Cardinality(Active \ Decrypting) \in Nat
         /\ attempts \in Nat /\ answers \in Nat /\ begun \in Nat /\ faults \in Nat
<1>1. IsFiniteSet(Active) /\ IsFiniteSet(Decrypting) /\ IsFiniteSet(Active \ Decrypting)
  BY AccessAssumption, FS_Subset DEF Active, Decrypting
<1> QED
  BY <1>1, FS_CardinalityType, AccessAssumption DEF TypeOK

(* No request begins or comes to the answer. *)
LEMMA CountKept ==
  ASSUME IInv, UNCHANGED <<begun, attempts, answers>>, faults' \in Nat, faults <= faults',
         \A k \in Requests :
           /\ req[k].step = "idle" => req'[k].step = "idle"
           /\ req'[k].step = "decrypt" <=> (req[k].step = "decrypt" /\ req'[k].step # "idle")
  PROVE  CountInv'
<1>1. /\ Active' \subseteq Active /\ Decrypting' \subseteq Decrypting
      /\ Active' \ Decrypting' \subseteq Active \ Decrypting
  BY DEF Active, Decrypting
<1>2. TypeOK
  BY DEF IInv
<1>3. /\ IsFiniteSet(Active) /\ IsFiniteSet(Decrypting)
      /\ IsFiniteSet(Active \ Decrypting)
      /\ Cardinality(Active) \in Nat /\ Cardinality(Decrypting) \in Nat
      /\ Cardinality(Active \ Decrypting) \in Nat
      /\ attempts \in Nat /\ answers \in Nat /\ begun \in Nat /\ faults \in Nat
  BY <1>2, FiniteCounts
<1>4. /\ Cardinality(Active') <= Cardinality(Active) /\ IsFiniteSet(Active')
      /\ Cardinality(Decrypting') <= Cardinality(Decrypting) /\ IsFiniteSet(Decrypting')
      /\ Cardinality(Active' \ Decrypting') <= Cardinality(Active \ Decrypting)
      /\ IsFiniteSet(Active' \ Decrypting')
  BY <1>1, <1>3, FS_Subset
<1>5. /\ Cardinality(Active') \in Nat /\ Cardinality(Decrypting') \in Nat
      /\ Cardinality(Active' \ Decrypting') \in Nat
  BY <1>4, FS_CardinalityType
<1> QED
  BY <1>3, <1>4, <1>5 DEF IInv, CountInv

LEMMA RecordKept ==
  ASSUME RecordInv, UNCHANGED <<reader, latest>>, tainted \subseteq tainted'
  PROVE  RecordInv'
BY DEF RecordInv, RecordIsLatest, TextOf

-----------------------------------------------------------------------------
(* The steps.                                                              *)

LEMMA InitInv == Init => IInv
<1> SUFFICES ASSUME Init PROVE IInv
  OBVIOUS
<1>1. \A h \in Requests : req[h] = Idle
  BY DEF Init
<1>2. TypeOK
  <2>1. NoReader \in ReaderRows
    BY DEF NoReader, ReaderRows, Sealed
  <2> QED
    BY <1>1, <2>1, IdleType, AccessAssumption DEF Init, TypeOK
<1>3. AuthInv /\ TargetInv /\ StepUpInv
  <2>1. \A u \in Users : stepup[u] = 0
    BY DEF Init
  <2>2. \A h \in Requests : req[h].user \in Users
    BY <1>2 DEF TypeOK, Request
  <2> QED
    BY <1>1, <2>1, <2>2, IdleType DEF Init, AuthInv, AuthFits, TargetInv, TargetFits, StepUpInv, StepUpFits
<1>4. RecordInv
  BY AccessAssumption DEF Init, RecordInv, RecordIsLatest, NoReader, TextOf
<1>5. TrailInv
  BY <1>1, IdleType DEF Init, TrailInv, TrailOf, Changing
<1>6. CountInv
  <2>1. Active = {} /\ Decrypting = {} /\ Active \ Decrypting = {}
    BY <1>1, IdleType DEF Active, Decrypting
  <2> QED
    BY <2>1, FS_EmptySet DEF Init, CountInv
<1> QED
  BY <1>2, <1>3, <1>4, <1>5, <1>6 DEF IInv

(* A step that writes no table. *)
LEMMA QuietStep ==
  ASSUME IInv, NEW h \in Requests, NEW r \in Request, req' = [req EXCEPT ![h] = r],
         UNCHANGED <<now, key, grants, stepup, reader, trail, boundVars, historyVars>>,
         req[h].step \notin Writing \cup {"idle", "decrypt"},
         r.step \notin Writing \cup {"decrypt"},
         AuthFits(h)', TargetFits(h)', StepUpFits(h)'
  PROVE  IInv'
<1>1. TypeOK
  BY DEF IInv
<1>2. Moves(h) /\ req'[h] = r
  BY <1>1, OwnStep
<1>3. TypeOK'
  BY <1>1, <1>2 DEF TypeOK, Moves, boundVars, historyVars
<1>4. AuthInv' /\ TargetInv' /\ StepUpInv'
  BY <1>2, MovesFit
<1>5. RecordInv'
  BY RecordKept DEF IInv, historyVars
<1>6. \A k \in Requests : SameWriting(k)
  BY <1>2 DEF Moves, SameWriting
<1>7. TrailInv'
  BY <1>6, TrailKept DEF IInv, historyVars
<1>8. faults \in Nat
  BY <1>1, FiniteCounts
<1>9. CountInv'
  BY <1>2, <1>8, CountKept DEF Moves, boundVars, historyVars
<1> QED
  BY <1>3, <1>4, <1>5, <1>7, <1>9 DEF IInv

LEMMA ReadPermissionsInv ==
  ASSUME IInv, NEW h \in Requests, ReadPermissions(h)
  PROVE  IInv'
<1> DEFINE r == [req[h] EXCEPT !.step = "scope", !.permissions = PermissionsBy(grants[req[h].user])]
<1>1. req[h] \in Request /\ AuthFits(h) /\ TargetFits(h) /\ StepUpFits(h)
  BY DEF IInv, TypeOK, AuthInv, TargetInv, StepUpInv
<1>2. /\ r \in Request /\ r.step = "scope" /\ r.permissions = PermissionsBy(grants[req[h].user])
      /\ r.user = req[h].user /\ r.admin = req[h].admin /\ r.scope = req[h].scope
      /\ r.held = req[h].held /\ r.could = req[h].could /\ r.stepup = req[h].stepup
  BY <1>1, GrantsType DEF Request, Steps
<1>3. req' = [req EXCEPT ![h] = r]
  BY DEF ReadPermissions, IInv, TypeOK
<1> HIDE DEF r
<1>4. req'[h] = r
  BY <1>3 DEF IInv, TypeOK
<1>5. AuthFits(h)' /\ TargetFits(h)' /\ StepUpFits(h)'
  BY <1>1, <1>2, <1>4 DEF ReadPermissions, AuthFits, TargetFits, StepUpFits
<1> QED
  BY <1>2, <1>3, <1>5, QuietStep DEF ReadPermissions, Writing

LEMMA ResolveScopeInv ==
  ASSUME IInv, NEW h \in Requests, ResolveScope(h)
  PROVE  IInv'
<1>1. PICK b \in Scopes(h) \cup (IF req[h].admin THEN {} ELSE {NoBranch}) :
        req' = [req EXCEPT ![h].step = "handler", ![h].scope = b]
  BY DEF ResolveScope
<1> DEFINE r == [req[h] EXCEPT !.step = "handler", !.scope = b]
<1>2. req[h] \in Request /\ AuthFits(h) /\ TargetFits(h) /\ StepUpFits(h)
  BY DEF IInv, TypeOK, AuthInv, TargetInv, StepUpInv
<1>3. /\ b \in Branches \cup {AllBranches, NoBranch}
      /\ b # NoBranch => {AllBranches, b} \cap req[h].held # {}
  BY <1>2 DEF Scopes, ScopesBy, ResolveScope, AuthFits
<1>4. /\ r \in Request /\ r.step = "handler" /\ r.permissions = req[h].permissions
      /\ r.user = req[h].user /\ r.admin = req[h].admin /\ r.scope = b
      /\ r.held = req[h].held /\ r.could = req[h].could /\ r.stepup = req[h].stepup
  BY <1>2, <1>3 DEF Request, Steps
<1>5. req' = [req EXCEPT ![h] = r]
  BY <1>1 DEF IInv, TypeOK
<1> HIDE DEF r
<1>6. req'[h] = r
  BY <1>5 DEF IInv, TypeOK
<1>7. AuthFits(h)' /\ TargetFits(h)' /\ StepUpFits(h)'
  BY <1>2, <1>3, <1>4, <1>6 DEF ResolveScope, AuthFits, TargetFits, StepUpFits
<1> QED
  BY <1>4, <1>5, <1>7, QuietStep DEF ResolveScope, Writing

LEMMA EnforceUserScopeInv ==
  ASSUME IInv, NEW h \in Requests, NEW u \in Users, NEW g \in Grants, EnforceUserScope(h, u, g)
  PROVE  IInv'
<1> DEFINE r == [req[h] EXCEPT !.step = "before", !.target = u, !.grant = g]
<1>1. req[h] \in Request /\ AuthFits(h) /\ TargetFits(h) /\ StepUpFits(h)
  BY DEF IInv, TypeOK, AuthInv, TargetInv, StepUpInv
<1>2. /\ r \in Request /\ r.step = "before" /\ r.permissions = req[h].permissions
      /\ r.user = req[h].user /\ r.admin = req[h].admin /\ r.scope = req[h].scope
      /\ r.held = req[h].held /\ r.could = req[h].could /\ r.stepup = req[h].stepup
      /\ r.target = u
  BY <1>1 DEF Request, Steps
<1>3. req' = [req EXCEPT ![h] = r]
  BY DEF EnforceUserScope, IInv, TypeOK
<1> HIDE DEF r
<1>4. req'[h] = r
  BY <1>3 DEF IInv, TypeOK
<1>5. AuthFits(h)' /\ TargetFits(h)' /\ StepUpFits(h)'
  BY <1>1, <1>2, <1>4 DEF EnforceUserScope, May, AuthFits, TargetFits, StepUpFits
<1> QED
  BY <1>2, <1>3, <1>5, QuietStep DEF EnforceUserScope, May, Writing

LEMMA BeginEditInv ==
  ASSUME IInv, NEW h \in Requests, NEW x \in Readers, BeginEdit(h, x)
  PROVE  IInv'
<1> DEFINE r == [req[h] EXCEPT !.step = "edit", !.target = x, !.row = reader[x]]
<1>1. req[h] \in Request /\ AuthFits(h) /\ TargetFits(h) /\ StepUpFits(h)
  BY DEF IInv, TypeOK, AuthInv, TargetInv, StepUpInv
<1>2. reader[x] \in ReaderRows
  BY DEF IInv, TypeOK
<1>3. /\ r \in Request /\ r.step = "edit" /\ r.permissions = req[h].permissions
      /\ r.user = req[h].user /\ r.admin = req[h].admin /\ r.scope = req[h].scope
      /\ r.held = req[h].held /\ r.could = req[h].could /\ r.stepup = req[h].stepup
      /\ r.target = x /\ r.row = reader[x]
  BY <1>1, <1>2 DEF Request, Steps
<1>4. req' = [req EXCEPT ![h] = r]
  BY DEF BeginEdit, IInv, TypeOK
<1> HIDE DEF r
<1>5. req'[h] = r
  BY <1>4 DEF IInv, TypeOK
<1>6. AuthFits(h)' /\ TargetFits(h)' /\ StepUpFits(h)'
  BY <1>1, <1>3, <1>5 DEF BeginEdit, May, InScope, AuthFits, TargetFits, StepUpFits
<1> QED
  BY <1>3, <1>4, <1>6, QuietStep DEF BeginEdit, May, Writing

LEMMA BeginStepUpInv ==
  ASSUME IInv, NEW h \in Requests, BeginStepUp(h)
  PROVE  IInv'
<1> DEFINE r == [req[h] EXCEPT !.step = "setstepup"]
<1>1. req[h] \in Request /\ AuthFits(h) /\ TargetFits(h) /\ StepUpFits(h)
  BY DEF IInv, TypeOK, AuthInv, TargetInv, StepUpInv
<1>2. /\ r \in Request /\ r.step = "setstepup" /\ r.permissions = req[h].permissions
      /\ r.user = req[h].user /\ r.admin = req[h].admin /\ r.scope = req[h].scope
      /\ r.held = req[h].held /\ r.could = req[h].could /\ r.stepup = req[h].stepup
  BY <1>1 DEF Request, Steps
<1>3. req' = [req EXCEPT ![h] = r]
  BY DEF BeginStepUp, IInv, TypeOK
<1> HIDE DEF r
<1>4. req'[h] = r
  BY <1>3 DEF IInv, TypeOK
<1>5. AuthFits(h)' /\ TargetFits(h)' /\ StepUpFits(h)'
  BY <1>1, <1>2, <1>4 DEF BeginStepUp, AuthFits, TargetFits, StepUpFits
<1> QED
  BY <1>2, <1>3, <1>5, QuietStep DEF BeginStepUp, Writing

LEMMA BeginRevealInv ==
  ASSUME IInv, NEW h \in Requests, NEW x \in Readers, BeginReveal(h, x)
  PROVE  IInv'
<1> DEFINE r == [req[h] EXCEPT !.step = "log", !.target = x, !.at = now]
<1>1. req[h] \in Request /\ AuthFits(h) /\ TargetFits(h) /\ StepUpFits(h)
  BY DEF IInv, TypeOK, AuthInv, TargetInv, StepUpInv
<1>2. now \in Nat /\ stepup[req[h].user] \in Nat /\ req[h].stepup \in Nat /\ Window \in Nat
  BY <1>1, AccessAssumption DEF IInv, TypeOK, Request
<1>3. /\ r \in Request /\ r.step = "log" /\ r.permissions = req[h].permissions
      /\ r.user = req[h].user /\ r.admin = req[h].admin /\ r.scope = req[h].scope
      /\ r.held = req[h].held /\ r.could = req[h].could /\ r.stepup = req[h].stepup
      /\ r.target = x /\ r.at = now
  BY <1>1, <1>2 DEF Request, Steps
<1>4. req' = [req EXCEPT ![h] = r]
  BY DEF BeginReveal, IInv, TypeOK
<1> HIDE DEF r
<1>5. req'[h] = r
  BY <1>4 DEF IInv, TypeOK
<1>6. AuthFits(h)' /\ TargetFits(h)'
  BY <1>1, <1>3, <1>5 DEF BeginReveal, May, AuthFits, TargetFits
<1>7. StepUpFits(h)'
  BY <1>1, <1>2, <1>3, <1>5 DEF BeginReveal, HasRecentStepUp, StepUpFits
<1> QED
  BY <1>3, <1>4, <1>6, <1>7, QuietStep DEF BeginReveal, May, Writing

LEMMA BeginInv ==
  ASSUME IInv, NEW h \in Requests, NEW u \in Users, Begin(h, u)
  PROVE  IInv'
<1> DEFINE r == [Idle EXCEPT !.step = "permissions", !.user = u, !.stepup = stepup[u],
                    !.admin = "administrator" \in grants[u],
                    !.held = ScopesBy(grants[u]), !.could = PermissionsBy(grants[u])]
<1>1. TypeOK
  BY DEF IInv
<1>2. stepup[u] \in Nat
  BY <1>1, AccessAssumption DEF TypeOK
<1>3. /\ r \in Request /\ r.step = "permissions" /\ r.user = u /\ r.stepup = stepup[u]
      /\ r.admin = ("administrator" \in grants[u]) /\ r.permissions = {} /\ r.scope = NoBranch
      /\ r.held = ScopesBy(grants[u]) /\ r.could = PermissionsBy(grants[u])
  <2>1. /\ ScopesBy(grants[u]) \in SUBSET (Branches \cup {AllBranches})
        /\ PermissionsBy(grants[u]) \in SUBSET Permissions
    BY GrantsType
  <2>2. PICK a \in BOOLEAN : a = ("administrator" \in grants[u])
    <3>1. CASE "administrator" \in grants[u]
      <4>1. TRUE = ("administrator" \in grants[u])
        BY <3>1
      <4> QED
        BY <4>1
    <3>2. CASE "administrator" \notin grants[u]
      <4>1. FALSE = ("administrator" \in grants[u])
        BY <3>2
      <4> QED
        BY <4>1
    <3> QED
      BY <3>1, <3>2
  <2>3. r = [Idle EXCEPT !.step = "permissions", !.user = u, !.stepup = stepup[u], !.admin = a,
                         !.held = ScopesBy(grants[u]), !.could = PermissionsBy(grants[u])]
    BY <2>2
  <2> HIDE DEF r
  <2> QED
    BY <1>2, <2>1, <2>2, <2>3, IdleType DEF Request, Steps
<1>4. req' = [req EXCEPT ![h] = r]
  BY DEF Begin
<1> HIDE DEF r
<1>5. Moves(h) /\ req'[h] = r
  BY <1>1, <1>3, <1>4, OwnStep
<1>6. TypeOK'
  BY <1>1, <1>5, AccessAssumption DEF Begin, TypeOK, Moves, historyVars
<1>7. AuthInv' /\ TargetInv' /\ StepUpInv'
  <2>1. r.admin => AllBranches \in r.held
    BY <1>3 DEF ScopesBy
  <2>2. grants' = grants /\ stepup' = stepup
    BY DEF Begin
  <2>3. AuthFits(h)'
    BY <1>3, <1>5, <2>1, <2>2 DEF AuthFits
  <2>4. TargetFits(h)' /\ StepUpFits(h)'
    BY <1>2, <1>3, <1>5, <2>2 DEF TargetFits, StepUpFits
  <2> QED
    BY <1>5, <2>3, <2>4, MovesFit DEF Begin
<1>8. RecordInv'
  BY RecordKept DEF Begin, IInv, historyVars
<1>9. TrailInv'
  <2>1. \A k \in Requests : SameWriting(k)
    BY <1>3, <1>5 DEF Begin, Moves, SameWriting, Writing
  <2> QED
    BY <2>1, TrailKept DEF Begin, IInv, historyVars
<1>10. CountInv'
  <2>1. /\ Active' = Active \cup {h} /\ Decrypting' = Decrypting
        /\ Active' \ Decrypting' = (Active \ Decrypting) \cup {h}
        /\ h \notin Active /\ h \notin Active \ Decrypting
    BY <1>3, <1>5 DEF Begin, Moves, Active, Decrypting
  <2>2. /\ IsFiniteSet(Active) /\ IsFiniteSet(Active \ Decrypting)
        /\ Cardinality(Active) \in Nat /\ Cardinality(Active \ Decrypting) \in Nat
        /\ attempts \in Nat /\ answers \in Nat /\ begun \in Nat /\ faults \in Nat
    BY <1>1, FiniteCounts
  <2>3. /\ Cardinality(Active') = Cardinality(Active) + 1
        /\ Cardinality(Active' \ Decrypting') = Cardinality(Active \ Decrypting) + 1
    BY <2>1, <2>2, FS_AddElement
  <2>4. Cardinality(Decrypting') = Cardinality(Decrypting)
    BY <2>1
  <2> QED
    BY <2>2, <2>3, <2>4 DEF Begin, IInv, CountInv, historyVars
<1> QED
  BY <1>6, <1>7, <1>8, <1>9, <1>10 DEF IInv

(* A request that ends without an answer, and maybe drops an error. *)
LEMMA EndCount ==
  ASSUME IInv, NEW h \in Requests, End(h), req[h].step # "idle",
         UNCHANGED <<begun, attempts, answers>>, faults' \in Nat, faults <= faults'
  PROVE  CountInv'
<1>1. Moves(h) /\ req'[h] = Idle
  BY OwnStep, IdleType DEF End, IInv
<1> QED
  BY <1>1, CountKept, IdleType DEF Moves

LEMMA FaultType ==
  ASSUME TypeOK, Fault \/ UNCHANGED faults
  PROVE  faults' \in 0 .. MaxFaults /\ faults' \in Nat /\ faults <= faults'
BY AccessAssumption DEF TypeOK, Fault

LEMMA EndFit ==
  ASSUME IInv, TypeOK', NEW h \in Requests, End(h), UNCHANGED <<now, grants, reader, stepup>>
  PROVE  AuthInv' /\ TargetInv' /\ StepUpInv'
<1>1. Moves(h) /\ req'[h] = Idle
  BY OwnStep, IdleType DEF End, IInv
<1> QED
  BY <1>1, MovesFit, IdleFits DEF IInv

LEMMA EndSameWriting ==
  ASSUME TypeOK, NEW h \in Requests, End(h), req[h].step \notin Writing
  PROVE  \A k \in Requests : SameWriting(k)
<1>1. Moves(h) /\ req'[h] = Idle
  BY OwnStep, IdleType DEF End
<1> QED
  BY <1>1, IdleType DEF Moves, SameWriting, Writing

LEMMA SetStepUpInv ==
  ASSUME IInv, NEW h \in Requests, SetStepUp(h)
  PROVE  IInv'
<1>1. TypeOK /\ End(h) /\ req[h].step = "setstepup" /\ req[h] \in Request
  BY DEF SetStepUp, IInv, TypeOK
<1>2. Moves(h) /\ req'[h] = Idle
  BY <1>1, OwnStep, IdleType DEF End
<1>3. faults' \in 0 .. MaxFaults /\ faults' \in Nat /\ faults <= faults'
  BY <1>1, FaultType DEF SetStepUp
<1>4. \/ stepup' = [stepup EXCEPT ![req[h].user] = now]
      \/ stepup' = stepup
  BY DEF SetStepUp
<1>5. now \in Nat /\ now \in 0 .. MaxTime /\ \A u \in Users : stepup[u] \in Nat /\ stepup[u] <= now
  BY <1>1, AccessAssumption DEF IInv, TypeOK, StepUpInv
<1>6. /\ stepup' \in [Users -> 0 .. MaxTime]
      /\ \A u \in Users : stepup'[u] \in Nat /\ stepup[u] <= stepup'[u] /\ stepup'[u] <= now
  BY <1>1, <1>4, <1>5 DEF TypeOK
<1>7. TypeOK'
  BY <1>1, <1>2, <1>3, <1>6 DEF SetStepUp, TypeOK, Moves, historyVars
<1>8. AuthInv' /\ TargetInv' /\ StepUpInv'
  <2>1. AuthFits(h)' /\ TargetFits(h)' /\ StepUpFits(h)'
    BY <1>1, <1>2, <1>7, IdleFits
  <2>2. ASSUME NEW k \in Requests \ {h} PROVE AuthFits(k)' /\ TargetFits(k)' /\ StepUpFits(k)'
    <3>1. AuthFits(k) /\ TargetFits(k) /\ StepUpFits(k) /\ req[k] \in Request
      BY <1>1 DEF IInv, AuthInv, TargetInv, StepUpInv, TypeOK
    <3>2. Keeps(k)
      BY <1>1, <1>2, MovesKeep
    <3>3. AuthFits(k)' /\ TargetFits(k)'
      BY <3>1, <3>2, KeptFits DEF SetStepUp
    <3>4. /\ req'[k] = req[k] /\ req[k].user \in Users
          /\ req[k].stepup \in Nat /\ req[k].at \in Nat /\ Window \in Nat
      BY <1>2, <3>1, AccessAssumption DEF Moves, Request
    <3>5. StepUpFits(k)'
      BY <1>5, <1>6, <3>1, <3>4 DEF StepUpFits
    <3> QED
      BY <3>3, <3>5
  <2>3. \A u \in Users : stepup'[u] <= now'
    BY <1>6 DEF SetStepUp
  <2> QED
    BY <2>1, <2>2, <2>3 DEF AuthInv, TargetInv, StepUpInv
<1>9. RecordInv'
  BY RecordKept DEF SetStepUp, IInv, historyVars
<1>10. TrailInv'
  BY <1>1, EndSameWriting, TrailKept DEF SetStepUp, IInv, historyVars, Writing
<1>11. CountInv'
  BY <1>1, <1>3, EndCount DEF SetStepUp, historyVars
<1> QED
  BY <1>7, <1>8, <1>9, <1>10, <1>11 DEF IInv

LEMMA LogRevealInv ==
  ASSUME IInv, NEW h \in Requests, LogReveal(h)
  PROVE  IInv'
<1> DEFINE r == [req[h] EXCEPT !.step = "decrypt"]
<1>1. TypeOK /\ req[h] \in Request /\ AuthFits(h) /\ TargetFits(h) /\ StepUpFits(h)
  BY DEF IInv, TypeOK, AuthInv, TargetInv, StepUpInv
<1>2. /\ r \in Request /\ r.step = "decrypt" /\ r.permissions = req[h].permissions
      /\ r.user = req[h].user /\ r.admin = req[h].admin /\ r.scope = req[h].scope
      /\ r.held = req[h].held /\ r.could = req[h].could /\ r.stepup = req[h].stepup
      /\ r.target = req[h].target /\ r.at = req[h].at
  BY <1>1 DEF Request, Steps
<1>3. req' = [req EXCEPT ![h] = r]
  BY DEF LogReveal, IInv, TypeOK
<1> HIDE DEF r
<1>4. Moves(h) /\ req'[h] = r
  BY <1>1, <1>2, <1>3, OwnStep
<1>5. faults' \in 0 .. MaxFaults /\ faults' \in Nat /\ faults <= faults'
  BY <1>1, FaultType DEF LogReveal
<1>6. CountInv'
  <2>1. /\ Active' = Active /\ Decrypting' = Decrypting \cup {h}
        /\ Active' \ Decrypting' = (Active \ Decrypting) \ {h}
        /\ h \notin Decrypting /\ h \in Active \ Decrypting
    BY <1>2, <1>4 DEF LogReveal, Moves, Active, Decrypting
  <2>2. /\ IsFiniteSet(Active \ Decrypting) /\ IsFiniteSet(Decrypting)
        /\ Cardinality(Decrypting) \in Nat /\ Cardinality(Active \ Decrypting) \in Nat
        /\ attempts \in Nat /\ answers \in Nat /\ begun \in Nat /\ faults \in Nat
    BY <1>1, FiniteCounts
  <2>3. /\ Cardinality(Decrypting') = Cardinality(Decrypting) + 1
        /\ Cardinality(Active' \ Decrypting') = Cardinality(Active \ Decrypting) - 1
    <3>1. Cardinality(Decrypting \cup {h}) = Cardinality(Decrypting) + 1
      BY <2>1, <2>2, FS_AddElement
    <3>2. Cardinality((Active \ Decrypting) \ {h}) = Cardinality(Active \ Decrypting) - 1
      BY <2>1, <2>2, FS_RemoveElement
    <3> QED
      BY <2>1, <3>1, <3>2
  <2>4. Cardinality(Active') = Cardinality(Active)
    BY <2>1
  <2>5. \/ attempts' = attempts + 1 /\ faults' = faults
        \/ attempts' = attempts /\ faults' = faults + 1
    BY DEF LogReveal, Fault
  <2> QED
    BY <2>2, <2>3, <2>4, <2>5 DEF LogReveal, IInv, CountInv
<1>7. TypeOK'
  <2>1. attempts' \in 0 .. MaxBegun
    <3>1. attempts' \in Nat
      BY <1>1, FiniteCounts DEF LogReveal
    <3>2. Cardinality(Active' \ Decrypting') \in Nat
      <4>1. IsFiniteSet(Active' \ Decrypting')
        BY <1>1, <1>4, AccessAssumption, FS_Subset DEF Active, Decrypting
      <4> QED
        BY <4>1, FS_CardinalityType
    <3>3. begun' = begun /\ begun \in 0 .. MaxBegun /\ MaxBegun \in Nat
      BY <1>1, AccessAssumption DEF LogReveal, TypeOK
    <3> QED
      BY <1>6, <3>1, <3>2, <3>3 DEF CountInv
  <2> QED
    BY <1>1, <1>4, <1>5, <2>1 DEF LogReveal, TypeOK, Moves
<1>8. AuthInv' /\ TargetInv' /\ StepUpInv'
  <2>1. AuthFits(h)' /\ TargetFits(h)' /\ StepUpFits(h)'
    BY <1>1, <1>2, <1>4 DEF LogReveal, AuthFits, TargetFits, StepUpFits
  <2> QED
    BY <1>4, <2>1, MovesFit DEF LogReveal
<1>9. RecordInv'
  BY RecordKept DEF LogReveal, IInv
<1>10. TrailInv'
  <2>1. \A k \in Requests : SameWriting(k)
    BY <1>2, <1>4 DEF LogReveal, Moves, SameWriting, Writing
  <2> QED
    BY <2>1, TrailKept DEF LogReveal, IInv
<1> QED
  BY <1>6, <1>7, <1>8, <1>9, <1>10 DEF IInv

-----------------------------------------------------------------------------
(* Grants and their trail.                                                 *)

SameFor(k, u) ==
  /\ Changing(k, u)' <=> Changing(k, u)
  /\ Changing(k, u) => /\ req'[k].step = req[k].step /\ req'[k].target = req[k].target
                       /\ req'[k].grant = req[k].grant /\ req'[k].shown = req[k].shown

LEMMA TrailOfKept ==
  ASSUME NEW u \in Users, TrailOf(u), trail'[u] = trail[u], grants'[u] = grants[u],
         \A k \in Requests : SameFor(k, u)
  PROVE  TrailOf(u)'
<1>1. \A k \in Requests : Changing(k, u)' <=> Changing(k, u)
  BY DEF SameFor
<1>2. ASSUME NEW k \in Requests, Changing(k, u) PROVE TrailFits(k)'
  <2>1. /\ req'[k].step = req[k].step /\ req'[k].target = req[k].target
        /\ req'[k].grant = req[k].grant /\ req'[k].shown = req[k].shown
        /\ req[k].target = u /\ TrailFits(k)
    BY <1>2 DEF SameFor, TrailOf, Changing
  <2> QED
    BY <2>1 DEF TrailFits, Kin
<1> QED
  BY <1>1, <1>2 DEF TrailOf

(* Requests other than h keep what they hold, h is about another user. *)
LEMMA OthersSameFor ==
  ASSUME NEW h \in Requests, NEW u, req[h].target # u,
         req'[h].target # u \/ req'[h].step \notin Writing,
         \A k \in Requests \ {h} : Keeps(k)
  PROVE  \A k \in Requests : SameFor(k, u)
<1>1. SameFor(h, u)
  BY DEF SameFor, Changing, Writing
<1>2. ASSUME NEW k \in Requests \ {h} PROVE SameFor(k, u)
  BY DEF Keeps, SameFor, Changing
<1> QED
  BY <1>1, <1>2

(* A snapshot: h goes on to step next, with what the audit event will show.*)
Snapped(h, next, shown) ==
  /\ Moves(h)
  /\ req'[h].step = next /\ req'[h].target = req[h].target
  /\ req'[h].grant = req[h].grant /\ req'[h].shown = shown

LEMMA SnapEffect ==
  ASSUME IInv, NEW h \in Requests, NEW next \in {"grant", "event"}, NEW shown \in SUBSET Grants,
         req[h].step \in {"before", "after"},
         req' = [req EXCEPT ![h].step = next, ![h].shown = shown],
         UNCHANGED <<now, key, grants, stepup, reader, trail, begun, restarts, attempts, answers, latest>>,
         Fault \/ UNCHANGED faults,
         tainted' \in {tainted, tainted \cup {req[h].target}}
  PROVE  /\ Snapped(h, next, shown)
         /\ TypeOK' /\ AuthInv' /\ TargetInv' /\ StepUpInv' /\ RecordInv' /\ CountInv'
<1> DEFINE r == [req[h] EXCEPT !.step = next, !.shown = shown]
<1>1. TypeOK /\ req[h] \in Request /\ AuthFits(h) /\ TargetFits(h) /\ StepUpFits(h)
  BY DEF IInv, TypeOK, AuthInv, TargetInv, StepUpInv
<1>2. /\ r \in Request /\ r.step = next /\ r.permissions = req[h].permissions
      /\ r.user = req[h].user /\ r.admin = req[h].admin /\ r.scope = req[h].scope
      /\ r.held = req[h].held /\ r.could = req[h].could /\ r.stepup = req[h].stepup
      /\ r.target = req[h].target /\ r.grant = req[h].grant /\ r.shown = shown
  BY <1>1 DEF Request, Steps
<1>3. req' = [req EXCEPT ![h] = r]
  BY DEF IInv, TypeOK
<1> HIDE DEF r
<1>4. Moves(h) /\ req'[h] = r
  BY <1>1, <1>2, <1>3, OwnStep
<1>5. Snapped(h, next, shown)
  BY <1>2, <1>4 DEF Snapped
<1>6. faults' \in 0 .. MaxFaults /\ faults' \in Nat /\ faults <= faults'
  BY <1>1, FaultType
<1>7. TypeOK'
  <2>1. tainted' \subseteq Users \cup Readers
    BY <1>1 DEF TypeOK, Request
  <2> QED
    BY <1>1, <1>4, <1>6, <2>1 DEF TypeOK, Moves
<1>8. AuthInv' /\ TargetInv' /\ StepUpInv'
  <2>1. AuthFits(h)' /\ TargetFits(h)' /\ StepUpFits(h)'
    BY <1>1, <1>2, <1>4 DEF AuthFits, TargetFits, StepUpFits
  <2> QED
    BY <1>4, <2>1, MovesFit
<1>9. RecordInv'
  BY RecordKept DEF IInv
<1>10. CountInv'
  BY <1>2, <1>4, <1>6, CountKept DEF Moves
<1> QED
  BY <1>5, <1>7, <1>8, <1>9, <1>10

(* The trail of the users the snapshot is not about. *)
LEMMA SnapTrailOfOthers ==
  ASSUME IInv, NEW h \in Requests, NEW next, NEW shown, Snapped(h, next, shown),
         UNCHANGED <<trail, grants>>, tainted \subseteq tainted',
         NEW u \in Users \ tainted', u # req[h].target
  PROVE  TrailOf(u)'
<1>1. TypeOK /\ TrailOf(u)
  BY DEF IInv, TrailInv
<1>2. \A k \in Requests \ {h} : Keeps(k)
  BY <1>1, MovesKeep DEF Snapped
<1>3. \A k \in Requests : SameFor(k, u)
  BY <1>2, OthersSameFor DEF Snapped
<1> QED
  BY <1>1, <1>3, TrailOfKept

LEMMA SnapshotBeforeInv ==
  ASSUME IInv, NEW h \in Requests, SnapshotBefore(h)
  PROVE  IInv'
<1>1. PICK u \in Users : u = req[h].target
  BY DEF SnapshotBefore, IInv, TargetInv, TargetFits
<1>2. PICK shown \in SUBSET Grants :
        /\ req' = [req EXCEPT ![h].step = "grant", ![h].shown = shown]
        /\ \/ /\ shown = Snapshot(h)
              /\ tainted' = IF \E k \in Requests : Changing(k, u) THEN tainted \cup {u} ELSE tainted
              /\ UNCHANGED faults
           \/ Fault /\ tainted' = tainted \cup {u}
  <2>1. Snapshot(h) \in SUBSET Grants
    BY <1>1 DEF Snapshot, IInv, TypeOK
  <2> QED
    BY <1>1, <2>1 DEF SnapshotBefore, Snap
<1>3. /\ Snapped(h, "grant", shown)
      /\ TypeOK' /\ AuthInv' /\ TargetInv' /\ StepUpInv' /\ RecordInv' /\ CountInv'
  BY <1>1, <1>2, SnapEffect DEF SnapshotBefore
<1>4. ASSUME NEW v \in Users \ tainted' PROVE TrailOf(v)'
  <2>1. UNCHANGED <<trail, grants>> /\ tainted \subseteq tainted'
    BY <1>2 DEF SnapshotBefore
  <2>2. CASE v # u
    BY <1>1, <1>3, <2>1, <2>2, SnapTrailOfOthers
  <2>3. CASE v = u
    <3>1. shown = Snapshot(h) /\ \A k \in Requests : ~Changing(k, u)
      BY <1>2, <2>3
    <3>2. TrailOf(u)
      BY <1>4, <2>1, <2>3 DEF IInv, TrailInv
    <3>3. trail[u] = grants[u]
      BY <3>1, <3>2 DEF TrailOf
    <3>4. \A k \in Requests : Changing(k, u)' => k = h
      BY <1>3, <3>1 DEF Snapped, Moves, Changing
    <3>5. Changing(h, u)' /\ TrailFits(h)'
      BY <1>1, <1>3, <2>1, <3>1, <3>3 DEF Snapped, Changing, TrailFits, Snapshot, Kin
    <3> QED
      BY <2>3, <3>4, <3>5 DEF TrailOf
  <2> QED
    BY <2>2, <2>3
<1> QED
  BY <1>3, <1>4 DEF IInv, TrailInv

LEMMA SnapshotAfterInv ==
  ASSUME IInv, NEW h \in Requests, SnapshotAfter(h)
  PROVE  IInv'
<1>1. PICK u \in Users : u = req[h].target
  BY DEF SnapshotAfter, IInv, TargetInv, TargetFits
<1>2. PICK shown \in SUBSET Grants :
        /\ req' = [req EXCEPT ![h].step = "event", ![h].shown = shown]
        /\ \/ shown = Snapshot(h) /\ tainted' = tainted /\ UNCHANGED faults
           \/ Fault /\ tainted' = tainted \cup {u}
  <2>1. Snapshot(h) \in SUBSET Grants
    BY <1>1 DEF Snapshot, IInv, TypeOK
  <2> QED
    BY <1>1, <2>1 DEF SnapshotAfter, Snap
<1>3. /\ Snapped(h, "event", shown)
      /\ TypeOK' /\ AuthInv' /\ TargetInv' /\ StepUpInv' /\ RecordInv' /\ CountInv'
  BY <1>1, <1>2, SnapEffect DEF SnapshotAfter
<1>4. ASSUME NEW v \in Users \ tainted' PROVE TrailOf(v)'
  <2>1. UNCHANGED <<trail, grants>> /\ tainted \subseteq tainted'
    BY <1>2 DEF SnapshotAfter
  <2>2. CASE v # u
    BY <1>1, <1>3, <2>1, <2>2, SnapTrailOfOthers
  <2>3. CASE v = u
    <3>1. shown = Snapshot(h)
      BY <1>2, <2>3
    <3>2. TrailOf(u) /\ Changing(h, u)
      BY <1>1, <1>4, <2>1, <2>3 DEF IInv, TrailInv, SnapshotAfter, Changing
    <3>3. trail[u] \ Kin(req[h].grant) = grants[u] \ Kin(req[h].grant)
      BY <1>1, <3>2 DEF SnapshotAfter, TrailOf, TrailFits
    <3>4. \A k \in Requests : Changing(k, u)' => k = h
      BY <1>3, <3>2 DEF Snapped, Moves, Changing, TrailOf
    <3>5. Changing(h, u)' /\ TrailFits(h)'
      BY <1>1, <1>3, <2>1, <3>1, <3>3 DEF Snapped, Changing, TrailFits, Snapshot, Kin
    <3> QED
      BY <2>3, <3>4, <3>5 DEF TrailOf
  <2> QED
    BY <2>2, <2>3
<1> QED
  BY <1>3, <1>4 DEF IInv, TrailInv

(* A change of grants: gs are those of u, and each request of u may act by *)
(* them.                                                                   *)
Changes(h, u, gs) ==
  /\ grants' = [grants EXCEPT ![u] = gs]
  /\ req' = [k \in Requests |->
       IF k = h THEN [req[h] EXCEPT !.step = "after"]
       ELSE IF req[k].user = u /\ req[k].step # "idle"
            THEN [req[k] EXCEPT !.held = @ \cup ScopesBy(gs), !.could = @ \cup PermissionsBy(gs)]
       ELSE req[k]]

LEMMA ChangeEffect ==
  ASSUME TypeOK, NEW h \in Requests, NEW u \in Users, NEW gs \in SUBSET Grants,
         Changes(h, u, gs)
  PROVE  /\ req' \in [Requests -> Request]
         /\ req'[h] = [req[h] EXCEPT !.step = "after"]
         /\ \A k \in Requests \ {h} :
              /\ Keeps(k)
              /\ req[k].user = u /\ req[k].step # "idle" =>
                   ScopesBy(gs) \subseteq req'[k].held /\ PermissionsBy(gs) \subseteq req'[k].could
<1>1. \A k \in Requests : req[k] \in Request
  BY DEF TypeOK
<1>2. [req[h] EXCEPT !.step = "after"] \in Request
  BY <1>1 DEF Request, Steps
<1>3. req'[h] = [req[h] EXCEPT !.step = "after"]
  BY DEF Changes
<1>4. ASSUME NEW k \in Requests \ {h}
      PROVE  /\ Keeps(k)
             /\ req[k].user = u /\ req[k].step # "idle" =>
                  ScopesBy(gs) \subseteq req'[k].held /\ PermissionsBy(gs) \subseteq req'[k].could
  <2> DEFINE r == [req[k] EXCEPT !.held = @ \cup ScopesBy(gs), !.could = @ \cup PermissionsBy(gs)]
  <2>1. /\ ScopesBy(gs) \in SUBSET (Branches \cup {AllBranches})
        /\ PermissionsBy(gs) \in SUBSET Permissions
    BY GrantsType
  <2>2. CASE req[k].user = u /\ req[k].step # "idle"
    <3>1. req'[k] = r
      BY <2>2 DEF Changes
    <3>2. /\ r \in Request
          /\ r.held = req[k].held \cup ScopesBy(gs) /\ r.could = req[k].could \cup PermissionsBy(gs)
          /\ r.step = req[k].step /\ r.user = req[k].user /\ r.admin = req[k].admin
          /\ r.permissions = req[k].permissions /\ r.scope = req[k].scope
          /\ r.stepup = req[k].stepup /\ r.at = req[k].at
          /\ r.target = req[k].target /\ r.row = req[k].row
          /\ r.grant = req[k].grant /\ r.shown = req[k].shown /\ r.disturbed = req[k].disturbed
      BY <1>1, <2>1 DEF Request
    <3> HIDE DEF r
    <3> QED
      BY <3>1, <3>2 DEF Keeps
  <2>3. CASE ~(req[k].user = u /\ req[k].step # "idle")
    BY <1>1, <2>3 DEF Changes, Keeps
  <2> QED
    BY <2>2, <2>3
<1>5. req' \in [Requests -> Request]
  <2>1. req' = [k \in Requests |-> req'[k]]
    BY DEF Changes
  <2>2. \A k \in Requests : req'[k] \in Request
    BY <1>2, <1>3, <1>4 DEF Keeps
  <2> QED
    BY <2>1, <2>2
<1> QED
  BY <1>3, <1>4, <1>5

LEMMA ChangeGrantsInv ==
  ASSUME IInv, NEW h \in Requests, ChangeGrants(h)
  PROVE  IInv'
<1>1. TypeOK /\ req[h] \in Request /\ AuthFits(h) /\ TargetFits(h) /\ StepUpFits(h)
  BY DEF IInv, TypeOK, AuthInv, TargetInv, StepUpInv
<1>2. PICK u \in Users : u = req[h].target
  BY <1>1 DEF ChangeGrants, TargetFits
<1>3. PICK gs \in {Granted(h), Revoked(h)} : Changes(h, u, gs)
  BY <1>2 DEF ChangeGrants, Changes
<1>4. /\ gs \in SUBSET Grants /\ req[h].grant \in Kin(req[h].grant)
      /\ gs \ Kin(req[h].grant) = grants[u] \ Kin(req[h].grant)
  <2>1. req[h].grant \in Kin(req[h].grant) /\ req[h].grant \in Grants
    BY <1>1 DEF Request, Kin, Grants
  <2>2. grants[u] \in SUBSET Grants
    BY <1>1 DEF TypeOK
  <2>3. gs \in {grants[u] \cup {req[h].grant}, grants[u] \ {req[h].grant}}
    BY <1>2 DEF Granted, Revoked
  <2> QED
    BY <2>1, <2>2, <2>3
<1>5. /\ req' \in [Requests -> Request]
      /\ req'[h] = [req[h] EXCEPT !.step = "after"]
      /\ \A k \in Requests \ {h} :
           /\ Keeps(k)
           /\ req[k].user = u /\ req[k].step # "idle" =>
                ScopesBy(gs) \subseteq req'[k].held /\ PermissionsBy(gs) \subseteq req'[k].could
  BY <1>1, <1>3, <1>4, ChangeEffect
<1>6. grants' \in [Users -> SUBSET Grants] /\ grants'[u] = gs
      /\ \A v \in Users \ {u} : grants'[v] = grants[v]
  BY <1>1, <1>3, <1>4 DEF Changes, TypeOK
<1>7. TypeOK'
  BY <1>1, <1>5, <1>6 DEF ChangeGrants, TypeOK, boundVars, historyVars
<1>8. /\ req'[h].step = "after" /\ req'[h].user = req[h].user /\ req'[h].target = u
      /\ req'[h].grant = req[h].grant /\ req'[h].scope = req[h].scope
      /\ req'[h].held = req[h].held /\ req'[h].could = req[h].could
      /\ req'[h].permissions = req[h].permissions /\ req'[h].admin = req[h].admin
      /\ req'[h].stepup = req[h].stepup
  BY <1>1, <1>2, <1>5 DEF Request
<1>9. AuthInv' /\ TargetInv' /\ StepUpInv'
  <2>1. AuthFits(h)' /\ TargetFits(h)' /\ StepUpFits(h)'
    BY <1>1, <1>2, <1>8 DEF ChangeGrants, AuthFits, TargetFits, StepUpFits
  <2>2. ASSUME NEW k \in Requests \ {h} PROVE AuthFits(k)' /\ TargetFits(k)' /\ StepUpFits(k)'
    <3>1. AuthFits(k) /\ TargetFits(k) /\ StepUpFits(k) /\ req[k] \in Request /\ Keeps(k)
      BY <1>1, <1>5 DEF IInv, AuthInv, TargetInv, StepUpInv, TypeOK
    <3>2. TargetFits(k)' /\ StepUpFits(k)'
      BY <3>1, KeptFits DEF ChangeGrants
    <3>3. req[k].user \in Users
      BY <3>1 DEF Request
    <3>4. AuthFits(k)'
      <4>1. CASE req[k].user = u /\ req[k].step # "idle"
        BY <1>5, <1>6, <3>1, <4>1 DEF Keeps, AuthFits
      <4>2. CASE req[k].user # u \/ req[k].step = "idle"
        BY <1>6, <3>1, <3>3, <4>2 DEF Keeps, AuthFits
      <4> QED
        BY <4>1, <4>2
    <3> QED
      BY <3>2, <3>4
  <2>3. \A v \in Users : stepup'[v] <= now'
    BY DEF ChangeGrants, IInv, StepUpInv
  <2> QED
    BY <2>1, <2>2, <2>3 DEF AuthInv, TargetInv, StepUpInv
<1>10. RecordInv'
  BY RecordKept DEF ChangeGrants, IInv, historyVars
<1>11. ASSUME NEW v \in Users \ tainted' PROVE TrailOf(v)'
  <2>1. trail' = trail /\ tainted' = tainted /\ TrailOf(v)
    BY DEF ChangeGrants, historyVars, IInv, TrailInv
  <2>2. CASE v # u
    <3>1. \A k \in Requests : SameFor(k, v)
      BY <1>2, <1>5, <1>8, <2>2, OthersSameFor
    <3> QED
      BY <1>6, <2>1, <2>2, <3>1, TrailOfKept
  <2>3. CASE v = u
    <3>1. Changing(h, u) /\ trail[u] = grants[u]
      BY <1>2, <2>1, <2>3 DEF ChangeGrants, Changing, TrailOf, TrailFits
    <3>2. \A k \in Requests : Changing(k, u)' => k = h
      BY <1>5, <2>1, <2>3, <3>1 DEF Keeps, Changing, TrailOf
    <3>3. Changing(h, u)' /\ TrailFits(h)'
      BY <1>4, <1>6, <1>8, <2>1, <3>1 DEF Changing, TrailFits, Kin
    <3> QED
      BY <2>3, <3>2, <3>3 DEF TrailOf
  <2> QED
    BY <2>2, <2>3
<1>12. CountInv'
  <2>1. faults \in Nat
    BY <1>1, FiniteCounts
  <2>2. req[h].step = "grant" /\ UNCHANGED <<begun, attempts, answers, faults>>
    BY DEF ChangeGrants, boundVars, historyVars
  <2>3. ASSUME NEW k \in Requests
        PROVE  /\ req[k].step = "idle" => req'[k].step = "idle"
               /\ req'[k].step = "decrypt" <=> (req[k].step = "decrypt" /\ req'[k].step # "idle")
    <3>1. CASE k = h
      BY <1>8, <2>2, <3>1
    <3>2. CASE k # h
      BY <1>5, <3>2 DEF Keeps
    <3> QED
      BY <3>1, <3>2
  <2> QED
    BY <2>1, <2>2, <2>3, CountKept
<1> QED
  BY <1>7, <1>9, <1>10, <1>11, <1>12 DEF IInv, TrailInv

LEMMA LogGrantInv ==
  ASSUME IInv, NEW h \in Requests, LogGrant(h)
  PROVE  IInv'
<1>1. TypeOK /\ req[h] \in Request /\ TargetFits(h) /\ End(h) /\ req[h].step = "event"
  BY DEF LogGrant, IInv, TypeOK, TargetInv
<1>2. PICK u \in Users : u = req[h].target
  BY <1>1 DEF TargetFits
<1>3. Moves(h) /\ req'[h] = Idle
  BY <1>1, OwnStep, IdleType DEF End
<1>4. \/ /\ trail' = [trail EXCEPT ![u] = (@ \ Kin(req[h].grant)) \cup req[h].shown]
         /\ UNCHANGED <<faults, tainted>>
      \/ Fault /\ tainted' = tainted \cup {u} /\ UNCHANGED trail
  BY <1>2 DEF LogGrant
<1>5. faults' \in 0 .. MaxFaults /\ faults' \in Nat /\ faults <= faults'
  BY <1>1, <1>4, FaultType
<1>6. TypeOK'
  <2>1. trail' \in [Users -> SUBSET Grants] /\ tainted' \subseteq Users \cup Readers
    <3>1. CASE trail' = [trail EXCEPT ![u] = (@ \ Kin(req[h].grant)) \cup req[h].shown] /\ UNCHANGED tainted
      <4>1. (trail[u] \ Kin(req[h].grant)) \cup req[h].shown \in SUBSET Grants
        BY <1>1 DEF TypeOK, Request
      <4> QED
        BY <1>1, <3>1, <4>1 DEF TypeOK
    <3>2. CASE tainted' = tainted \cup {u} /\ UNCHANGED trail
      BY <1>1, <3>2 DEF TypeOK
    <3> QED
      BY <1>4, <3>1, <3>2
  <2> QED
    BY <1>1, <1>3, <1>5, <2>1 DEF LogGrant, TypeOK, Moves
<1>7. AuthInv' /\ TargetInv' /\ StepUpInv'
  BY <1>1, <1>6, EndFit DEF LogGrant
<1>8. RecordInv'
  BY <1>4, RecordKept DEF LogGrant, IInv
<1>9. ASSUME NEW v \in Users \ tainted' PROVE TrailOf(v)'
  <2>1. grants' = grants /\ TrailOf(v)
    BY <1>4 DEF LogGrant, IInv, TrailInv
  <2>2. CASE v # u
    <3>1. \A k \in Requests : SameFor(k, v)
      BY <1>1, <1>2, <1>3, <2>2, IdleType, MovesKeep, OthersSameFor DEF Writing
    <3>2. trail'[v] = trail[v]
      BY <1>1, <1>4, <2>2 DEF TypeOK
    <3> QED
      BY <2>1, <3>1, <3>2, TrailOfKept
  <2>3. CASE v = u
    <3>1. Changing(h, u) /\ TrailFits(h)
      BY <1>1, <1>2, <2>1, <2>3 DEF Changing, TrailOf
    <3>2. \A k \in Requests : ~Changing(k, u)'
      BY <1>3, <2>1, <2>3, <3>1, IdleType DEF Moves, Changing, TrailOf
    <3>3. trail'[u] = (trail[u] \ Kin(req[h].grant)) \cup req[h].shown
      BY <1>1, <1>4, <2>3 DEF TypeOK
    <3>4. /\ trail[u] \ Kin(req[h].grant) = grants[u] \ Kin(req[h].grant)
          /\ req[h].shown = grants[u] \cap Kin(req[h].grant)
      BY <1>1, <1>2, <3>1 DEF TrailFits
    <3>5. trail'[u] = grants'[u]
      BY <2>1, <3>3, <3>4
    <3> QED
      BY <2>3, <3>2, <3>5 DEF TrailOf
  <2> QED
    BY <2>2, <2>3
<1>10. CountInv'
  BY <1>1, <1>5, EndCount DEF LogGrant
<1> QED
  BY <1>6, <1>7, <1>8, <1>9, <1>10 DEF IInv, TrailInv

(* A user without a lost event has the grants its trail shows once no      *)
(* request changes them.                                                   *)
LEMMA NotLost ==
  ASSUME IInv, NEW hs \in SUBSET Requests, NEW u \in Users \ (tainted \cup Lost(hs)),
         NEW h \in hs, Changing(h, u)
  PROVE  trail[u] = grants[u]
<1>1. TrailOf(u)
  BY DEF IInv, TrailInv
<1>2. req[h].step = "grant"
  BY DEF Changing, Lost
<1> QED
  BY <1>1, <1>2 DEF TrailOf, TrailFits, Changing

LEMMA LostType ==
  ASSUME TypeOK, NEW hs \in SUBSET Requests
  PROVE  Lost(hs) \subseteq Users \cup Readers
BY DEF TypeOK, Lost, Request

LEMMA FailInv ==
  ASSUME IInv, NEW h \in Requests, Fail(h)
  PROVE  IInv'
<1>1. TypeOK /\ End(h) /\ req[h].step # "idle" /\ tainted' = tainted \cup Lost({h})
  BY DEF Fail, IInv
<1>2. Moves(h) /\ req'[h] = Idle
  BY <1>1, OwnStep, IdleType DEF End
<1>3. TypeOK'
  BY <1>1, <1>2, LostType DEF Fail, TypeOK, Moves, boundVars
<1>4. AuthInv' /\ TargetInv' /\ StepUpInv'
  BY <1>1, <1>3, EndFit DEF Fail
<1>5. RecordInv'
  BY <1>1, RecordKept DEF Fail, IInv
<1>6. ASSUME NEW u \in Users \ tainted' PROVE TrailOf(u)'
  <2>1. trail' = trail /\ grants' = grants /\ TrailOf(u)
    BY <1>1 DEF Fail, IInv, TrailInv
  <2>2. CASE Changing(h, u)
    <3>1. trail[u] = grants[u]
      BY <1>1, <2>2, NotLost
    <3>2. \A k \in Requests : ~Changing(k, u)'
      BY <1>2, <2>1, <2>2, IdleType DEF Moves, Changing, TrailOf
    <3> QED
      BY <2>1, <3>1, <3>2 DEF TrailOf
  <2>3. CASE ~Changing(h, u)
    <3>1. \A k \in Requests : SameFor(k, u)
      BY <1>2, <2>3, IdleType DEF Moves, SameFor, Changing
    <3> QED
      BY <2>1, <3>1, TrailOfKept
  <2> QED
    BY <2>2, <2>3
<1>7. CountInv'
  <2>1. faults \in Nat
    BY <1>1, FiniteCounts
  <2> QED
    BY <1>1, <2>1, EndCount DEF Fail, boundVars
<1> QED
  BY <1>3, <1>4, <1>5, <1>6, <1>7 DEF IInv, TrailInv

LEMMA RestartInv ==
  ASSUME IInv, NEW k \in Keys \cup {None}, Restart(k)
  PROVE  IInv'
<1>1. TypeOK /\ restarts' = restarts + 1 /\ tainted' = tainted \cup Lost(Requests)
  BY DEF Restart, IInv
<1>2. \A h \in Requests : req'[h] = Idle
  BY DEF Restart
<1>3. TypeOK'
  <2>1. req' \in [Requests -> Request]
    BY IdleType DEF Restart
  <2>2. restarts' \in 0 .. MaxRestarts
    BY <1>1, AccessAssumption DEF Restart, TypeOK
  <2> QED
    BY <1>1, <2>1, <2>2, LostType DEF Restart, TypeOK
<1>4. AuthInv' /\ TargetInv' /\ StepUpInv'
  <2>1. \A h \in Requests : AuthFits(h)' /\ TargetFits(h)' /\ StepUpFits(h)'
    BY <1>1, <1>2, <1>3, IdleFits
  <2>2. \A u \in Users : stepup'[u] <= now'
    BY DEF Restart, IInv, StepUpInv
  <2> QED
    BY <2>1, <2>2 DEF AuthInv, TargetInv, StepUpInv
<1>5. RecordInv'
  BY <1>1, RecordKept DEF Restart, IInv
<1>6. ASSUME NEW u \in Users \ tainted' PROVE TrailOf(u)'
  <2>1. trail' = trail /\ grants' = grants /\ TrailOf(u)
    BY <1>1 DEF Restart, IInv, TrailInv
  <2>2. trail[u] = grants[u]
    BY <1>1, <2>1, NotLost DEF TrailOf
  <2>3. \A h \in Requests : ~Changing(h, u)'
    BY <1>2, IdleType DEF Changing
  <2> QED
    BY <2>1, <2>2, <2>3 DEF TrailOf
<1>7. CountInv'
  <2>1. faults \in Nat
    BY <1>1, FiniteCounts
  <2> QED
    BY <1>2, <2>1, CountKept, IdleType DEF Restart
<1> QED
  BY <1>3, <1>4, <1>5, <1>6, <1>7 DEF IInv, TrailInv

LEMMA TickInv ==
  ASSUME IInv, Tick
  PROVE  IInv'
<1>1. TypeOK /\ now \in Nat /\ now' = now + 1 /\ now < MaxTime
  BY DEF Tick, IInv, TypeOK
<1>2. TypeOK'
  BY <1>1, AccessAssumption DEF Tick, TypeOK, boundVars, historyVars
<1>3. AuthInv' /\ TargetInv'
  BY DEF Tick, IInv, AuthInv, AuthFits, TargetInv, TargetFits, InScope
<1>4. StepUpInv'
  <2>1. \A u \in Users : stepup[u] \in Nat /\ stepup[u] <= now
    BY <1>1, AccessAssumption DEF IInv, StepUpInv, TypeOK
  <2>2. \A u \in Users : stepup'[u] <= now'
    BY <1>1, <2>1 DEF Tick
  <2>3. \A h \in Requests : StepUpFits(h)'
    BY DEF Tick, IInv, StepUpInv, StepUpFits
  <2> QED
    BY <2>2, <2>3 DEF StepUpInv
<1>5. RecordInv'
  BY RecordKept DEF Tick, IInv, historyVars
<1>6. TrailInv'
  BY TrailKept DEF Tick, IInv, historyVars, SameWriting
<1>7. CountInv'
  BY DEF Tick, IInv, CountInv, Active, Decrypting, boundVars, historyVars
<1> QED
  BY <1>2, <1>3, <1>4, <1>5, <1>6, <1>7 DEF IInv

-----------------------------------------------------------------------------
(* Readers and reveals.                                                    *)

LEMMA EncryptType ==
  ASSUME TypeOK, NEW text \in Values \cup {None}
  PROVE  Encrypt(text) \in Sealed /\ TextOf(Encrypt(text)) = text
<1>1. CASE text = None
  BY <1>1 DEF Encrypt, TextOf, Sealed
<1>2. CASE text # None
  <2>1. /\ Encrypt(text) = [key |-> key, text |-> text]
        /\ Encrypt(text) \in [key : Keys \cup {None}, text : Values]
    BY <1>2 DEF Encrypt, TypeOK
  <2>2. Encrypt(text) # None
    BY <2>1, AccessAssumption
  <2> QED
    BY <2>1, <2>2 DEF TextOf, Sealed
<1> QED
  BY <1>1, <1>2

(* A step of h writes a reader and ends; the edits of the others fit.      *)
LEMMA WriteReader ==
  ASSUME IInv, TypeOK', NEW h \in Requests, req'[h] = Idle,
         \A k \in Requests \ {h} : Keeps(k) /\ TargetFits(k)',
         UNCHANGED <<now, grants, stepup>>
  PROVE  AuthInv' /\ TargetInv' /\ StepUpInv'
<1>1. AuthFits(h)' /\ TargetFits(h)' /\ StepUpFits(h)'
  BY IdleFits DEF IInv
<1>2. ASSUME NEW k \in Requests \ {h} PROVE AuthFits(k)' /\ StepUpFits(k)'
  <2>1. AuthFits(k) /\ TargetFits(k) /\ StepUpFits(k)
    BY DEF IInv, AuthInv, TargetInv, StepUpInv
  <2> QED
    BY <2>1, KeptFits
<1>3. \A u \in Users : stepup'[u] <= now'
  BY DEF IInv, StepUpInv
<1> QED
  BY <1>1, <1>2, <1>3 DEF AuthInv, TargetInv, StepUpInv

LEMMA CreateReaderInv ==
  ASSUME IInv, NEW h \in Requests, NEW r \in Readers, NEW b \in Branches,
         NEW text \in Values \cup {None}, CreateReader(h, r, b, text)
  PROVE  IInv'
<1> DEFINE row == [branch |-> b, status |-> "active", secret |-> Encrypt(text)]
<1>1. TypeOK /\ End(h) /\ req[h].step = "handler" /\ reader[r].status = "absent"
  BY DEF CreateReader, May, IInv
<1>2. Moves(h) /\ req'[h] = Idle
  BY <1>1, OwnStep, IdleType DEF End
<1>3. Encrypt(text) \in Sealed /\ TextOf(Encrypt(text)) = text
  BY <1>1, EncryptType
<1>4. /\ row \in ReaderRows /\ row.branch = b /\ row.status = "active"
      /\ row.secret = Encrypt(text)
  BY <1>3 DEF ReaderRows, Statuses
<1>5. /\ reader' = [reader EXCEPT ![r] = row]
      /\ latest' = [latest EXCEPT ![r] = [status |-> "active", text |-> text]]
  BY DEF CreateReader
<1> HIDE DEF row
<1>6. TypeOK'
  BY <1>1, <1>2, <1>4, <1>5 DEF CreateReader, TypeOK, Moves, boundVars, Statuses
<1>7. /\ reader'[r] = row /\ latest'[r] = [status |-> "active", text |-> text]
      /\ \A x \in Readers \ {r} : reader'[x] = reader[x] /\ latest'[x] = latest[x]
  BY <1>1, <1>5 DEF TypeOK
<1>8. AuthInv' /\ TargetInv' /\ StepUpInv'
  <2>1. ASSUME NEW k \in Requests \ {h} PROVE Keeps(k) /\ TargetFits(k)'
    <3>1. TargetFits(k) /\ req'[k] = req[k]
      BY <1>2 DEF Moves, IInv, TargetInv
    <3>2. req[k].step = "edit" => req[k].target # r
      BY <1>1, <3>1 DEF TargetFits, InScope
    <3>3. TargetFits(k)'
      BY <1>7, <3>1, <3>2 DEF TargetFits, InScope
    <3> QED
      BY <1>1, <1>2, <3>3, MovesKeep
  <2> QED
    BY <1>2, <1>6, <2>1, WriteReader DEF CreateReader
<1>9. RecordInv'
  <2>1. RecordInv /\ tainted' = tainted
    BY DEF CreateReader, IInv
  <2>2. ASSUME NEW x \in Readers
        PROVE  /\ reader'[x].status = latest'[x].status
               /\ x \notin tainted' => TextOf(reader'[x].secret) = latest'[x].text
               /\ reader'[x].status # "absent" => reader'[x].branch \in Branches
    <3>1. CASE x = r
      BY <1>3, <1>4, <1>7, <3>1
    <3>2. CASE x # r
      BY <1>7, <2>1, <3>2 DEF RecordInv, RecordIsLatest
    <3> QED
      BY <3>1, <3>2
  <2> QED
    BY <2>2 DEF RecordInv, RecordIsLatest, TextOf
<1>10. TrailInv'
  BY <1>1, EndSameWriting, TrailKept DEF CreateReader, IInv, Writing
<1>11. CountInv'
  <2>1. faults \in Nat
    BY <1>1, FiniteCounts
  <2> QED
    BY <1>1, <2>1, EndCount DEF CreateReader, boundVars
<1> QED
  BY <1>6, <1>8, <1>9, <1>10, <1>11 DEF IInv

LEMMA UpdateStatusInv ==
  ASSUME IInv, NEW h \in Requests, NEW r \in Readers, NEW status \in Statuses,
         UpdateStatus(h, r, status)
  PROVE  IInv'
<1> DEFINE row == [reader[r] EXCEPT !.status = status]
           new == [latest[r] EXCEPT !.status = status]
<1>1. TypeOK /\ End(h) /\ req[h].step = "handler" /\ reader[r].status # "absent"
  BY DEF UpdateStatus, May, InScope, IInv
<1>2. Moves(h) /\ req'[h] = Idle
  BY <1>1, OwnStep, IdleType DEF End
<1>3. /\ row \in ReaderRows /\ row.branch = reader[r].branch /\ row.status = status
      /\ row.secret = reader[r].secret
  BY <1>1 DEF TypeOK, ReaderRows, Statuses
<1>4. /\ new \in [status : Statuses \cup {"absent"}, text : Values \cup {None}]
      /\ new.status = status /\ new.text = latest[r].text
  BY <1>1 DEF TypeOK, Statuses
<1>5. reader' = [reader EXCEPT ![r] = row] /\ latest' = [latest EXCEPT ![r] = new]
  BY DEF UpdateStatus
<1> HIDE DEF row, new
<1>6. TypeOK'
  BY <1>1, <1>2, <1>3, <1>4, <1>5 DEF UpdateStatus, TypeOK, Moves, boundVars
<1>7. /\ reader'[r] = row /\ latest'[r] = new
      /\ \A x \in Readers \ {r} : reader'[x] = reader[x] /\ latest'[x] = latest[x]
  BY <1>1, <1>5 DEF TypeOK
<1>8. status # "absent"
  BY DEF Statuses
<1>9. AuthInv' /\ TargetInv' /\ StepUpInv'
  <2>1. ASSUME NEW k \in Requests \ {h} PROVE Keeps(k) /\ TargetFits(k)'
    <3>1. TargetFits(k) /\ req'[k] = req[k]
      BY <1>2 DEF Moves, IInv, TargetInv
    <3>2. TargetFits(k)'
      BY <1>3, <1>7, <1>8, <3>1 DEF TargetFits, InScope
    <3> QED
      BY <1>1, <1>2, <3>2, MovesKeep
  <2> QED
    BY <1>2, <1>6, <2>1, WriteReader DEF UpdateStatus
<1>10. RecordInv'
  <2>1. RecordInv /\ tainted' = tainted
    BY DEF UpdateStatus, IInv
  <2>2. ASSUME NEW x \in Readers
        PROVE  /\ reader'[x].status = latest'[x].status
               /\ x \notin tainted' => TextOf(reader'[x].secret) = latest'[x].text
               /\ reader'[x].status # "absent" => reader'[x].branch \in Branches
    <3>1. CASE x = r
      BY <1>1, <1>3, <1>4, <1>7, <2>1, <3>1 DEF RecordInv, RecordIsLatest
    <3>2. CASE x # r
      BY <1>7, <2>1, <3>2 DEF RecordInv, RecordIsLatest
    <3> QED
      BY <3>1, <3>2
  <2> QED
    BY <2>2 DEF RecordInv, RecordIsLatest, TextOf
<1>11. TrailInv'
  BY <1>1, EndSameWriting, TrailKept DEF UpdateStatus, IInv, Writing
<1>12. CountInv'
  <2>1. faults \in Nat
    BY <1>1, FiniteCounts
  <2> QED
    BY <1>1, <2>1, EndCount DEF UpdateStatus, boundVars
<1> QED
  BY <1>6, <1>9, <1>10, <1>11, <1>12 DEF IInv

LEMMA EditReaderInv ==
  ASSUME IInv, NEW h \in Requests, NEW text \in Values \cup {None}, EditReader(h, text)
  PROVE  IInv'
<1>1. TypeOK /\ req[h] \in Request /\ TargetFits(h) /\ req[h].step = "edit"
  BY DEF EditReader, IInv, TypeOK, TargetInv
<1>2. PICK r \in Readers : r = req[h].target
  BY <1>1 DEF TargetFits
<1> DEFINE row == Overlay(h, r, text)
           marked(k) == [req[k] EXCEPT !.disturbed = @ \/ (req[k].step = "edit" /\ req[k].target = r)]
<1>3. /\ row \in ReaderRows /\ row.branch = reader[r].branch /\ row.status = reader[r].status
      /\ row.secret = IF text = None THEN req[h].row.secret ELSE Encrypt(text)
  <2>1. req[h].row.secret \in Sealed /\ Encrypt(text) \in Sealed /\ reader[r] \in ReaderRows
    BY <1>1, EncryptType DEF TypeOK, Request, ReaderRows
  <2> QED
    BY <2>1 DEF Overlay, ReaderRows
<1>4. /\ reader' = [reader EXCEPT ![r] = row]
      /\ latest' = IF text = None THEN latest ELSE [latest EXCEPT ![r].text = text]
      /\ req' = [k \in Requests |-> IF k = h THEN Idle ELSE marked(k)]
      /\ tainted' = IF req[h].disturbed /\ text = None THEN tainted \cup {r} ELSE tainted
  BY <1>2 DEF EditReader
<1> HIDE DEF row
<1>5. req'[h] = Idle
  BY <1>4
<1>6. ASSUME NEW k \in Requests \ {h}
      PROVE  /\ Keeps(k)
             /\ req[k].step = "edit" /\ req[k].target = r => req'[k].disturbed
  <2>1. req[k] \in Request /\ req'[k] = marked(k)
    BY <1>1, <1>4 DEF TypeOK
  <2>2. /\ marked(k) \in Request
        /\ marked(k).held = req[k].held /\ marked(k).could = req[k].could
        /\ marked(k).step = req[k].step /\ marked(k).user = req[k].user
        /\ marked(k).admin = req[k].admin /\ marked(k).permissions = req[k].permissions
        /\ marked(k).scope = req[k].scope /\ marked(k).stepup = req[k].stepup
        /\ marked(k).at = req[k].at /\ marked(k).target = req[k].target
        /\ marked(k).row = req[k].row /\ marked(k).grant = req[k].grant
        /\ marked(k).shown = req[k].shown
    BY <2>1 DEF Request
  <2>3. marked(k).disturbed = (req[k].disturbed \/ (req[k].step = "edit" /\ req[k].target = r))
    BY <2>1 DEF Request
  <2> HIDE DEF marked
  <2> QED
    BY <2>1, <2>2, <2>3 DEF Keeps
<1>7. req' \in [Requests -> Request]
  <2>1. req' = [k \in Requests |-> req'[k]]
    BY <1>4
  <2>2. \A k \in Requests : req'[k] \in Request
    BY <1>5, <1>6, IdleType DEF Keeps
  <2> QED
    BY <2>1, <2>2
<1>8. /\ reader'[r] = row
      /\ \A x \in Readers \ {r} : reader'[x] = reader[x]
  BY <1>1, <1>4 DEF TypeOK
<1>9. /\ latest' \in [Readers -> [status : Statuses \cup {"absent"}, text : Values \cup {None}]]
      /\ latest'[r].status = latest[r].status
      /\ latest'[r].text = IF text = None THEN latest[r].text ELSE text
      /\ \A x \in Readers \ {r} : latest'[x] = latest[x]
  BY <1>1, <1>4 DEF TypeOK
<1>10. TypeOK'
  <2>1. reader' \in [Readers -> ReaderRows] /\ tainted' \subseteq Users \cup Readers
    BY <1>1, <1>3, <1>4 DEF TypeOK
  <2> QED
    BY <1>1, <1>7, <1>9, <2>1 DEF EditReader, TypeOK, boundVars
<1>11. AuthInv' /\ TargetInv' /\ StepUpInv'
  <2>1. ASSUME NEW k \in Requests \ {h} PROVE Keeps(k) /\ TargetFits(k)'
    <3>1. TargetFits(k) /\ Keeps(k)
      BY <1>6 DEF IInv, TargetInv
    <3>2. CASE req[k].target = r
      BY <1>3, <1>6, <1>8, <3>1, <3>2 DEF Keeps, TargetFits, InScope
    <3>3. CASE req[k].target # r
      BY <1>8, <3>1, <3>3 DEF Keeps, TargetFits, InScope
    <3> QED
      BY <3>1, <3>2, <3>3
  <2> QED
    BY <1>5, <1>10, <2>1, WriteReader DEF EditReader
<1>12. RecordInv'
  <2>1. RecordInv
    BY DEF IInv
  <2>2. ASSUME NEW x \in Readers
        PROVE  /\ reader'[x].status = latest'[x].status
               /\ x \notin tainted' => TextOf(reader'[x].secret) = latest'[x].text
               /\ reader'[x].status # "absent" => reader'[x].branch \in Branches
    <3>1. CASE x = r
      <4>1. /\ reader'[r].status = latest'[r].status
            /\ reader'[r].status # "absent" => reader'[r].branch \in Branches
        BY <1>3, <1>8, <1>9, <2>1 DEF RecordInv, RecordIsLatest
      <4>2. ASSUME r \notin tainted' PROVE TextOf(row.secret) = latest'[r].text
        <5>1. CASE text # None
          BY <1>1, <1>3, <1>9, <5>1, EncryptType
        <5>2. CASE text = None
          <6>1. r \notin tainted /\ ~req[h].disturbed
            BY <1>4, <4>2, <5>2
          <6>2. row.secret = reader[r].secret
            BY <1>1, <1>2, <1>3, <5>2, <6>1 DEF TargetFits
          <6> QED
            BY <1>9, <2>1, <5>2, <6>1, <6>2 DEF RecordInv, RecordIsLatest
        <5> QED
          BY <5>1, <5>2
      <4> QED
        BY <1>8, <3>1, <4>1, <4>2
    <3>2. CASE x # r
      BY <1>4, <1>8, <1>9, <2>1, <3>2 DEF RecordInv, RecordIsLatest
    <3> QED
      BY <3>1, <3>2
  <2> QED
    BY <2>2 DEF RecordInv, RecordIsLatest, TextOf
<1>13. TrailInv'
  <2>1. ASSUME NEW k \in Requests PROVE SameWriting(k)
    <3>1. CASE k = h
      BY <1>1, <1>5, <3>1, IdleType DEF SameWriting, Writing
    <3>2. CASE k # h
      BY <1>6, <3>2 DEF Keeps, SameWriting
    <3> QED
      BY <3>1, <3>2
  <2>2. tainted \subseteq tainted'
    BY <1>4
  <2> QED
    BY <2>1, <2>2, TrailKept DEF EditReader, IInv
<1>14. CountInv'
  <2>1. faults \in Nat
    BY <1>1, FiniteCounts
  <2>2. ASSUME NEW k \in Requests
        PROVE  /\ req[k].step = "idle" => req'[k].step = "idle"
               /\ req'[k].step = "decrypt" <=> (req[k].step = "decrypt" /\ req'[k].step # "idle")
    <3>1. CASE k = h
      BY <1>1, <1>5, <3>1, IdleType
    <3>2. CASE k # h
      BY <1>6, <3>2 DEF Keeps
    <3> QED
      BY <3>1, <3>2
  <2> QED
    BY <2>1, <2>2, CountKept DEF EditReader, boundVars
<1> QED
  BY <1>10, <1>11, <1>12, <1>13, <1>14 DEF IInv

LEMMA RevealSensitiveInv ==
  ASSUME IInv, NEW h \in Requests, RevealSensitive(h)
  PROVE  /\ IInv'
         /\ answers' <= attempts + faults
<1>1. TypeOK /\ End(h) /\ req[h].step = "decrypt" /\ answers' = answers + 1
  BY DEF RevealSensitive, IInv
<1>2. Moves(h) /\ req'[h] = Idle
  BY <1>1, OwnStep, IdleType DEF End
<1>3. /\ Active' = Active \ {h} /\ Decrypting' = Decrypting \ {h}
      /\ Active' \ Decrypting' = Active \ Decrypting
      /\ h \in Active /\ h \in Decrypting
  BY <1>1, <1>2, IdleType DEF Moves, Active, Decrypting
<1>4. /\ IsFiniteSet(Active) /\ IsFiniteSet(Decrypting)
      /\ Cardinality(Active) \in Nat /\ Cardinality(Decrypting) \in Nat
      /\ Cardinality(Active \ Decrypting) \in Nat
      /\ attempts \in Nat /\ answers \in Nat /\ begun \in Nat /\ faults \in Nat
  BY <1>1, FiniteCounts
<1>5. /\ Cardinality(Active') = Cardinality(Active) - 1
      /\ Cardinality(Decrypting') = Cardinality(Decrypting) - 1
      /\ Cardinality(Active' \ Decrypting') = Cardinality(Active \ Decrypting)
  <2>1. Cardinality(Active \ {h}) = Cardinality(Active) - 1
    BY <1>3, <1>4, FS_RemoveElement
  <2>2. Cardinality(Decrypting \ {h}) = Cardinality(Decrypting) - 1
    BY <1>3, <1>4, FS_RemoveElement
  <2> QED
    BY <1>3, <2>1, <2>2
<1>6. Cardinality(Active') \in Nat /\ Cardinality(Decrypting') \in Nat
  <2>1. IsFiniteSet(Active \ {h}) /\ IsFiniteSet(Decrypting \ {h})
    BY <1>4, FS_RemoveElement
  <2> QED
    BY <1>3, <2>1, FS_CardinalityType
<1>7. CountInv' /\ answers' <= attempts + faults /\ answers' <= begun
  <2>1. attempts' = attempts /\ begun' = begun /\ faults' = faults
    BY DEF RevealSensitive, boundVars
  <2>2. CountInv
    BY DEF IInv
  <2> QED
    BY <1>1, <1>4, <1>5, <1>6, <2>1, <2>2 DEF CountInv
<1>8. TypeOK'
  <2>1. answers' \in 0 .. MaxBegun
    BY <1>1, <1>4, <1>7, AccessAssumption DEF TypeOK
  <2> QED
    BY <1>1, <1>2, <2>1 DEF RevealSensitive, TypeOK, Moves, boundVars
<1>9. AuthInv' /\ TargetInv' /\ StepUpInv'
  BY <1>1, <1>8, EndFit DEF RevealSensitive
<1>10. RecordInv'
  BY RecordKept DEF RevealSensitive, IInv
<1>11. TrailInv'
  BY <1>1, EndSameWriting, TrailKept DEF RevealSensitive, IInv, Writing
<1> QED
  BY <1>7, <1>8, <1>9, <1>10, <1>11 DEF IInv

-----------------------------------------------------------------------------
(* The theorems.                                                           *)

LEMMA StutterInv ==
  ASSUME IInv, UNCHANGED vars
  PROVE  IInv'
<1> USE DEF vars, boundVars, historyVars
<1>1. TypeOK' /\ StepUpInv' /\ CountInv'
  BY DEF IInv, TypeOK, StepUpInv, StepUpFits, CountInv, Active, Decrypting
<1>2. AuthInv' /\ TargetInv'
  BY DEF IInv, AuthInv, AuthFits, TargetInv, TargetFits, InScope
<1>3. RecordInv'
  BY RecordKept DEF IInv
<1>4. TrailInv'
  BY TrailKept DEF IInv, SameWriting
<1> QED
  BY <1>1, <1>2, <1>3, <1>4 DEF IInv

LEMMA NextInv == IInv /\ [Next]_vars => IInv'
<1> SUFFICES ASSUME IInv, [Next]_vars PROVE IInv'
  OBVIOUS
<1>1. CASE \E h \in Requests, u \in Users : Begin(h, u)
  BY <1>1, BeginInv
<1>2. CASE \E h \in Requests, text \in Values \cup {None} : EditReader(h, text)
  BY <1>2, EditReaderInv
<1>3. CASE \E h \in Requests : Middleware(h)
  BY <1>3, ReadPermissionsInv, ResolveScopeInv DEF Middleware
<1>4. CASE \E h \in Requests : GrantNext(h)
  BY <1>4, EnforceUserScopeInv, SnapshotBeforeInv, ChangeGrantsInv, SnapshotAfterInv,
     LogGrantInv DEF GrantNext
<1>5. CASE \E h \in Requests : ReaderNext(h)
  BY <1>5, CreateReaderInv, BeginEditInv, UpdateStatusInv DEF ReaderNext
<1>6. CASE \E h \in Requests : RevealNext(h)
  BY <1>6, BeginStepUpInv, SetStepUpInv, LogRevealInv, RevealSensitiveInv, BeginRevealInv
  DEF RevealNext
<1>7. CASE \E h \in Requests : Fail(h)
  BY <1>7, FailInv
<1>8. CASE \E k \in Keys \cup {None} : Restart(k)
  BY <1>8, RestartInv
<1>9. CASE Tick
  BY <1>9, TickInv
<1>10. CASE UNCHANGED vars
  BY <1>10, StutterInv
<1> QED
  BY <1>1, <1>2, <1>3, <1>4, <1>5, <1>6, <1>7, <1>8, <1>9, <1>10 DEF Next

(* The conjuncts of the invariant hold together in every reachable state:  *)
(* what the requests read was granted, what they are about is there, the   *)
(* change under way accounts for the difference of grants and trail.       *)
THEOREM Invariance == Spec => []IInv
BY InitInv, NextInv, PTL DEF Spec

(* Tables, requests and histories keep their types; among them, no more    *)
(* reveals are written to the audit log or answered than requests begin.   *)
THEOREM TypeCorrect == Spec => []TypeOK
<1>1. IInv => TypeOK
  BY DEF IInv
<1> QED
  BY <1>1, Invariance, PTL

(* A reader has the status given last, and the field given last unless two *)
(* edits overlapped, whatever key the server was started with since.       *)
THEOREM RecordsAreLatest == Spec => []RecordIsLatest
<1>1. IInv => RecordIsLatest
  BY DEF IInv, RecordInv
<1> QED
  BY <1>1, Invariance, PTL

(* The audit events of a user add up to its grants unless changes of them  *)
(* overlapped or an event was lost.                                        *)
THEOREM TrailShowsGrants == Spec => []TrailIsRight
<1>1. IInv => TrailIsRight
  <2> SUFFICES ASSUME IInv, NEW u \in Users \ tainted
               PROVE  /\ (\A h \in Requests : ~Changing(h, u)) => trail[u] = grants[u]
                      /\ \A h \in Requests : req[h].step = "grant" /\ req[h].target = u =>
                           req[h].shown = trail[u] \cap Kin(req[h].grant)
    BY DEF TrailIsRight
  <2>1. TrailOf(u)
    BY DEF IInv, TrailInv
  <2> QED
    BY <2>1 DEF TrailOf, TrailFits, Changing
<1> QED
  BY <1>1, Invariance, PTL

(* Only an edit, a new reader and a change of status write readers, each   *)
(* in a scope and with a permission its user had since it began.           *)
LEMMA ReaderWrites ==
  ASSUME IInv, Next, NEW r \in Readers, reader'[r] # reader[r]
  PROVE  \E h \in Requests :
           /\ req[h] # req'[h] /\ "readers:write" \in req[h].could
           /\ reader[r].status = "absent" \/ {AllBranches, reader[r].branch} \cap req[h].held # {}
<1>1. TypeOK /\ \A h \in Requests : req[h] \in Request /\ AuthFits(h) /\ TargetFits(h)
  BY DEF IInv, TypeOK, AuthInv, TargetInv
<1>2. reader[r].status # "absent" => reader[r].branch # NoBranch
  BY AccessAssumption DEF IInv, RecordInv
<1>3. ASSUME NEW h \in Requests, End(h), req[h].step # "idle"
      PROVE  req[h] # req'[h]
  BY <1>1, <1>3, OwnStep, IdleType DEF End
<1>4. ASSUME NEW h \in Requests, req[h].step # "idle", InScope(h, r)
      PROVE  {AllBranches, reader[r].branch} \cap req[h].held # {}
  <2>1. req[h].scope # NoBranch
    BY <1>2, <1>4, AccessAssumption DEF InScope
  <2> QED
    BY <1>1, <1>4, <2>1 DEF InScope, AuthFits
<1>5. CASE \E h \in Requests, text \in Values \cup {None} : EditReader(h, text)
  <2>1. PICK h \in Requests, text \in Values \cup {None} : EditReader(h, text)
    BY <1>5
  <2>2. r = req[h].target /\ req[h].step = "edit"
    BY <1>1, <2>1 DEF EditReader, TypeOK
  <2>3. req'[h] = Idle
    BY <2>1 DEF EditReader
  <2>4. req[h] # req'[h]
    BY <2>2, <2>3, IdleType
  <2>5. "readers:write" \in req[h].could /\ InScope(h, r)
    BY <1>1, <2>2 DEF AuthFits, TargetFits
  <2> QED
    BY <1>4, <2>2, <2>4, <2>5
<1>6. CASE \E h \in Requests : ReaderNext(h)
  <2>1. PICK h \in Requests : ReaderNext(h)
    BY <1>6
  <2>2. /\ End(h) /\ May(h, "readers:write")
        /\ reader[r].status = "absent" \/ InScope(h, r)
    <3>1. ASSUME NEW x \in Readers, BeginEdit(h, x) PROVE FALSE
      BY <3>1 DEF BeginEdit
    <3>2. ASSUME NEW x \in Readers, NEW b \in Branches, NEW text \in Values \cup {None},
                 CreateReader(h, x, b, text)
          PROVE  r = x
      BY <1>1, <3>2 DEF CreateReader, TypeOK
    <3>3. ASSUME NEW x \in Readers, NEW status \in Statuses, UpdateStatus(h, x, status)
          PROVE  r = x
      BY <1>1, <3>3 DEF UpdateStatus, TypeOK
    <3> QED
      BY <2>1, <3>1, <3>2, <3>3 DEF ReaderNext, CreateReader, UpdateStatus
  <2>3. req[h].step = "handler" /\ "readers:write" \in req[h].could
    BY <1>1, <2>2 DEF May, AuthFits
  <2> QED
    BY <1>3, <1>4, <2>2, <2>3
<1>7. CASE \E h \in Requests : Middleware(h) \/ GrantNext(h) \/ RevealNext(h) \/ Fail(h)
  BY <1>7 DEF Middleware, ReadPermissions, ResolveScope, GrantNext, EnforceUserScope,
     SnapshotBefore, ChangeGrants, SnapshotAfter, LogGrant, RevealNext, BeginStepUp, SetStepUp,
     LogReveal, RevealSensitive, BeginReveal, Fail
<1>8. CASE \/ \E h \in Requests, u \in Users : Begin(h, u)
           \/ \E k \in Keys \cup {None} : Restart(k)
           \/ Tick
  BY <1>8 DEF Begin, Restart, Tick
<1> QED
  BY <1>5, <1>6, <1>7, <1>8 DEF Next

LEMMA GrantWrites ==
  ASSUME IInv, Next, grants' # grants
  PROVE  \E h \in Requests : req[h] # req'[h] /\ "users:admin" \in req[h].could
<1>1. TypeOK /\ \A h \in Requests : req[h] \in Request /\ AuthFits(h)
  BY DEF IInv, TypeOK, AuthInv
<1>2. CASE \E h \in Requests : GrantNext(h)
  <2>1. PICK h \in Requests : GrantNext(h)
    BY <1>2
  <2>2. ChangeGrants(h)
    BY <2>1 DEF GrantNext, EnforceUserScope, SnapshotBefore, SnapshotAfter, LogGrant
  <2>3. req'[h] = [req[h] EXCEPT !.step = "after"] /\ req[h].step = "grant"
    BY <2>2 DEF ChangeGrants
  <2>4. req[h] # req'[h]
    BY <1>1, <2>3 DEF Request
  <2>5. "users:admin" \in req[h].could
    BY <1>1, <2>3 DEF AuthFits
  <2> QED
    BY <2>4, <2>5
<1>3. CASE \E h \in Requests : Middleware(h) \/ ReaderNext(h) \/ RevealNext(h) \/ Fail(h)
  BY <1>3 DEF Middleware, ReadPermissions, ResolveScope, ReaderNext, CreateReader, BeginEdit,
     UpdateStatus, RevealNext, BeginStepUp, SetStepUp, LogReveal, RevealSensitive, BeginReveal, Fail
<1>4. CASE \/ \E h \in Requests, u \in Users : Begin(h, u)
           \/ \E h \in Requests, text \in Values \cup {None} : EditReader(h, text)
           \/ \E k \in Keys \cup {None} : Restart(k)
           \/ Tick
  BY <1>4 DEF Begin, EditReader, Restart, Tick
<1> QED
  BY <1>2, <1>3, <1>4 DEF Next

(* Readers and grants are written only within what was granted since the   *)
(* request began, for any schedule of the reads of its middlewares and of  *)
(* the changes of grants.                                                  *)
THEOREM StaysWithinGrants == Spec => ActsWithinGrants
<1> DEFINE Sound ==
      /\ \A r \in Readers : reader'[r] # reader[r] =>
           \E h \in Requests :
             /\ req[h] # req'[h] /\ "readers:write" \in req[h].could
             /\ reader[r].status = "absent" \/ {AllBranches, reader[r].branch} \cap req[h].held # {}
      /\ grants' # grants =>
           \E h \in Requests : req[h] # req'[h] /\ "users:admin" \in req[h].could
<1>1. IInv /\ [Next]_vars => [Sound]_vars
  BY ReaderWrites, GrantWrites
<1> QED
  BY <1>1, Invariance, PTL DEF Spec, ActsWithinGrants

(* A reveal is answered by a step-up that was recent, is accounted for in  *)
(* the audit log, and under a key shows the text given last.               *)
THEOREM RevealsAreSound == Spec => RevealIsSound
<1> DEFINE Sound ==
      answers' # answers =>
        /\ answers' <= attempts + faults
        /\ \E h \in Requests :
             LET row == reader[req[h].target] IN
             /\ req[h].step = "decrypt" /\ req'[h] = Idle
             /\ req[h].at <= stepup[req[h].user] + Window
             /\ key # None /\ req[h].target \notin tainted =>
                  row.secret = Encrypt(latest[req[h].target].text)
<1>1. IInv /\ [Next]_vars => [Sound]_vars
  <2> SUFFICES ASSUME IInv, Next, answers' # answers PROVE Sound
    OBVIOUS
  <2>1. PICK h \in Requests : RevealSensitive(h)
    <3>1. ASSUME NEW h \in Requests, RevealNext(h) PROVE RevealSensitive(h)
      BY <3>1 DEF RevealNext, BeginStepUp, SetStepUp, LogReveal, BeginReveal, historyVars
    <3>2. ASSUME NEW h \in Requests, Middleware(h) PROVE FALSE
      BY <3>2 DEF Middleware, ReadPermissions, ResolveScope, historyVars
    <3>3. ASSUME NEW h \in Requests, GrantNext(h) PROVE FALSE
      BY <3>3 DEF GrantNext, EnforceUserScope, SnapshotBefore, ChangeGrants, SnapshotAfter,
         LogGrant, historyVars
    <3>4. ASSUME NEW h \in Requests, ReaderNext(h) PROVE FALSE
      BY <3>4 DEF ReaderNext, CreateReader, BeginEdit, UpdateStatus, historyVars
    <3>5. ASSUME NEW h \in Requests, Fail(h) PROVE FALSE
      BY <3>5 DEF Fail
    <3>6. CASE \E h \in Requests, u \in Users : Begin(h, u)
      BY <3>6 DEF Begin, historyVars
    <3>7. CASE \E h \in Requests, text \in Values \cup {None} : EditReader(h, text)
      BY <3>7 DEF EditReader
    <3>8. CASE (\E k \in Keys \cup {None} : Restart(k)) \/ Tick
      BY <3>8 DEF Restart, Tick, historyVars
    <3> QED
      BY <3>1, <3>2, <3>3, <3>4, <3>5, <3>6, <3>7, <3>8 DEF Next
  <2>2. TypeOK /\ TargetFits(h) /\ StepUpFits(h)
    BY DEF IInv, TargetInv, StepUpInv
  <2>3. req[h].step = "decrypt" /\ req'[h] = Idle /\ req[h].at <= stepup[req[h].user] + Window
    BY <2>1, <2>2 DEF RevealSensitive, StepUpFits, End, TypeOK
  <2>4. answers' <= attempts + faults
    BY <2>1, RevealSensitiveInv
  <2>5. PICK r \in Readers : r = req[h].target
    BY <2>2, <2>3 DEF TargetFits
  <2>6. ASSUME key # None, r \notin tainted
        PROVE  reader[r].secret = Encrypt(latest[r].text)
    <3>1. TextOf(reader[r].secret) = latest[r].text /\ reader[r].secret \in Sealed
      BY <2>2, <2>6 DEF IInv, RecordInv, RecordIsLatest, TypeOK, ReaderRows
    <3>2. CASE reader[r].secret = None
      BY <3>1, <3>2 DEF TextOf, Encrypt
    <3>3. CASE reader[r].secret # None
      <4>1. reader[r].secret \in [key : Keys \cup {None}, text : Values]
        BY <3>1, <3>3 DEF Sealed
      <4>2. reader[r].secret.key = key
        BY <2>1, <2>5, <2>6, <3>3 DEF RevealSensitive, Decrypts
      <4>3. latest[r].text = reader[r].secret.text /\ latest[r].text # None
        BY <3>1, <3>3, <4>1, AccessAssumption DEF TextOf
      <4> QED
        BY <4>1, <4>2, <4>3 DEF Encrypt
    <3> QED
      BY <3>2, <3>3
  <2> QED
    BY <2>3, <2>4, <2>5, <2>6
<1> QED
  BY <1>1, Invariance, PTL DEF Spec, RevealIsSound

=============================================================================
