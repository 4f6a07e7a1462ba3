----------------------------- MODULE Governance -----------------------------
(***************************************************************************)
(* Governed content and its moderation: internal/domain/content,           *)
(* internal/domain/moderation and their repositories.                      *)
(*                                                                         *)
(* No operation opens a transaction: each reads a row, decides on what it  *)
(* read, and writes in statements of their own.  Between two statements    *)
(* other requests run and the request may fail.  The text of a content     *)
(* item and the assignee of a moderation item are left out.                *)
(***************************************************************************)
EXTENDS Integers, Sequences, FiniteSets

CONSTANTS
  Requests,    \* concurrent requests of the server
  Contents,    \* ids of content items
  Permissions, \* what the role of each request's user permits: submit, publish, moderate
  Own,         \* the contents each request's user is the author of
  Visible,     \* the contents in the branch scope of each request's user
  MaxItems,    \* bound: no submission begins for a content with so many items
  MaxFaults    \* bound: lookups of an open item that fail

ContentStatuses == {"draft", "pending_review", "approved", "rejected", "published", "archived"}
Verdicts == {"approved", "rejected"}
Items == [status : {"pending", "in_review", "decided"}, decision : Verdicts \cup {"none"}]

ASSUME GovernanceAssumption ==
  /\ Contents # {} /\ IsFiniteSet(Requests)
  /\ Permissions \in [Requests -> SUBSET {"submit", "publish", "moderate"}]
  /\ Own \in [Requests -> SUBSET Contents]
  /\ Visible \in [Requests -> SUBSET Contents]
  /\ MaxItems \in Nat /\ MaxFaults \in Nat

VARIABLES
  status,      \* governed_content.status, "absent" before the item is created
  items,       \* the moderation items of each content, oldest first
  verdicts,    \* verdicts that moderators carried to the content (for properties)
  req,         \* what each request has read so far
  faults       \* lookups that failed

vars == <<status, items, verdicts, req, faults>>

-----------------------------------------------------------------------------
Steps == {"idle", "edit", "submit", "lookup", "insert", "undo", "retract", "publish",
          "archive", "assign", "decide", "verdict"}

(***************************************************************************)
(* content: the content the request is about; item: the moderation item;   *)
(* verdict: the decision asked for; disturbed: another request wrote a row *)
(* of the content since this one read it (for properties).                 *)
(***************************************************************************)
Request == [step : Steps, content : Contents, item : Nat, verdict : Verdicts,
            disturbed : BOOLEAN]

Idle == [step |-> "idle", content |-> CHOOSE c \in Contents : TRUE, item |-> 0,
         verdict |-> "rejected", disturbed |-> FALSE]

Init ==
  /\ status = [c \in Contents |-> "absent"]
  /\ items = [c \in Contents |-> <<>>]
  /\ verdicts = [c \in Contents |-> {}]
  /\ req = [h \in Requests |-> Idle]
  /\ faults = 0

(* The lookup of an item that is not decided; the variant misses the ones  *)
(* a moderator has taken.                                                  *)
PendingItems(c) == {i \in DOMAIN items[c] : items[c][i].status = "pending"}
OpenItems(c) == {i \in DOMAIN items[c] : items[c][i].status # "decided"}

(* h writes a row of its content and goes on as `next`: the other requests *)
(* for the content have now read old rows.                                 *)
Write(h, next) ==
  req' = [k \in Requests |->
            IF k = h THEN next
            ELSE IF req[k].step # "idle" /\ req[k].content = req[h].content
                 THEN [req[k] EXCEPT !.disturbed = TRUE] ELSE req[k]]

-----------------------------------------------------------------------------
(* The content service.                                                    *)

Create(h, c) ==
  /\ req[h].step = "idle" /\ c \in Own[h] /\ "submit" \in Permissions[h]
  /\ status[c] = "absent"
  /\ status' = [status EXCEPT ![c] = "draft"]
  /\ UNCHANGED <<items, verdicts, req, faults>>

(* What the row read must say for each operation; the variant publishes    *)
(* what has not been decided yet.                                          *)
AllowedEarly(op) == CASE op \in {"edit", "submit"}     -> "draft"
                      [] op \in {"retract", "publish"} -> "pending_review"
                      [] op = "archive"                -> "published"
Allowed(op) == CASE op = "edit"    -> "draft"
                 [] op = "submit"  -> "draft"
                 [] op = "retract" -> "pending_review"
                 [] op = "publish" -> "approved"
                 [] op = "archive" -> "published"

Needed(op) == IF op \in {"edit", "submit", "retract"} THEN "submit" ELSE "publish"

(* The handler's check of the permission, GetByID, then the checks of      *)
(* author and status on the row read.                                      *)
Begin(h, op, c) ==
  /\ req[h].step = "idle" /\ c \in Visible[h] /\ Needed(op) \in Permissions[h]
  /\ op \in {"submit", "retract"} => c \in Own[h]
  /\ op = "submit" => Len(items[c]) < MaxItems
  /\ status[c] = Allowed(op)
  /\ req' = [req EXCEPT ![h] = [Idle EXCEPT !.step = op, !.content = c]]
  /\ UNCHANGED <<status, items, verdicts, faults>>

(* The statement that follows writes the status whatever the row says now: *)
(* an edit rewrites the whole row with the status it read.  In the variant *)
(* an archived item gets a status the table does not know.                 *)
WrittenUnknown(op) == CASE op \in {"edit", "retract", "undo"} -> "draft"
                        [] op = "publish" -> "published"
                        [] op = "archive" -> "withdrawn"
Written(op) == CASE op = "edit"    -> "draft"
                 [] op = "retract" -> "draft"
                 [] op = "undo"    -> "draft"
                 [] op = "publish" -> "published"
                 [] op = "archive" -> "archived"

WriteContent(h) ==
  /\ req[h].step \in {"edit", "retract", "undo", "publish", "archive"}
  /\ status' = [status EXCEPT ![req[h].content] = Written(req[h].step)]
  /\ Write(h, Idle)
  /\ UNCHANGED <<items, verdicts, faults>>

SubmitContent(h) ==
  /\ req[h].step = "submit"
  /\ status' = [status EXCEPT ![req[h].content] = "pending_review"]
  /\ Write(h, [req[h] EXCEPT !.step = "lookup"])
  /\ UNCHANGED <<items, verdicts, faults>>

(* CreateItemForContent keeps an open item. *)
LookupItem(h) ==
  LET open == OpenItems(req[h].content) IN
  /\ req[h].step = "lookup"
  /\ req' = [req EXCEPT ![h] = IF open # {} THEN Idle ELSE [@ EXCEPT !.step = "insert"]]
  /\ UNCHANGED <<status, items, verdicts, faults>>

(* A lookup that fails is taken for one that finds nothing. *)
LookupFails(h) ==
  /\ req[h].step = "lookup" /\ faults < MaxFaults
  /\ faults' = faults + 1
  /\ req' = [req EXCEPT ![h].step = "insert"]
  /\ UNCHANGED <<status, items, verdicts>>

InsertItem(h) ==
  /\ req[h].step = "insert"
  /\ items' = [items EXCEPT ![req[h].content] =
                 Append(@, [status |-> "pending", decision |-> "none"])]
  /\ Write(h, Idle)
  /\ UNCHANGED <<status, verdicts, faults>>

(* Submit then puts the content back to draft, if that statement succeeds. *)
InsertFails(h) ==
  /\ req[h].step = "insert"
  /\ req' = [req EXCEPT ![h].step = "undo"]
  /\ UNCHANGED <<status, items, verdicts, faults>>

-----------------------------------------------------------------------------
(* The moderation service.                                                 *)

(* GetByID of the item: a decided one is refused, in the variant it is not. *)
AnyItem(c, i) == i \in DOMAIN items[c]
Undecided(c, i) == items[c][i].status # "decided"

BeginAssign(h, c, i) ==
  /\ req[h].step = "idle" /\ c \in Visible[h] /\ "moderate" \in Permissions[h]
  /\ Undecided(c, i)
  /\ req' = [req EXCEPT ![h] = [Idle EXCEPT !.step = "assign", !.content = c, !.item = i]]
  /\ UNCHANGED <<status, items, verdicts, faults>>

(* Repo.Decide with an empty decision.  The service runs it twice; the     *)
(* second changes only the assignee.                                       *)
AssignItem(h) ==
  LET c == req[h].content IN
  /\ req[h].step = "assign"
  /\ items' = [items EXCEPT ![c][req[h].item] =
                 IF @.status # "decided" THEN [@ EXCEPT !.status = "in_review"] ELSE @]
  /\ Write(h, Idle)
  /\ UNCHANGED <<status, verdicts, faults>>

BeginDecide(h, c, i, v) ==
  /\ req[h].step = "idle" /\ c \in Visible[h] /\ "moderate" \in Permissions[h]
  /\ Undecided(c, i)
  /\ req' = [req EXCEPT ![h] = [Idle EXCEPT !.step = "decide", !.content = c, !.item = i,
                                            !.verdict = v]]
  /\ UNCHANGED <<status, items, verdicts, faults>>

(* The UPDATE looks at the status of the item again. *)
Decide(item, v) ==
  IF item.status = "decided" THEN item
  ELSE [item EXCEPT !.status = "decided", !.decision = v]

(* Whether the UPDATE found the item undecided is not asked. *)
DecideItem(h) ==
  LET c == req[h].content IN
  /\ req[h].step = "decide"
  /\ items' = [items EXCEPT ![c][req[h].item] = Decide(@, req[h].verdict)]
  /\ Write(h, [req[h] EXCEPT !.step = "verdict"])
  /\ UNCHANGED <<status, verdicts, faults>>

(* The verdict becomes the status of the content, whatever that is now.    *)
(* (A rejection with a reason reads the row and rewrites all of it.)       *)
CarryVerdict(h) ==
  LET c == req[h].content IN
  /\ req[h].step = "verdict"
  /\ status' = [status EXCEPT ![c] = req[h].verdict]
  /\ verdicts' = [verdicts EXCEPT ![c] = @ \cup {req[h].verdict}]
  /\ Write(h, Idle)
  /\ UNCHANGED <<items, faults>>

-----------------------------------------------------------------------------
(* A statement fails, the client goes away or the server dies; of the      *)
(* content's update by a verdict the failure is not even reported.         *)
Fail(h) ==
  /\ req[h].step # "idle"
  /\ req' = [req EXCEPT ![h] = Idle]
  /\ UNCHANGED <<status, items, verdicts, faults>>

ContentNext ==
  \/ \E h \in Requests, c \in Contents : Create(h, c)
  \/ \E h \in Requests, c \in Contents,
        op \in {"edit", "submit", "retract", "publish", "archive"} : Begin(h, op, c)
  \/ \E h \in Requests : \/ WriteContent(h) \/ SubmitContent(h) \/ LookupItem(h)
                         \/ LookupFails(h) \/ InsertItem(h) \/ InsertFails(h)

ModerationNext ==
  \/ \E h \in Requests, c \in Contents : \E i \in DOMAIN items[c] :
       BeginAssign(h, c, i) \/ \E v \in Verdicts : BeginDecide(h, c, i, v)
  \/ \E h \in Requests : AssignItem(h) \/ DecideItem(h) \/ CarryVerdict(h)

Next == ContentNext \/ ModerationNext \/ \E h \in Requests : Fail(h)

Spec == Init /\ [][Next]_vars

-----------------------------------------------------------------------------
(* Properties.                                                             *)

(* Types of the tables and the requests. *)
TypeOK ==
  /\ status \in [Contents -> ContentStatuses \cup {"absent"}]
  /\ items \in [Contents -> Seq(Items)]
  /\ verdicts \in [Contents -> SUBSET Verdicts]
  /\ req \in [Requests -> Request]
  /\ faults \in 0 .. MaxFaults

(* A content has at most as many undecided items as it has submitters at   *)
(* work, plus one for each lookup that failed: the check before the insert *)
(* does not exclude duplicates, but they cannot pile up.                   *)
Submitters(c) == {h \in Requests : c \in Own[h]}
Inserting(c) == {h \in Requests : req[h].step = "insert" /\ req[h].content = c}
OpenItemsBounded ==
  \A c \in Contents :
    LET undecided == {i \in DOMAIN items[c] : items[c][i].status # "decided"}
    IN  Cardinality(undecided) + Cardinality(Inserting(c)) <= Cardinality(Submitters(c)) + faults

(* Through every interleaving of stale writes, a content never becomes     *)
(* visible without a moderator having carried an approval to it.           *)
VisibleWasApproved ==
  \A c \in Contents :
    status[c] \in {"approved", "published", "archived"} => "approved" \in verdicts[c]

(* Whatever moderators decide or assign concurrently, the first decision   *)
(* of an item stays and no item disappears.  Unless another request wrote  *)
(* a row of the content in between, the verdict a request carries to the   *)
(* content is the one its item records, and a submission that ends leaves  *)
(* its content waiting with an item that lets a moderator find it.         *)
RecordedAsDecided(h) ==
  items[req[h].content][req[h].item] = [status |-> "decided", decision |-> req[h].verdict]
QueuedNext(c) ==
  /\ status'[c] = "pending_review"
  /\ \E i \in DOMAIN items'[c] : items'[c][i].status # "decided"
QueueIsTruthful ==
  [][/\ \A c \in Contents : \A i \in DOMAIN items[c] :
          /\ i \in DOMAIN items'[c]
          /\ items[c][i].status = "decided" => items'[c][i] = items[c][i]
     /\ \A h \in Requests : ~req[h].disturbed =>
          /\ CarryVerdict(h) => RecordedAsDecided(h)
          /\ (LookupItem(h) \/ InsertItem(h)) /\ req'[h].step = "idle"
               => QueuedNext(req[h].content)]_vars

=============================================================================
