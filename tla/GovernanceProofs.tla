-------------------------- MODULE GovernanceProofs --------------------------
(***************************************************************************)
(* Proofs about Governance, for every value of its constants.              *)
(***************************************************************************)
EXTENDS Governance, FiniteSetTheorems, TLAPS

-----------------------------------------------------------------------------
(* The inductive invariant.                                                *)

(* A request that no other has overtaken finds its rows as it read or left *)
(* them.                                                                   *)
Undisturbed(h) ==
  LET c == req[h].content IN
  /\ req[h].step \in {"lookup", "insert"} => status[c] = "pending_review"
  /\ req[h].step = "decide" => items[c][req[h].item].status # "decided"
  /\ req[h].step = "verdict" => RecordedAsDecided(h)

RequestFits(h) ==
  LET c == req[h].content IN
  /\ req[h].step # "idle" => status[c] # "absent"
  /\ req[h].step \in {"submit", "lookup", "insert"} => c \in Own[h]
  /\ req[h].step \in {"publish", "archive"} => "approved" \in verdicts[c]
  /\ req[h].step \in {"assign", "decide", "verdict"} => req[h].item \in DOMAIN items[c]
  /\ ~req[h].disturbed => Undisturbed(h)
RequestInv == \A h \in Requests : RequestFits(h)

ContentInv == \A c \in Contents : status[c] = "absent" => DOMAIN items[c] = {}

(* A request comes to the insert of an item by a lookup that found no open *)
(* one or that failed; open items of the first kind are at most one for    *)
(* each submitter.                                                         *)
Bounded(c) ==
  Cardinality(OpenItems(c)) + Cardinality(Inserting(c)) <= Cardinality(Submitters(c)) + faults
BoundInv == \A c \in Contents : Bounded(c)

IInv == TypeOK /\ RequestInv /\ ContentInv /\ BoundInv /\ VisibleWasApproved

-----------------------------------------------------------------------------
(* What a write does to the requests, and the open items counted.          *)

LEMMA IdleType ==
  Idle \in Request /\ Idle.step = "idle" /\ Idle.disturbed = FALSE
BY GovernanceAssumption DEF Idle, Request, Steps, Verdicts

(* A request goes on with what it has read. *)
SameReads(k) ==
  /\ req'[k].step = req[k].step /\ req'[k].content = req[k].content
  /\ req'[k].item = req[k].item /\ req'[k].verdict = req[k].verdict

Active(k, c) == req[k].step # "idle" /\ req[k].content = c

Overtakes(h, c, next) ==
  /\ req' \in [Requests -> Request] /\ req'[h] = next
  /\ \A k \in Requests \ {h} :
       /\ SameReads(k)
       /\ Active(k, c) => req'[k].disturbed = TRUE
       /\ ~Active(k, c) => req'[k] = req[k]

LEMMA WriteEffect ==
  ASSUME TypeOK, NEW h \in Requests, NEW next \in Request, Write(h, next),
         NEW c, c = req[h].content
  PROVE  Overtakes(h, c, next)
<1>1. \A k \in Requests : req[k] \in Request
  BY DEF TypeOK
<1>2. req' = [k \in Requests |-> IF k = h THEN next
                                 ELSE IF Active(k, c) THEN [req[k] EXCEPT !.disturbed = TRUE]
                                 ELSE req[k]]
  BY DEF Write, Active
<1>3. \A k \in Requests : [req[k] EXCEPT !.disturbed = TRUE] \in Request
  BY <1>1 DEF Request
<1>4. req' \in [Requests -> Request] /\ req'[h] = next
  BY <1>1, <1>2, <1>3
<1>5. ASSUME NEW k \in Requests \ {h}
      PROVE  /\ SameReads(k)
             /\ Active(k, c) => req'[k].disturbed = TRUE
             /\ ~Active(k, c) => req'[k] = req[k]
  <2>1. CASE Active(k, c)
    BY <1>1, <1>2, <2>1 DEF SameReads, Request
  <2>2. CASE ~Active(k, c)
    BY <1>2, <2>2 DEF SameReads
  <2> QED
    BY <2>1, <2>2
<1> QED
  BY <1>4, <1>5 DEF Overtakes

LEMMA FiniteCounts ==
  ASSUME TypeOK, NEW c \in Contents
  PROVE  /\ IsFiniteSet(OpenItems(c)) /\ Cardinality(OpenItems(c)) \in Nat
         /\ IsFiniteSet(Inserting(c)) /\ Cardinality(Inserting(c)) \in Nat
         /\ IsFiniteSet(Submitters(c)) /\ Cardinality(Submitters(c)) \in Nat
<1>1. /\ DOMAIN items[c] = 1 .. Len(items[c]) /\ Len(items[c]) \in Nat
  BY DEF TypeOK
<1>2. IsFiniteSet(DOMAIN items[c])
  <2>1. PICK n \in Nat : n = Len(items[c])
    BY <1>1
  <2>2. 1 \in Int /\ n \in Int
    OBVIOUS
  <2>3. IsFiniteSet(1 .. n)
    BY <2>2, FS_Interval, Zenon
  <2> QED
    BY <1>1, <2>1, <2>3
<1>3. OpenItems(c) \subseteq DOMAIN items[c]
  BY DEF OpenItems
<1>4. Inserting(c) \subseteq Requests /\ Submitters(c) \subseteq Requests /\ IsFiniteSet(Requests)
  BY GovernanceAssumption DEF Inserting, Submitters
<1>5. IsFiniteSet(OpenItems(c)) /\ IsFiniteSet(Inserting(c)) /\ IsFiniteSet(Submitters(c))
  BY <1>2, <1>3, <1>4, FS_Subset
<1> QED
  BY <1>5, FS_CardinalityType

(* Neither a new open item nor a new request that inserts one. *)
LEMMA NoMore ==
  ASSUME TypeOK, NEW c \in Contents, Bounded(c), faults' \in Nat, faults' >= faults,
         OpenItems(c)' \subseteq OpenItems(c), Inserting(c)' \subseteq Inserting(c)
  PROVE  Bounded(c)'
<1>1. /\ IsFiniteSet(OpenItems(c)) /\ Cardinality(OpenItems(c)) \in Nat
      /\ IsFiniteSet(Inserting(c)) /\ Cardinality(Inserting(c)) \in Nat
      /\ Cardinality(Submitters(c)) \in Nat
  BY FiniteCounts
<1>2. /\ IsFiniteSet(OpenItems(c)') /\ Cardinality(OpenItems(c)') <= Cardinality(OpenItems(c))
      /\ IsFiniteSet(Inserting(c)') /\ Cardinality(Inserting(c)') <= Cardinality(Inserting(c))
  BY <1>1, FS_Subset
<1>3. Cardinality(OpenItems(c)') \in Nat /\ Cardinality(Inserting(c)') \in Nat
  BY <1>2, FS_CardinalityType
<1>4. Submitters(c)' = Submitters(c) /\ faults \in Nat
  BY GovernanceAssumption DEF Submitters, TypeOK
<1> QED
  BY <1>1, <1>2, <1>3, <1>4 DEF Bounded

LEMMA InitInv == Init => IInv
<1> SUFFICES ASSUME Init PROVE IInv
  OBVIOUS
<1>1. /\ \A h \in Requests : req[h] = Idle
      /\ \A c \in Contents : status[c] = "absent" /\ items[c] = <<>>
      /\ faults = 0
  BY DEF Init
<1>2. TypeOK
  BY <1>1, IdleType, GovernanceAssumption DEF Init, TypeOK
<1>3. RequestInv /\ ContentInv /\ VisibleWasApproved
  BY <1>1, IdleType DEF RequestInv, RequestFits, Undisturbed, ContentInv, VisibleWasApproved
<1>4. ASSUME NEW c \in Contents PROVE Bounded(c)
  <2>1. OpenItems(c) = {} /\ Inserting(c) = {}
    BY <1>1, IdleType DEF OpenItems, Inserting
  <2>2. Cardinality({}) = 0 /\ Cardinality(Submitters(c)) \in Nat
    BY <1>2, FS_EmptySet, FiniteCounts
  <2> QED
    BY <1>1, <2>1, <2>2 DEF Bounded
<1> QED
  BY <1>2, <1>3, <1>4 DEF IInv, BoundInv

-----------------------------------------------------------------------------
(* Steps that write no table, and steps that write one content's rows.     *)

(* A step of one request that writes no row. *)
LEMMA OwnStepInv ==
  ASSUME IInv, NEW h \in Requests, NEW r \in Request, req' = [req EXCEPT ![h] = r],
         UNCHANGED <<status, items, verdicts>>,
         faults' \in 0 .. MaxFaults, faults' >= faults,
         RequestFits(h)', r.step = "insert" => r.content \in Contents /\ Bounded(r.content)'
  PROVE  IInv'
<1> USE DEF IInv
<1>1. req'[h] = r /\ (\A k \in Requests \ {h} : req'[k] = req[k]) /\ TypeOK'
  BY DEF TypeOK
<1>2. ContentInv' /\ VisibleWasApproved'
  BY DEF ContentInv, VisibleWasApproved
<1>3. RequestInv'
  BY <1>1 DEF RequestInv, RequestFits, Undisturbed, RecordedAsDecided
<1>4. ASSUME NEW c \in Contents PROVE Bounded(c)'
  <2>1. CASE r.step = "insert" /\ r.content = c
    BY <2>1
  <2>2. CASE ~(r.step = "insert" /\ r.content = c)
    <3>1. Inserting(c)' \subseteq Inserting(c)
      BY <1>1, <2>2 DEF Inserting
    <3>2. OpenItems(c)' \subseteq OpenItems(c)
      BY DEF OpenItems
    <3>3. Bounded(c) /\ faults' \in Nat
      BY GovernanceAssumption DEF BoundInv
    <3> QED
      BY <3>1, <3>2, <3>3, NoMore
  <2> QED
    BY <2>1, <2>2
<1> QED
  BY <1>1, <1>2, <1>3, <1>4 DEF BoundInv

(* A write of a row of one content: whoever else had read one is disturbed. *)
LEMMA WriteInv ==
  ASSUME IInv, NEW h \in Requests, NEW c \in Contents, c = req[h].content,
         NEW next \in Request, Write(h, next), next.step # "insert",
         status' \in [Contents -> ContentStatuses \cup {"absent"}], status'[c] # "absent",
         items' \in [Contents -> Seq(Items)], DOMAIN items[c] \subseteq DOMAIN items'[c],
         verdicts' \in [Contents -> SUBSET Verdicts], verdicts[c] \subseteq verdicts'[c],
         \A d \in Contents \ {c} :
           status'[d] = status[d] /\ items'[d] = items[d] /\ verdicts'[d] = verdicts[d],
         faults' = faults, RequestFits(h)', Bounded(c)',
         status'[c] \in {"approved", "published", "archived"} => "approved" \in verdicts'[c]
  PROVE  IInv'
<1> USE DEF IInv
<1>1. /\ req' \in [Requests -> Request] /\ req'[h] = next
      /\ \A k \in Requests \ {h} :
           /\ SameReads(k)
           /\ Active(k, c) => req'[k].disturbed = TRUE
           /\ ~Active(k, c) => req'[k] = req[k]
  <2>1. TypeOK
    OBVIOUS
  <2>2. Overtakes(h, c, next)
    BY <2>1, WriteEffect
  <2> QED
    BY <2>2 DEF Overtakes
<1>2. TypeOK'
  BY <1>1 DEF TypeOK
<1>3. ContentInv' /\ VisibleWasApproved'
  BY DEF ContentInv, VisibleWasApproved
<1>4. ASSUME NEW k \in Requests \ {h} PROVE RequestFits(k)'
  <2>1. CASE Active(k, c)
    BY <1>1, <2>1 DEF RequestInv, RequestFits, SameReads, Active
  <2>2. CASE ~Active(k, c) /\ req[k].step # "idle"
    <3>1. req[k].content \in Contents \ {c}
      BY <2>2 DEF Active, TypeOK, Request
    <3>2. req'[k] = req[k] /\ RequestFits(k)
      BY <1>1, <2>2 DEF RequestInv
    <3> QED
      BY <3>1, <3>2 DEF RequestFits, Undisturbed, RecordedAsDecided
  <2>3. CASE req[k].step = "idle"
    BY <1>1, <2>3 DEF RequestFits, Undisturbed, SameReads
  <2> QED
    BY <2>1, <2>2, <2>3
<1>5. ASSUME NEW d \in Contents \ {c} PROVE Bounded(d)'
  <2>1. OpenItems(d)' \subseteq OpenItems(d)
    BY DEF OpenItems
  <2>2. Inserting(d)' \subseteq Inserting(d)
    BY <1>1 DEF Inserting, SameReads
  <2>3. Bounded(d) /\ faults' \in Nat /\ faults' >= faults
    BY GovernanceAssumption DEF BoundInv, TypeOK
  <2> QED
    BY <2>1, <2>2, <2>3, NoMore
<1> QED
  BY <1>2, <1>3, <1>4, <1>5 DEF RequestInv, BoundInv

(* The bound on the content written, when no item is added to it. *)
LEMMA WriteBounded ==
  ASSUME IInv, NEW h \in Requests, NEW c \in Contents, c = req[h].content,
         NEW next \in Request, Write(h, next), next.step # "insert",
         OpenItems(c)' \subseteq OpenItems(c), faults' = faults
  PROVE  Bounded(c)'
<1>1. Inserting(c)' \subseteq Inserting(c)
  <2>1. TypeOK
    BY DEF IInv
  <2>2. Overtakes(h, c, next)
    BY <2>1, WriteEffect
  <2> QED
    BY <2>2 DEF Overtakes, Inserting, SameReads
<1>2. Bounded(c) /\ faults' \in Nat /\ faults' >= faults
  BY GovernanceAssumption DEF IInv, BoundInv, TypeOK
<1> QED
  BY <1>1, <1>2, NoMore DEF IInv

-----------------------------------------------------------------------------
(* The steps of the content service.                                       *)

LEMMA CreateInv ==
  ASSUME IInv, NEW h \in Requests, NEW c \in Contents, Create(h, c)
  PROVE  IInv'
<1> USE DEF IInv
<1>1. /\ status[c] = "absent" /\ status' = [status EXCEPT ![c] = "draft"]
      /\ UNCHANGED <<items, verdicts, req, faults>>
  BY DEF Create
<1>2. status'[c] = "draft" /\ \A d \in Contents \ {c} : status'[d] = status[d]
  BY <1>1 DEF TypeOK
<1>3. TypeOK'
  BY <1>1 DEF TypeOK, ContentStatuses
<1>4. \A k \in Requests : req[k].step # "idle" => req[k].content \in Contents \ {c}
  BY <1>1 DEF RequestInv, RequestFits, TypeOK, Request
<1>5. RequestInv'
  BY <1>1, <1>2, <1>4 DEF RequestInv, RequestFits, Undisturbed, RecordedAsDecided
<1>6. ContentInv' /\ VisibleWasApproved'
  BY <1>1, <1>2 DEF ContentInv, VisibleWasApproved
<1>7. BoundInv'
  BY <1>1 DEF BoundInv, Bounded, OpenItems, Inserting, Submitters
<1> QED
  BY <1>3, <1>5, <1>6, <1>7

LEMMA BeginInv ==
  ASSUME IInv, NEW h \in Requests, NEW c \in Contents,
         NEW op \in {"edit", "submit", "retract", "publish", "archive"}, Begin(h, op, c)
  PROVE  IInv'
<1> USE DEF IInv
<1> DEFINE r == [Idle EXCEPT !.step = op, !.content = c]
<1>1. r \in Request /\ r.step = op /\ r.content = c
  BY IdleType DEF Request, Steps
<1>2. /\ req' = [req EXCEPT ![h] = r] /\ UNCHANGED <<status, items, verdicts, faults>>
      /\ status[c] = Allowed(op) /\ (op = "submit" => c \in Own[h])
  BY DEF Begin
<1> HIDE DEF r
<1>3. status[c] # "absent"
  BY <1>2 DEF Allowed
<1>4. op \in {"publish", "archive"} => "approved" \in verdicts[c]
  BY <1>2 DEF Allowed, VisibleWasApproved
<1>5. RequestFits(h)'
  <2>1. req'[h] = r
    BY <1>2 DEF TypeOK
  <2> QED
    BY <1>1, <1>2, <1>3, <1>4, <2>1 DEF RequestFits, Undisturbed
<1>6. faults' \in 0 .. MaxFaults /\ faults' >= faults
  BY <1>2, GovernanceAssumption DEF TypeOK
<1> QED
  BY <1>1, <1>2, <1>5, <1>6, OwnStepInv

(* A request at a step that waits for nothing but its own next statement.  *)
LEMMA QuietStepInv ==
  ASSUME IInv, NEW h \in Requests, NEW r \in Request, req' = [req EXCEPT ![h] = r],
         UNCHANGED <<status, items, verdicts, faults>>,
         \/ r = Idle
         \/ r.step = "undo" /\ r.content = req[h].content /\ req[h].step # "idle"
  PROVE  IInv'
<1>1. req'[h] = r
  BY DEF IInv, TypeOK
<1>2. RequestFits(h)'
  BY <1>1, IdleType DEF IInv, RequestInv, RequestFits, Undisturbed
<1>3. faults' \in 0 .. MaxFaults /\ faults' >= faults
  BY GovernanceAssumption DEF IInv, TypeOK
<1> QED
  BY <1>2, <1>3, IdleType, OwnStepInv

LEMMA FailInv ==
  ASSUME IInv, NEW h \in Requests, Fail(h) \/ InsertFails(h)
  PROVE  IInv'
<1>1. CASE Fail(h)
  BY <1>1, IdleType, QuietStepInv DEF Fail
<1>2. CASE InsertFails(h)
  <2> DEFINE r == [req[h] EXCEPT !.step = "undo"]
  <2>1. r \in Request /\ r.step = "undo" /\ r.content = req[h].content
    BY DEF IInv, TypeOK, Request, Steps
  <2>2. /\ req' = [req EXCEPT ![h] = r] /\ UNCHANGED <<status, items, verdicts, faults>>
        /\ req[h].step # "idle"
    BY <1>2 DEF InsertFails, IInv, TypeOK
  <2> HIDE DEF r
  <2> QED
    BY <2>1, <2>2, QuietStepInv
<1> QED
  BY <1>1, <1>2

(* A lookup lets a request insert an item if there is no open one, and     *)
(* then the requests that insert are submitters, or if it fails.           *)
LEMMA LookupInv ==
  ASSUME IInv, NEW h \in Requests, LookupItem(h) \/ LookupFails(h)
  PROVE  IInv'
<1>1. PICK c \in Contents : c = req[h].content
  BY DEF IInv, TypeOK, Request
<1>2. req[h].step = "lookup" /\ UNCHANGED <<status, items, verdicts>>
  BY DEF LookupItem, LookupFails
<1>3. CASE LookupItem(h) /\ OpenItems(c) # {}
  BY <1>1, <1>3, IdleType, QuietStepInv DEF LookupItem
<1>4. CASE LookupFails(h) \/ (LookupItem(h) /\ OpenItems(c) = {})
  <2> DEFINE r == [req[h] EXCEPT !.step = "insert"]
  <2>1. r \in Request /\ r.step = "insert" /\ r.content = c /\ r.disturbed = req[h].disturbed
    BY <1>1 DEF IInv, TypeOK, Request, Steps
  <2>2. req' = [req EXCEPT ![h] = r]
    BY <1>1, <1>4 DEF LookupItem, LookupFails, IInv, TypeOK
  <2> HIDE DEF r
  <2>3. req'[h] = r /\ \A k \in Requests \ {h} : req'[k] = req[k]
    BY <2>2 DEF IInv, TypeOK
  <2>4. /\ faults \in Nat /\ faults' \in 0 .. MaxFaults /\ faults' >= faults
        /\ LookupFails(h) => faults' = faults + 1
    BY <1>4, GovernanceAssumption DEF LookupItem, LookupFails, IInv, TypeOK
  <2>5. RequestFits(h) /\ c \in Own[h]
    BY <1>1, <1>2 DEF IInv, RequestInv, RequestFits
  <2>6. RequestFits(h)'
    BY <1>1, <1>2, <2>1, <2>3, <2>5 DEF RequestFits, Undisturbed
  <2>7. Inserting(c)' = Inserting(c) \cup {h} /\ OpenItems(c)' = OpenItems(c)
    BY <1>2, <2>1, <2>3 DEF Inserting, OpenItems
  <2>8. /\ IsFiniteSet(Inserting(c)) /\ Cardinality(Inserting(c)) \in Nat
        /\ IsFiniteSet(Submitters(c)) /\ Cardinality(Submitters(c)) \in Nat
        /\ Cardinality(OpenItems(c)) \in Nat
    BY FiniteCounts DEF IInv
  <2>9. Submitters(c)' = Submitters(c)
    BY DEF Submitters
  <2>10. Bounded(c)'
    <3>1. CASE LookupFails(h)
      <4>1. Cardinality(Inserting(c)') = Cardinality(Inserting(c)) + 1
        <5>1. h \notin Inserting(c)
          BY <1>2 DEF Inserting
        <5> QED
          BY <2>7, <2>8, <5>1, FS_AddElement
      <4> QED
        BY <2>4, <2>7, <2>8, <2>9, <3>1, <4>1 DEF IInv, BoundInv, Bounded
    <3>2. CASE OpenItems(c) = {}
      <4>1. Inserting(c)' \subseteq Submitters(c)
        BY <2>5, <2>7 DEF IInv, RequestInv, RequestFits, Inserting, Submitters
      <4>2. /\ Cardinality(Inserting(c)') <= Cardinality(Submitters(c))
            /\ Cardinality(Inserting(c)') \in Nat
        BY <2>8, <4>1, FS_Subset, FS_CardinalityType
      <4>3. Cardinality(OpenItems(c)') = 0
        BY <2>7, <3>2, FS_EmptySet
      <4> QED
        BY <2>4, <2>8, <2>9, <4>2, <4>3 DEF Bounded
    <3> QED
      BY <1>4, <3>1, <3>2
  <2> QED
    BY <1>2, <2>1, <2>2, <2>4, <2>6, <2>10, OwnStepInv
<1> QED
  BY <1>3, <1>4

(* An item is inserted: one more that is open, one request less at it.     *)
LEMMA InsertInv ==
  ASSUME IInv, NEW h \in Requests, InsertItem(h)
  PROVE  IInv'
<1> USE DEF IInv
<1> DEFINE new == [status |-> "pending", decision |-> "none"]
<1>1. PICK c \in Contents : c = req[h].content
  BY DEF TypeOK, Request
<1>2. /\ req[h].step = "insert" /\ items' = [items EXCEPT ![c] = Append(items[c], new)]
      /\ Write(h, Idle) /\ UNCHANGED <<status, verdicts, faults>>
  BY <1>1 DEF InsertItem
<1>3. new \in Items /\ new.status # "decided"
  BY DEF Items
<1>4. /\ items' \in [Contents -> Seq(Items)] /\ items[c] \in Seq(Items)
      /\ items'[c] = Append(items[c], new) /\ \A d \in Contents \ {c} : items'[d] = items[d]
  BY <1>2, <1>3 DEF TypeOK
<1> HIDE DEF new
<1>5. /\ DOMAIN items'[c] = DOMAIN items[c] \cup {Len(items[c]) + 1}
      /\ Len(items[c]) + 1 \notin DOMAIN items[c]
      /\ items'[c][Len(items[c]) + 1] = new
      /\ \A i \in DOMAIN items[c] : items'[c][i] = items[c][i]
  BY <1>3, <1>4
<1>6. OpenItems(c)' = OpenItems(c) \cup {Len(items[c]) + 1} /\ Len(items[c]) + 1 \notin OpenItems(c)
  BY <1>3, <1>5 DEF OpenItems
<1>7. /\ req'[h] = Idle
      /\ \A k \in Requests \ {h} : SameReads(k)
  <2>1. Overtakes(h, c, Idle)
    BY <1>1, <1>2, IdleType, WriteEffect
  <2> QED
    BY <2>1 DEF Overtakes
<1>8. Inserting(c)' = Inserting(c) \ {h} /\ h \in Inserting(c)
  BY <1>1, <1>2, <1>7, IdleType DEF Inserting, SameReads
<1>9. Bounded(c)'
  <2>1. /\ IsFiniteSet(OpenItems(c)) /\ Cardinality(OpenItems(c)) \in Nat
        /\ IsFiniteSet(Inserting(c)) /\ Cardinality(Inserting(c)) \in Nat
        /\ Cardinality(Submitters(c)) \in Nat
    BY FiniteCounts
  <2>2. Cardinality(OpenItems(c)') = Cardinality(OpenItems(c)) + 1
    BY <1>6, <2>1, FS_AddElement
  <2>3. Cardinality(Inserting(c)') = Cardinality(Inserting(c)) - 1
    BY <1>8, <2>1, FS_RemoveElement
  <2>4. Submitters(c)' = Submitters(c) /\ faults' = faults /\ faults \in Nat
    BY <1>2, GovernanceAssumption DEF Submitters, TypeOK
  <2> QED
    BY <2>1, <2>2, <2>3, <2>4 DEF BoundInv, Bounded
<1>10. RequestFits(h)'
  BY <1>7, IdleType DEF RequestFits, Undisturbed
<1>11. status[c] # "absent"
  BY <1>1, <1>2 DEF RequestInv, RequestFits
<1> QED
  BY <1>1, <1>2, <1>4, <1>5, <1>9, <1>10, <1>11, IdleType, WriteInv DEF TypeOK, VisibleWasApproved

(* A status written to the content, after which its requests are disturbed. *)
LEMMA WriteContentInv ==
  ASSUME IInv, NEW h \in Requests, WriteContent(h) \/ SubmitContent(h)
  PROVE  IInv'
<1> USE DEF IInv
<1>1. PICK c \in Contents, new \in ContentStatuses, next \in Request :
        /\ c = req[h].content /\ status' = [status EXCEPT ![c] = new]
        /\ Write(h, next) /\ UNCHANGED <<items, verdicts, faults>>
        /\ req[h].step # "idle"
        /\ new \in {"approved", "published", "archived"} => req[h].step \in {"publish", "archive"}
        /\ \/ next = Idle
           \/ /\ next.step = "lookup" /\ next.content = c
              /\ new = "pending_review" /\ req[h].step = "submit"
  <2>1. req[h].content \in Contents /\ req[h] \in Request
    BY DEF TypeOK, Request
  <2>2. CASE WriteContent(h)
    <3>1. Written(req[h].step) \in ContentStatuses
      BY <2>2 DEF WriteContent, Written, ContentStatuses
    <3>2. Written(req[h].step) \in {"approved", "published", "archived"}
            => req[h].step \in {"publish", "archive"}
      BY <2>2 DEF WriteContent, Written
    <3> QED
      BY <2>1, <2>2, <3>1, <3>2, IdleType DEF WriteContent
  <2>3. CASE SubmitContent(h)
    <3>1. /\ [req[h] EXCEPT !.step = "lookup"] \in Request
          /\ [req[h] EXCEPT !.step = "lookup"].step = "lookup"
          /\ [req[h] EXCEPT !.step = "lookup"].content = req[h].content
      BY <2>1 DEF Request, Steps
    <3>2. "pending_review" \in ContentStatuses
      BY DEF ContentStatuses
    <3> QED
      BY <2>1, <2>3, <3>1, <3>2 DEF SubmitContent
  <2> QED
    BY <2>2, <2>3
<1>2. /\ status'[c] = new /\ \A d \in Contents \ {c} : status'[d] = status[d]
      /\ status' \in [Contents -> ContentStatuses \cup {"absent"}] /\ new # "absent"
  BY <1>1 DEF TypeOK, ContentStatuses
<1>3. next.step # "insert"
  BY <1>1, IdleType
<1>4. req'[h] = next
  BY <1>1 DEF Write
<1>5. RequestFits(h)'
  BY <1>1, <1>2, <1>4, IdleType DEF RequestInv, RequestFits, Undisturbed
<1>6. new \in {"approved", "published", "archived"} => "approved" \in verdicts'[c]
  BY <1>1 DEF RequestInv, RequestFits
<1>7. Bounded(c)'
  <2>1. OpenItems(c)' \subseteq OpenItems(c)
    BY <1>1 DEF OpenItems
  <2> QED
    BY <1>1, <1>3, <2>1, WriteBounded
<1> QED
  BY <1>1, <1>2, <1>3, <1>5, <1>6, <1>7, WriteInv DEF TypeOK

-----------------------------------------------------------------------------
(* The steps of the moderation service.                                    *)

LEMMA BeginModerationInv ==
  ASSUME IInv, NEW h \in Requests, NEW c \in Contents, NEW i \in DOMAIN items[c],
         BeginAssign(h, c, i) \/ \E v \in Verdicts : BeginDecide(h, c, i, v)
  PROVE  IInv'
<1>1. i \in Nat
  BY DEF IInv, TypeOK
<1>2. PICK r \in Request :
        /\ req' = [req EXCEPT ![h] = r] /\ UNCHANGED <<status, items, verdicts, faults>>
        /\ r.step \in {"assign", "decide"} /\ r.content = c /\ r.item = i
        /\ items[c][i].status # "decided"
  <2>1. CASE BeginAssign(h, c, i)
    <3> DEFINE r == [Idle EXCEPT !.step = "assign", !.content = c, !.item = i]
    <3>1. r \in Request /\ r.step = "assign" /\ r.content = c /\ r.item = i
      BY <1>1, IdleType DEF Request, Steps
    <3>2. req' = [req EXCEPT ![h] = r]
      BY <2>1 DEF BeginAssign
    <3> HIDE DEF r
    <3> QED
      BY <2>1, <3>1, <3>2 DEF BeginAssign, Undecided
  <2>2. ASSUME NEW v \in Verdicts, BeginDecide(h, c, i, v)
        PROVE  \E r \in Request :
                 /\ req' = [req EXCEPT ![h] = r] /\ UNCHANGED <<status, items, verdicts, faults>>
                 /\ r.step \in {"assign", "decide"} /\ r.content = c /\ r.item = i
                 /\ items[c][i].status # "decided"
    <3> DEFINE r == [Idle EXCEPT !.step = "decide", !.content = c, !.item = i, !.verdict = v]
    <3>1. r \in Request /\ r.step = "decide" /\ r.content = c /\ r.item = i
      BY <1>1, IdleType DEF Request, Steps
    <3>2. req' = [req EXCEPT ![h] = r]
      BY <2>2 DEF BeginDecide
    <3> HIDE DEF r
    <3> QED
      BY <2>2, <3>1, <3>2 DEF BeginDecide, Undecided
  <2> QED
    BY <2>1, <2>2
<1>3. req'[h] = r
  BY <1>2 DEF IInv, TypeOK
<1>4. status[c] # "absent"
  BY DEF IInv, ContentInv
<1>5. RequestFits(h)'
  BY <1>2, <1>3, <1>4 DEF RequestFits, Undisturbed
<1>6. faults' \in 0 .. MaxFaults /\ faults' >= faults
  BY <1>2, GovernanceAssumption DEF IInv, TypeOK
<1> QED
  BY <1>2, <1>5, <1>6, OwnStepInv

(* A write of an item: it is never opened again. *)
LEMMA WriteItemInv ==
  ASSUME IInv, NEW h \in Requests, AssignItem(h) \/ DecideItem(h)
  PROVE  IInv'
<1> USE DEF IInv
<1>1. PICK c \in Contents : c = req[h].content
  BY DEF TypeOK, Request
<1> DEFINE i == req[h].item
           old == items[c][i]
<1>2. /\ i \in DOMAIN items[c] /\ old \in Items /\ items[c] \in Seq(Items)
      /\ status[c] # "absent" /\ req[h] \in Request /\ req[h].verdict \in Verdicts
      /\ RequestFits(h)
  BY <1>1 DEF AssignItem, DecideItem, RequestInv, RequestFits, TypeOK, Request
<1>3. PICK new \in Items, next \in Request :
        /\ items' = [items EXCEPT ![c] = [items[c] EXCEPT ![i] = new]]
        /\ Write(h, next) /\ UNCHANGED <<status, verdicts, faults>>
        /\ old.status = "decided" => new = old
        /\ \/ next = Idle
           \/ /\ next.step = "verdict" /\ next.content = c /\ next.item = i
              /\ next.disturbed = req[h].disturbed /\ next.verdict = req[h].verdict
              /\ new = Decide(old, req[h].verdict) /\ req[h].step = "decide"
  <2>1. CASE AssignItem(h)
    <3> DEFINE new == IF old.status # "decided" THEN [old EXCEPT !.status = "in_review"] ELSE old
    <3>1. new \in Items
      BY <1>2 DEF Items
    <3>2. items' = [items EXCEPT ![c] = [items[c] EXCEPT ![i] = new]]
      BY <1>1, <1>2, <2>1 DEF AssignItem, TypeOK
    <3>3. old.status = "decided" => new = old
      OBVIOUS
    <3> HIDE DEF new
    <3> QED
      BY <2>1, <3>1, <3>2, <3>3, IdleType DEF AssignItem
  <2>2. CASE DecideItem(h)
    <3> DEFINE new == Decide(old, req[h].verdict)
               next == [req[h] EXCEPT !.step = "verdict"]
    <3>1. new \in Items /\ (old.status = "decided" => new = old)
      BY <1>2 DEF Items, Decide
    <3>2. items' = [items EXCEPT ![c] = [items[c] EXCEPT ![i] = new]]
      BY <1>1, <1>2, <2>2 DEF DecideItem, TypeOK
    <3>3. /\ next \in Request /\ next.step = "verdict" /\ next.content = c /\ next.item = i
          /\ next.disturbed = req[h].disturbed /\ next.verdict = req[h].verdict
      BY <1>1, <1>2 DEF Request, Steps
    <3>4. Write(h, next) /\ UNCHANGED <<status, verdicts, faults>> /\ req[h].step = "decide"
      BY <2>2 DEF DecideItem
    <3>5. new = Decide(old, req[h].verdict)
      OBVIOUS
    <3> HIDE DEF new, next
    <3> QED
      BY <3>1, <3>2, <3>3, <3>4, <3>5
  <2> QED
    BY <2>1, <2>2
<1>4. PICK n \in DOMAIN items[c] : n = req[h].item
  BY <1>2
<1>5. /\ items' \in [Contents -> Seq(Items)] /\ DOMAIN items'[c] = DOMAIN items[c]
      /\ items'[c][n] = new /\ \A m \in DOMAIN items[c] \ {n} : items'[c][m] = items[c][m]
      /\ \A d \in Contents \ {c} : items'[d] = items[d]
  <2>1. items'[c] = [items[c] EXCEPT ![n] = new] /\ \A d \in Contents \ {c} : items'[d] = items[d]
    BY <1>3, <1>4 DEF TypeOK
  <2>2. [items[c] EXCEPT ![n] = new] \in Seq(Items)
    BY <1>2, <1>3
  <2> QED
    BY <1>2, <1>3, <1>4, <2>1, <2>2 DEF TypeOK
<1>6. req'[h] = next /\ next.step # "insert"
  BY <1>3, IdleType DEF Write
<1>7. old = items[c][n]
  BY <1>4
<1>8. RequestFits(h)'
  <2>1. CASE next = Idle
    BY <1>6, <2>1, IdleType DEF RequestFits, Undisturbed
  <2>2. CASE next # Idle
    <3>1. /\ next.step = "verdict" /\ next.content = c /\ next.item = n
          /\ next.disturbed = req[h].disturbed /\ next.verdict = req[h].verdict
          /\ new = Decide(old, req[h].verdict) /\ req[h].step = "decide"
      BY <1>3, <1>4, <2>2
    <3>2. ~next.disturbed => new = [status |-> "decided", decision |-> req[h].verdict]
      <4>1. ~next.disturbed => old.status # "decided"
        BY <1>1, <1>2, <3>1 DEF RequestFits, Undisturbed
      <4> QED
        BY <1>2, <3>1, <4>1 DEF Decide, Items
    <3>3. ~next.disturbed => RecordedAsDecided(h)'
      BY <1>5, <1>6, <3>1, <3>2 DEF RecordedAsDecided
    <3> QED
      BY <1>2, <1>3, <1>5, <1>6, <3>1, <3>3 DEF RequestFits, Undisturbed
  <2> QED
    BY <2>1, <2>2
<1>9. Bounded(c)'
  <2>1. OpenItems(c)' \subseteq OpenItems(c)
    BY <1>3, <1>5, <1>7 DEF OpenItems
  <2> QED
    BY <1>1, <1>3, <1>6, <2>1, WriteBounded
<1> HIDE DEF i, old
<1> QED
  BY <1>1, <1>2, <1>3, <1>5, <1>6, <1>8, <1>9, WriteInv DEF TypeOK, VisibleWasApproved

LEMMA CarryVerdictInv ==
  ASSUME IInv, NEW h \in Requests, CarryVerdict(h)
  PROVE  IInv'
<1> USE DEF IInv
<1>1. PICK c \in Contents, v \in Verdicts :
        /\ c = req[h].content /\ status' = [status EXCEPT ![c] = v]
        /\ verdicts' = [verdicts EXCEPT ![c] = verdicts[c] \cup {v}]
        /\ Write(h, Idle) /\ UNCHANGED <<items, faults>>
  <2>1. req[h].content \in Contents /\ req[h].verdict \in Verdicts
    BY DEF TypeOK, Request
  <2> QED
    BY <2>1 DEF CarryVerdict
<1>2. /\ status'[c] = v /\ verdicts'[c] = verdicts[c] \cup {v} /\ v # "absent"
      /\ \A d \in Contents \ {c} : status'[d] = status[d] /\ verdicts'[d] = verdicts[d]
      /\ status' \in [Contents -> ContentStatuses \cup {"absent"}]
      /\ verdicts' \in [Contents -> SUBSET Verdicts]
  BY <1>1 DEF TypeOK, ContentStatuses, Verdicts
<1>3. RequestFits(h)'
  <2>1. req'[h] = Idle
    BY <1>1 DEF Write
  <2> QED
    BY <2>1, IdleType DEF RequestFits, Undisturbed
<1>4. Bounded(c)'
  <2>1. OpenItems(c)' \subseteq OpenItems(c)
    BY <1>1 DEF OpenItems
  <2> QED
    BY <1>1, <2>1, IdleType, WriteBounded
<1>5. status'[c] \in {"approved", "published", "archived"} => "approved" \in verdicts'[c]
  BY <1>2 DEF Verdicts
<1> QED
  BY <1>1, <1>2, <1>3, <1>4, <1>5, IdleType, WriteInv DEF TypeOK

LEMMA NextInv == IInv /\ [Next]_vars => IInv'
<1> SUFFICES ASSUME IInv, [Next]_vars PROVE IInv'
  OBVIOUS
<1>1. CASE ContentNext
  <2>1. ASSUME NEW h \in Requests, WriteContent(h) \/ SubmitContent(h) PROVE IInv'
    BY <2>1, WriteContentInv
  <2>2. ASSUME NEW h \in Requests, LookupItem(h) \/ LookupFails(h) PROVE IInv'
    BY <2>2, LookupInv
  <2> QED
    BY <1>1, <2>1, <2>2, CreateInv, BeginInv, InsertInv, FailInv DEF ContentNext
<1>2. CASE ModerationNext
  <2>1. ASSUME NEW h \in Requests, AssignItem(h) \/ DecideItem(h) PROVE IInv'
    BY <2>1, WriteItemInv
  <2> QED
    BY <1>2, <2>1, BeginModerationInv, CarryVerdictInv DEF ModerationNext
<1>3. ASSUME NEW h \in Requests, Fail(h) PROVE IInv'
  BY <1>3, FailInv
<1>4. CASE UNCHANGED vars
  BY <1>4 DEF vars, IInv, TypeOK, RequestInv, RequestFits, Undisturbed, RecordedAsDecided, ContentInv,
              BoundInv, Bounded, OpenItems, Inserting, Submitters, VisibleWasApproved
<1> QED
  BY <1>1, <1>2, <1>3, <1>4 DEF Next

-----------------------------------------------------------------------------
(* What governance promises.                                               *)

(* The inductive invariant holds throughout. *)
THEOREM Invariance == Spec => []IInv
BY InitInv, NextInv, PTL DEF Spec

(* Type correctness of the tables and the requests. *)
THEOREM TypeCorrect == Spec => []TypeOK
<1>1. IInv => TypeOK
  BY DEF IInv
<1> QED
  BY <1>1, Invariance, PTL

(* No content becomes visible without an approval carried to it, whatever  *)
(* stale writes come between.                                              *)
THEOREM ApprovedBeforeVisible == Spec => []VisibleWasApproved
<1>1. IInv => VisibleWasApproved
  BY DEF IInv
<1> QED
  BY <1>1, Invariance, PTL

(* Duplicate open items are bounded by submitters and failed lookups. *)
THEOREM OpenItemsAreFew == Spec => []OpenItemsBounded
<1>1. IInv => OpenItemsBounded
  BY DEF IInv, BoundInv, Bounded, OpenItemsBounded, OpenItems
<1> QED
  BY <1>1, Invariance, PTL

(* Decisions stay, an undisturbed verdict is the one on record, and an     *)
(* undisturbed submission ends with an item a moderator finds.             *)
THEOREM TruthfulQueue == Spec => QueueIsTruthful
<1> DEFINE Kept == \A c \in Contents : \A i \in DOMAIN items[c] :
                     /\ i \in DOMAIN items'[c]
                     /\ items[c][i].status = "decided" => items'[c][i] = items[c][i]
           Ends == \A h \in Requests : ~req[h].disturbed =>
                     /\ CarryVerdict(h) => RecordedAsDecided(h)
                     /\ (LookupItem(h) \/ InsertItem(h)) /\ req'[h].step = "idle"
                          => QueuedNext(req[h].content)
<1>1. IInv /\ [Next]_vars => [Kept]_vars
  <2> SUFFICES ASSUME IInv, Next PROVE Kept
    BY DEF vars
  <2>1. ASSUME UNCHANGED items PROVE Kept
    BY <2>1
  <2>2. ASSUME NEW h \in Requests, AssignItem(h) PROVE Kept
    BY <2>2 DEF AssignItem, IInv, TypeOK
  <2>3. ASSUME NEW h \in Requests, DecideItem(h) PROVE Kept
    BY <2>3 DEF DecideItem, Decide, IInv, TypeOK
  <2>4. ASSUME NEW h \in Requests, InsertItem(h) PROVE Kept
    <3>1. PICK c \in Contents : c = req[h].content
      BY DEF IInv, TypeOK, Request
    <3>2. PICK new : items' = [items EXCEPT ![c] = Append(items[c], new)]
      BY <2>4, <3>1 DEF InsertItem
    <3>3. items'[c] = Append(items[c], new) /\ \A d \in Contents \ {c} : items'[d] = items[d]
      BY <3>2 DEF IInv, TypeOK
    <3>4. items[c] \in Seq(Items)
      BY DEF IInv, TypeOK
    <3>5. \A i \in DOMAIN items[c] : i \in DOMAIN items'[c] /\ items'[c][i] = items[c][i]
      BY <3>3, <3>4
    <3> QED
      BY <3>3, <3>5
  <2>5. CASE ContentNext
    BY <2>1, <2>4, <2>5 DEF ContentNext, Create, Begin, WriteContent, SubmitContent, LookupItem,
                            LookupFails, InsertFails
  <2>6. CASE ModerationNext
    BY <2>1, <2>2, <2>3, <2>6 DEF ModerationNext, BeginAssign, BeginDecide, CarryVerdict
  <2>7. ASSUME NEW h \in Requests, Fail(h) PROVE Kept
    BY <2>1, <2>7 DEF Fail
  <2> QED
    BY <2>5, <2>6, <2>7 DEF Next
<1>2. IInv => Ends
  <2> SUFFICES ASSUME IInv, NEW h \in Requests, ~req[h].disturbed
               PROVE  /\ CarryVerdict(h) => RecordedAsDecided(h)
                      /\ (LookupItem(h) \/ InsertItem(h)) /\ req'[h].step = "idle"
                           => QueuedNext(req[h].content)
    OBVIOUS
  <2>1. PICK c \in Contents : c = req[h].content
    BY DEF IInv, TypeOK, Request
  <2>2. Undisturbed(h)
    BY DEF IInv, RequestInv, RequestFits
  <2>3. CarryVerdict(h) => RecordedAsDecided(h)
    BY <2>2 DEF CarryVerdict, Undisturbed
  <2>4. ASSUME LookupItem(h), req'[h].step = "idle" PROVE QueuedNext(c)
    <3>1. OpenItems(c) # {}
      BY <2>1, <2>4 DEF LookupItem, IInv, TypeOK, Request
    <3> QED
      BY <2>1, <2>2, <2>4, <3>1 DEF LookupItem, Undisturbed, QueuedNext, OpenItems
  <2>5. ASSUME InsertItem(h) PROVE QueuedNext(c)
    <3> DEFINE new == [status |-> "pending", decision |-> "none"]
    <3>1. /\ items'[c] = Append(items[c], new) /\ items[c] \in Seq(Items)
          /\ status' = status /\ status[c] = "pending_review"
      BY <2>1, <2>2, <2>5 DEF InsertItem, IInv, TypeOK, Undisturbed
    <3>2. new.status # "decided"
      OBVIOUS
    <3> HIDE DEF new
    <3>3. Len(items[c]) + 1 \in DOMAIN items'[c] /\ items'[c][Len(items[c]) + 1] = new
      BY <3>1
    <3> QED
      BY <3>1, <3>2, <3>3 DEF QueuedNext
  <2> QED
    BY <2>1, <2>3, <2>4, <2>5
<1>3. IInv /\ [Next]_vars => [Kept /\ Ends]_vars
  BY <1>1, <1>2
<1> QED
  BY <1>3, Invariance, PTL DEF Spec, QueueIsTruthful
=============================================================================
