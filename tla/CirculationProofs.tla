-------------------------- MODULE CirculationProofs --------------------------
(***************************************************************************)
(* Proofs about Circulation, for every value of its constants.             *)
(***************************************************************************)
EXTENDS Circulation, TLAPS

-----------------------------------------------------------------------------
(* Types.                                                                  *)

LEMMA IdleType == Idle \in Request /\ Idle.step = "idle"
BY CirculationAssumption DEF Idle, Request, Steps

(* What a commit does to the requests: its own ends, the others go on with *)
(* what they have read.                                                    *)
SameReads(k) ==
  /\ req'[k].step = req[k].step /\ req'[k].op = req[k].op
  /\ req'[k].copy = req[k].copy /\ req'[k].reader = req[k].reader

LEMMA DisturbEffect ==
  ASSUME req \in [Requests -> Request], NEW h \in Requests, NEW c \in Copies, Disturb(h, c)
  PROVE  /\ req' \in [Requests -> Request]
         /\ req'[h] = Idle
         /\ \A k \in Requests \ {h} :
              /\ SameReads(k)
              /\ req'[k].disturbed = (req[k].disturbed \/ (req[k].step # "idle" /\ req[k].copy = c))
<1>1. \A k \in Requests : req[k] \in Request
  OBVIOUS
<1>2. \A k \in Requests : [req[k] EXCEPT !.disturbed = TRUE] \in Request
  BY <1>1 DEF Request
<1>3. req' = [k \in Requests |->
                IF k = h THEN Idle
                ELSE IF req[k].step # "idle" /\ req[k].copy = c
                     THEN [req[k] EXCEPT !.disturbed = TRUE] ELSE req[k]]
  BY DEF Disturb
<1>4. req' \in [Requests -> Request]
  BY <1>1, <1>2, <1>3, IdleType
<1>5. req'[h] = Idle
  BY <1>3
<1>6. ASSUME NEW k \in Requests \ {h}
      PROVE  /\ SameReads(k)
             /\ req'[k].disturbed = (req[k].disturbed \/ (req[k].step # "idle" /\ req[k].copy = c))
  <2>1. req[k].disturbed \in BOOLEAN
    BY <1>1 DEF Request
  <2>2. CASE req[k].step # "idle" /\ req[k].copy = c
    BY <1>1, <1>3, <2>2 DEF SameReads, Request
  <2>3. CASE ~(req[k].step # "idle" /\ req[k].copy = c)
    <3>1. req'[k] = req[k]
      BY <1>3, <2>3
    <3> QED
      BY <2>1, <2>3, <3>1 DEF SameReads
  <2> QED
    BY <2>2, <2>3
<1> QED
  BY <1>4, <1>5, <1>6

LEMMA InitType == Init => TypeOK
BY IdleType, CirculationAssumption DEF Init, TypeOK, CopyStatuses

(* The steps of a request before its transaction. *)
Lookups(h) ==
  \/ \E c \in Copies, r \in Readers : BeginCheckout(h, c, r)
  \/ \E c \in Copies : BeginReturn(h, c)
  \/ ReadActive(h)

LEMMA LookupType ==
  ASSUME TypeOK, NEW h \in Requests, Lookups(h)
  PROVE  req' \in [Requests -> Request]
<1>0. req \in [Requests -> Request]
  BY DEF TypeOK
<1>1. ASSUME NEW c \in Copies, NEW r \in Readers, BeginCheckout(h, c, r)
      PROVE  req' \in [Requests -> Request]
  BY <1>0, <1>1, IdleType DEF BeginCheckout, Request, Steps
<1>2. ASSUME NEW c \in Copies, BeginReturn(h, c) PROVE req' \in [Requests -> Request]
  BY <1>0, <1>2, IdleType DEF BeginReturn, Request, Steps
<1>3. CASE ReadActive(h)
  <2>1. PICK r \in ActiveCheckout(req[h].copy) :
          req' = [req EXCEPT ![h].step = "lock", ![h].reader = r, ![h].disturbed = FALSE]
    BY <1>3 DEF ReadActive
  <2>2. r \in Readers
    BY DEF ActiveCheckout
  <2>3. [req[h] EXCEPT !.step = "lock", !.reader = r, !.disturbed = FALSE] \in Request
    BY <1>0, <2>2 DEF Request, Steps
  <2>4. req' = [req EXCEPT ![h] = [req[h] EXCEPT !.step = "lock", !.reader = r, !.disturbed = FALSE]]
    BY <1>0, <2>1
  <2> QED
    BY <1>0, <2>3, <2>4
<1> QED
  BY <1>1, <1>2, <1>3 DEF Lookups

LEMMA NextType == ASSUME TypeOK, [Next]_vars PROVE TypeOK'
<1>0. /\ req \in [Requests -> Request]
      /\ copyLock \in [Copies -> Requests \cup {NoRequest}]
      /\ status \in [Copies -> CopyStatuses \cup {"absent"}]
  BY DEF TypeOK
<1>1. ASSUME NEW h \in Requests, Lookups(h) PROVE TypeOK'
  <2>1. UNCHANGED <<tableVars, copyLock, edits>>
    BY <1>1 DEF Lookups, BeginCheckout, BeginReturn, ReadActive
  <2> QED
    BY <1>1, <2>1, LookupType DEF TypeOK, tableVars
<1>2. ASSUME NEW h \in Requests, LockCopy(h) PROVE TypeOK'
  BY <1>0, <1>2 DEF LockCopy, TypeOK, Request, Steps, tableVars
<1>3. ASSUME NEW h \in Requests, CommitCheckout(h) PROVE TypeOK'
  <2>1. req[h].copy \in Copies /\ req[h].reader \in Readers
    BY <1>0 DEF Request
  <2>2. req' \in [Requests -> Request]
    BY <1>0, <1>3, <2>1, DisturbEffect DEF CommitCheckout
  <2>3. open' \in [Copies -> [Readers -> Nat]]
    BY <1>3, <2>1 DEF CommitCheckout, TypeOK
  <2> QED
    BY <1>0, <1>3, <2>2, <2>3 DEF CommitCheckout, TypeOK, CopyStatuses
<1>4. ASSUME NEW h \in Requests, CommitReturn(h) PROVE TypeOK'
  <2>1. req[h].copy \in Copies /\ req[h].reader \in Readers
    BY <1>0 DEF Request
  <2>2. req' \in [Requests -> Request]
    BY <1>0, <1>4, <2>1, DisturbEffect DEF CommitReturn
  <2>3. returned' \in [Copies -> [Readers -> Nat]]
    BY <1>4, <2>1 DEF CommitReturn, TypeOK
  <2>4. open' \in [Copies -> [Readers -> Nat]]
    BY <1>4, <2>1 DEF CommitReturn, TypeOK
  <2>5. closed' \in [Copies -> [Readers -> Nat]]
    BY <1>4, <2>1 DEF CommitReturn, TypeOK
  <2> QED
    BY <1>0, <1>4, <2>2, <2>3, <2>4, <2>5 DEF CommitReturn, TypeOK, CopyStatuses, ReturnedStatus
<1>5. ASSUME NEW h \in Requests, Refuse(h) \/ Fail(h) PROVE TypeOK'
  <2>1. Rollback(h)
    BY <1>5 DEF Refuse, Fail
  <2> QED
    BY <1>0, <2>1, IdleType DEF Rollback, TypeOK, tableVars
<1>6. ASSUME NEW c \in Copies, NEW s \in StaffStatuses, AddCopy(c, s) PROVE TypeOK'
  BY <1>0, <1>6, CirculationAssumption DEF AddCopy, Edit, TypeOK
<1>7. ASSUME NEW c \in Copies, NEW s \in DirectlySettable, UpdateCopyStatus(c, s) PROVE TypeOK'
  <2>1. req' \in [Requests -> Request]
    BY <1>0, <1>7 DEF UpdateCopyStatus, Request
  <2> QED
    BY <1>0, <1>7, <2>1, CirculationAssumption
    DEF UpdateCopyStatus, Edit, TypeOK, DirectlySettable
<1>8. CASE UNCHANGED vars
  BY <1>8 DEF vars, tableVars, TypeOK
<1> QED
  BY <1>1, <1>2, <1>3, <1>4, <1>5, <1>6, <1>7, <1>8
  DEF Next, RequestNext, RequestStep, StaffNext, Lookups

(* Every table, lock and request keeps its type. *)
THEOREM TypeCorrect == Spec => []TypeOK
BY InitType, NextType, PTL DEF Spec

-----------------------------------------------------------------------------
(* The inductive invariant.                                                *)

(* A copy row is locked by a request exactly between its SELECT ... FOR    *)
(* UPDATE and its end, and has the status that request asked for.          *)
LockInv ==
  /\ \A c \in Copies : copyLock[c] # NoRequest =>
       req[copyLock[c]].step = "write" /\ req[copyLock[c]].copy = c
  /\ \A h \in Requests : req[h].step = "write" =>
       copyLock[req[h].copy] = h /\ status[req[h].copy] = Required(h)

(* A copy that was not added has no loans; one a request has found was     *)
(* added.                                                                  *)
AddedInv ==
  /\ \A c \in Copies : status[c] = "absent" => Borrowers(c) = {} /\ ~overridden[c]
  /\ \A h \in Requests : req[h].step # "idle" => status[req[h].copy] # "absent"

(* A return found a loan: it is still open, or all loans were closed since *)
(* and the copy not lent again.                                            *)
Found(h) == req[h].op = "return" /\ req[h].step \in {"lock", "write"}
Holds(h, c) ==
  /\ status[c] = "checked_out" => Borrowers(c) # {}
  /\ ~req[h].disturbed => req[h].reader \in Borrowers(c)
ReturnInv == \A h \in Requests, c \in Copies : Found(h) /\ c = req[h].copy => Holds(h, c)

IInv == TypeOK /\ LockInv /\ AddedInv /\ LoanMatchesStatus /\ ReturnInv

LEMMA InitInv == Init => IInv
<1> SUFFICES ASSUME Init PROVE IInv
  OBVIOUS
<1>1. \A h \in Requests : req[h].step = "idle"
  BY IdleType DEF Init
<1>2. \A c \in Copies : Borrowers(c) = {} /\ copyLock[c] = NoRequest /\ ~overridden[c]
  BY DEF Init, Borrowers
<1>3. \A c \in Copies : status[c] # "checked_out"
  BY DEF Init
<1>4. TypeOK
  BY InitType
<1> QED
  BY <1>1, <1>2, <1>3, <1>4
  DEF IInv, LockInv, AddedInv, LoanMatchesStatus, ReturnInv, Found

(* A lookup leaves the tables and the lock alone, and what it found holds. *)
LEMMA LookupInv == ASSUME IInv, NEW h \in Requests, Lookups(h) PROVE IInv'
<1>0. req \in [Requests -> Request] /\ req' \in [Requests -> Request]
  BY LookupType DEF IInv, TypeOK
<1>1. UNCHANGED <<status, open, closed, returned, overridden, copyLock, edits>>
  BY DEF Lookups, BeginCheckout, BeginReturn, ReadActive, tableVars
<1>2. \A k \in Requests \ {h} : req'[k] = req[k]
  BY <1>0 DEF Lookups, BeginCheckout, BeginReturn, ReadActive
<1>3. req[h].step # "write" /\ req'[h].step # "write"
  <2>1. ASSUME NEW c \in Copies, NEW r \in Readers, BeginCheckout(h, c, r)
        PROVE  req[h].step # "write" /\ req'[h].step # "write"
    BY <1>0, <2>1 DEF BeginCheckout, Idle
  <2>2. ASSUME NEW c \in Copies, BeginReturn(h, c)
        PROVE  req[h].step # "write" /\ req'[h].step # "write"
    BY <1>0, <2>2 DEF BeginReturn, Idle
  <2>3. CASE ReadActive(h)
    BY <1>0, <2>3 DEF ReadActive, Request
  <2> QED
    BY <2>1, <2>2, <2>3 DEF Lookups
<1>4. status[req'[h].copy] # "absent"
  <2>1. ASSUME NEW c \in Copies, NEW r \in Readers, BeginCheckout(h, c, r) PROVE status[req'[h].copy] # "absent"
    BY <1>0, <2>1 DEF BeginCheckout, Idle
  <2>2. ASSUME NEW c \in Copies, BeginReturn(h, c) PROVE status[req'[h].copy] # "absent"
    BY <1>0, <2>2 DEF BeginReturn, Idle
  <2>3. CASE ReadActive(h)
    BY <1>0, <2>3 DEF ReadActive, IInv, AddedInv
  <2> QED
    BY <2>1, <2>2, <2>3 DEF Lookups
<1>5. Found(h)' => req'[h].reader \in Borrowers(req'[h].copy)
  <2>1. ASSUME NEW c \in Copies, NEW r \in Readers, BeginCheckout(h, c, r) PROVE ~Found(h)'
    BY <1>0, <2>1 DEF BeginCheckout, Found, Idle
  <2>2. ASSUME NEW c \in Copies, BeginReturn(h, c) PROVE ~Found(h)'
    BY <1>0, <2>2 DEF BeginReturn, Found, Idle
  <2>3. CASE ReadActive(h)
    BY <1>0, <2>3 DEF ReadActive, ActiveCheckout, Borrowers, Request
  <2> QED
    BY <2>1, <2>2, <2>3 DEF Lookups
<1>6. TypeOK'
  BY NextType DEF IInv, Lookups, Next, RequestNext, RequestStep
<1>7. \A c \in Copies : Borrowers(c)' = Borrowers(c)
  BY <1>1 DEF Borrowers
<1>8. LockInv'
  <2>1. \A c \in Copies : copyLock[c] # NoRequest => copyLock[c] \in Requests \ {h}
    BY <1>3 DEF IInv, LockInv, TypeOK
  <2>2. \A k \in Requests : req'[k].step = "write" => k # h /\ req'[k] = req[k]
    BY <1>2, <1>3
  <2> QED
    BY <1>1, <1>2, <2>1, <2>2 DEF IInv, LockInv, Required
<1>9. AddedInv' /\ LoanMatchesStatus'
  BY <1>0, <1>1, <1>2, <1>4, <1>7 DEF IInv, AddedInv, LoanMatchesStatus, OneLoan
<1>10. ReturnInv'
  <2> SUFFICES ASSUME NEW k \in Requests, NEW c \in Copies, Found(k)', c = req'[k].copy
               PROVE  Holds(k, c)'
    BY DEF ReturnInv
  <2>1. CASE k = h
    BY <1>1, <1>5, <1>7, <2>1 DEF Holds
  <2>2. CASE k # h
    BY <1>1, <1>2, <1>7, <2>2 DEF IInv, ReturnInv, Found, Holds
  <2> QED
    BY <2>1, <2>2
<1> QED
  BY <1>6, <1>8, <1>9, <1>10 DEF IInv

LEMMA LockCopyInv == ASSUME IInv, NEW h \in Requests, LockCopy(h) PROVE IInv'
<1>0. req \in [Requests -> Request]
  BY DEF IInv, TypeOK
<1>1. PICK c \in Copies : c = req[h].copy
  BY <1>0 DEF Request
<1>2. /\ UNCHANGED <<status, open, closed, returned, overridden, edits>>
      /\ req[h].step = "lock" /\ copyLock[c] = NoRequest /\ status[c] = Required(h)
      /\ copyLock' = [copyLock EXCEPT ![c] = h]
      /\ req' = [req EXCEPT ![h].step = "write"]
  BY <1>1 DEF LockCopy, CopyFree, tableVars
<1>3. \A k \in Requests :
        /\ req'[k].op = req[k].op /\ req'[k].copy = req[k].copy /\ req'[k].reader = req[k].reader
        /\ req'[k].disturbed = req[k].disturbed
        /\ req'[k].step = IF k = h THEN "write" ELSE req[k].step
  BY <1>0, <1>2 DEF Request
<1>4. TypeOK'
  BY NextType DEF IInv, Next, RequestNext
<1>5. LockInv'
  <2>1. ASSUME NEW d \in Copies, copyLock'[d] # NoRequest
        PROVE  req'[copyLock'[d]].step = "write" /\ req'[copyLock'[d]].copy = d
    <3>1. CASE d = c
      BY <1>1, <1>2, <1>3, <3>1 DEF IInv, TypeOK
    <3>2. CASE d # c
      <4>1. copyLock'[d] = copyLock[d] /\ copyLock[d] \in Requests
        BY <1>2, <2>1, <3>2 DEF IInv, TypeOK
      <4> QED
        BY <1>2, <1>3, <2>1, <4>1 DEF IInv, LockInv
    <3> QED
      BY <3>1, <3>2
  <2>2. ASSUME NEW k \in Requests, req'[k].step = "write"
        PROVE  copyLock'[req'[k].copy] = k /\ status'[req'[k].copy] = Required(k)'
    <3>1. CASE k = h
      BY <1>1, <1>2, <1>3, <3>1 DEF IInv, TypeOK, Required
    <3>2. CASE k # h
      <4>1. req[k].step = "write" /\ copyLock[req[k].copy] = k /\ status[req[k].copy] = Required(k)
        BY <1>3, <2>2, <3>2 DEF IInv, LockInv
      <4>2. req[k].copy # c
        BY <1>2, <4>1, CirculationAssumption
      <4> QED
        BY <1>2, <1>3, <4>1, <4>2 DEF Required, IInv, TypeOK
    <3> QED
      BY <3>1, <3>2
  <2> QED
    BY <2>1, <2>2 DEF LockInv
<1>6. AddedInv' /\ LoanMatchesStatus'
  <2>1. \A d \in Copies : Borrowers(d)' = Borrowers(d)
    BY <1>2 DEF Borrowers
  <2>2. \A k \in Requests : req'[k].step # "idle" => req[k].step # "idle"
    BY <1>2, <1>3
  <2> QED
    BY <1>2, <1>3, <2>1, <2>2 DEF IInv, AddedInv, LoanMatchesStatus, OneLoan
<1>7. ReturnInv'
  BY <1>2, <1>3 DEF IInv, ReturnInv, Found, Holds, Borrowers
<1> QED
  BY <1>4, <1>5, <1>6, <1>7 DEF IInv

(* A request that ends without a commit gives its lock back and changes no *)
(* table.                                                                  *)
LEMMA RollbackInv == ASSUME IInv, NEW h \in Requests, Refuse(h) \/ Fail(h) PROVE IInv'
<1>0. req \in [Requests -> Request] /\ copyLock \in [Copies -> Requests \cup {NoRequest}]
  BY DEF IInv, TypeOK
<1>1. /\ UNCHANGED <<status, open, closed, returned, overridden, edits>>
      /\ copyLock' = [c \in Copies |-> IF copyLock[c] = h THEN NoRequest ELSE copyLock[c]]
      /\ req' = [req EXCEPT ![h] = Idle]
  BY DEF Refuse, Fail, Rollback, tableVars
<1>2. \A k \in Requests : IF k = h THEN req'[k] = Idle ELSE req'[k] = req[k]
  BY <1>0, <1>1
<1>3. TypeOK'
  BY NextType DEF IInv, Next, RequestNext, RequestStep
<1>4. LockInv'
  <2>1. ASSUME NEW c \in Copies, copyLock'[c] # NoRequest
        PROVE  req'[copyLock'[c]].step = "write" /\ req'[copyLock'[c]].copy = c
    <3>1. copyLock[c] # h /\ copyLock'[c] = copyLock[c] /\ copyLock[c] \in Requests
      BY <1>0, <1>1, <2>1
    <3> QED
      BY <1>2, <2>1, <3>1 DEF IInv, LockInv
  <2>2. ASSUME NEW k \in Requests, req'[k].step = "write"
        PROVE  copyLock'[req'[k].copy] = k /\ status'[req'[k].copy] = Required(k)'
    <3>1. k # h /\ req'[k] = req[k]
      BY <1>2, <2>2, IdleType
    <3>2. req[k].copy \in Copies
      BY <1>0 DEF Request
    <3> QED
      BY <1>1, <2>2, <3>1, <3>2 DEF IInv, LockInv, Required
  <2> QED
    BY <2>1, <2>2 DEF LockInv
<1>5. AddedInv' /\ LoanMatchesStatus'
  <2>1. \A d \in Copies : Borrowers(d)' = Borrowers(d)
    BY <1>1 DEF Borrowers
  <2> QED
    BY <1>1, <1>2, <2>1, IdleType DEF IInv, AddedInv, LoanMatchesStatus, OneLoan
<1>6. ReturnInv'
  BY <1>1, <1>2, IdleType DEF IInv, ReturnInv, Found, Holds, Borrowers
<1> QED
  BY <1>3, <1>4, <1>5, <1>6 DEF IInv

(* What the lock gives a commit: no other request is about to commit on    *)
(* the copy, and the status is the one that was asked for.                 *)
LEMMA Locked ==
  ASSUME IInv, NEW h \in Requests, req[h].step = "write"
  PROVE  /\ req[h].copy \in Copies /\ req[h].reader \in Readers
         /\ copyLock[req[h].copy] = h
         /\ status[req[h].copy] = Required(h)
         /\ \A k \in Requests \ {h} : req[k].step = "write" => req[k].copy # req[h].copy
BY DEF IInv, TypeOK, LockInv, Request

(* The lock, after a commit of h on its copy c. *)
LEMMA UnlockInv ==
  ASSUME IInv, NEW h \in Requests, NEW c \in Copies, req[h].step = "write", req[h].copy = c,
         Disturb(h, c), copyLock' = [copyLock EXCEPT ![c] = NoRequest],
         \A d \in Copies \ {c} : status'[d] = status[d]
  PROVE  LockInv'
<1>0. req \in [Requests -> Request] /\ copyLock \in [Copies -> Requests \cup {NoRequest}]
  BY DEF IInv, TypeOK
<1>1. req'[h] = Idle /\ \A k \in Requests \ {h} : SameReads(k)
  BY <1>0, DisturbEffect
<1>2. ASSUME NEW d \in Copies, copyLock'[d] # NoRequest
      PROVE  req'[copyLock'[d]].step = "write" /\ req'[copyLock'[d]].copy = d
  <2>1. d # c /\ copyLock'[d] = copyLock[d] /\ copyLock[d] \in Requests
    BY <1>0, <1>2
  <2>2. req[copyLock[d]].step = "write" /\ req[copyLock[d]].copy = d
    BY <1>2, <2>1 DEF IInv, LockInv
  <2> QED
    BY <1>1, <2>1, <2>2 DEF SameReads
<1>3. ASSUME NEW k \in Requests, req'[k].step = "write"
      PROVE  copyLock'[req'[k].copy] = k /\ status'[req'[k].copy] = Required(k)'
  <2>1. k # h
    BY <1>1, <1>3, IdleType
  <2>2. /\ req[k].step = "write" /\ req'[k].copy = req[k].copy
        /\ Required(k)' = Required(k)
    BY <1>1, <1>3, <2>1 DEF SameReads, Required
  <2>3. /\ req[k].copy \in Copies \ {c} /\ copyLock[req[k].copy] = k
        /\ status[req[k].copy] = Required(k)
    BY <2>1, <2>2, Locked
  <2> QED
    BY <1>0, <2>2, <2>3
<1> QED
  BY <1>2, <1>3 DEF LockInv

LEMMA CommitCheckoutInv == ASSUME IInv, NEW h \in Requests, CommitCheckout(h) PROVE IInv'
<1>0. /\ req \in [Requests -> Request] /\ status \in [Copies -> CopyStatuses \cup {"absent"}]
      /\ open \in [Copies -> [Readers -> Nat]]
  BY DEF IInv, TypeOK
<1>1. PICK c \in Copies, r \in Readers :
        /\ c = req[h].copy /\ r = req[h].reader
        /\ req[h].step = "write" /\ req[h].op = "checkout" /\ status[c] = "available"
        /\ \A k \in Requests \ {h} : req[k].step = "write" => req[k].copy # c
  BY Locked DEF CommitCheckout, Required
<1>2. /\ open' = [open EXCEPT ![c][r] = @ + 1]
      /\ status' = [status EXCEPT ![c] = "checked_out"]
      /\ copyLock' = [copyLock EXCEPT ![c] = NoRequest]
      /\ Disturb(h, c) /\ UNCHANGED overridden
  BY <1>1 DEF CommitCheckout
<1>3. /\ req'[h] = Idle
      /\ \A k \in Requests \ {h} :
           /\ SameReads(k)
           /\ req'[k].disturbed = (req[k].disturbed \/ (req[k].step # "idle" /\ req[k].copy = c))
  BY <1>0, <1>2, DisturbEffect
<1>4. TypeOK'
  BY NextType DEF IInv, Next, RequestNext, RequestStep
<1>5. LockInv'
  BY <1>0, <1>1, <1>2, UnlockInv
<1>6. /\ Borrowers(c)' = Borrowers(c) \cup {r}
      /\ \A d \in Copies \ {c} : /\ Borrowers(d)' = Borrowers(d) /\ status'[d] = status[d]
                                 /\ open'[d] = open[d]
  BY <1>0, <1>2 DEF Borrowers
<1>7. AddedInv'
  BY <1>0, <1>2, <1>3, <1>6, IdleType DEF IInv, AddedInv, SameReads
<1>8. LoanMatchesStatus'
  <2> SUFFICES ASSUME NEW d \in Copies, ~overridden[d]
               PROVE  IF status'[d] = "checked_out" THEN OneLoan(d)' ELSE Borrowers(d)' = {}
    BY <1>2 DEF LoanMatchesStatus
  <2>1. CASE d = c
    <3>1. Borrowers(c) = {}
      BY <1>1, <2>1 DEF IInv, LoanMatchesStatus
    <3>2. \A s \in Readers : open[c][s] = 0
      BY <1>0, <3>1 DEF Borrowers
    <3>3. open'[c][r] = 1 /\ \A s \in Readers \ {r} : open'[c][s] = 0
      BY <1>0, <1>2, <3>2
    <3> QED
      BY <1>0, <1>2, <2>1, <3>3 DEF OneLoan
  <2>2. CASE d # c
    BY <1>6, <2>2 DEF IInv, LoanMatchesStatus, OneLoan
  <2> QED
    BY <2>1, <2>2
<1>9. ReturnInv'
  <2> SUFFICES ASSUME NEW k \in Requests, NEW d \in Copies, Found(k)', d = req'[k].copy
               PROVE  Holds(k, d)'
    BY DEF ReturnInv
  <2>1. k # h
    BY <1>3, IdleType DEF Found
  <2>2. SameReads(k) /\ Found(k) /\ d = req[k].copy
    BY <1>3, <2>1 DEF Found, SameReads
  <2>3. Holds(k, d)
    BY <2>2 DEF IInv, ReturnInv
  <2>4. Borrowers(d) \subseteq Borrowers(d)' /\ (d = c => Borrowers(d)' # {})
    BY <1>6
  <2>5. ~req'[k].disturbed => ~req[k].disturbed
    BY <1>3, <2>1
  <2> QED
    BY <1>6, <2>2, <2>3, <2>4, <2>5 DEF Holds, SameReads
<1> QED
  BY <1>4, <1>5, <1>7, <1>8, <1>9 DEF IInv

LEMMA CommitReturnInv == ASSUME IInv, NEW h \in Requests, CommitReturn(h) PROVE IInv'
<1>0. /\ req \in [Requests -> Request] /\ status \in [Copies -> CopyStatuses \cup {"absent"}]
      /\ open \in [Copies -> [Readers -> Nat]] /\ overridden \in [Copies -> BOOLEAN]
  BY DEF IInv, TypeOK
<1>1. PICK c \in Copies : c = req[h].copy /\ req[h].step = "write"
  BY Locked DEF CommitReturn
<1>2. /\ open' = [open EXCEPT ![c] = [s \in Readers |-> 0]]
      /\ status' = [status EXCEPT ![c] = "available"]
      /\ overridden' = [overridden EXCEPT ![c] = FALSE]
      /\ copyLock' = [copyLock EXCEPT ![c] = NoRequest]
      /\ Disturb(h, c)
  BY <1>1 DEF CommitReturn, ReturnedStatus
<1>3. /\ req'[h] = Idle
      /\ \A k \in Requests \ {h} :
           /\ SameReads(k)
           /\ req'[k].disturbed = (req[k].disturbed \/ (req[k].step # "idle" /\ req[k].copy = c))
  BY <1>0, <1>2, DisturbEffect
<1>4. TypeOK'
  BY NextType DEF IInv, Next, RequestNext, RequestStep
<1>5. LockInv'
  BY <1>0, <1>1, <1>2, UnlockInv
<1>6. /\ Borrowers(c)' = {} /\ status'[c] = "available"
      /\ \A d \in Copies \ {c} :
           /\ Borrowers(d)' = Borrowers(d) /\ status'[d] = status[d]
           /\ open'[d] = open[d] /\ overridden'[d] = overridden[d]
  BY <1>0, <1>2 DEF Borrowers
<1>7. AddedInv'
  <2>1. \A d \in Copies : status'[d] = "absent" => Borrowers(d)' = {} /\ ~overridden'[d]
    BY <1>6 DEF IInv, AddedInv
  <2>2. ASSUME NEW k \in Requests, req'[k].step # "idle" PROVE status'[req'[k].copy] # "absent"
    <3>1. k # h /\ SameReads(k)
      BY <1>3, <2>2, IdleType
    <3>2. req[k].copy \in Copies /\ status[req[k].copy] # "absent"
      BY <1>0, <2>2, <3>1 DEF IInv, AddedInv, SameReads, Request
    <3> QED
      BY <1>6, <3>1, <3>2 DEF SameReads
  <2> QED
    BY <2>1, <2>2 DEF AddedInv
<1>8. LoanMatchesStatus'
  BY <1>6 DEF IInv, LoanMatchesStatus, OneLoan
<1>9. ReturnInv'
  <2> SUFFICES ASSUME NEW k \in Requests, NEW d \in Copies, Found(k)', d = req'[k].copy
               PROVE  Holds(k, d)'
    BY DEF ReturnInv
  <2>1. k # h
    BY <1>3, IdleType DEF Found
  <2>2. SameReads(k) /\ Found(k) /\ d = req[k].copy /\ req[k].step # "idle"
    BY <1>3, <2>1 DEF Found, SameReads
  <2>3. CASE d = c
    BY <1>3, <1>6, <2>1, <2>2, <2>3 DEF Holds
  <2>4. CASE d # c
    <3>1. Holds(k, d) /\ (~req'[k].disturbed => ~req[k].disturbed)
      BY <1>3, <2>1, <2>2 DEF IInv, ReturnInv
    <3> QED
      BY <1>6, <2>2, <2>4, <3>1 DEF Holds, SameReads
  <2> QED
    BY <2>3, <2>4
<1> QED
  BY <1>4, <1>5, <1>7, <1>8, <1>9 DEF IInv

LEMMA StaffInv == ASSUME IInv, StaffNext PROVE IInv'
<1>0. /\ req \in [Requests -> Request] /\ status \in [Copies -> CopyStatuses \cup {"absent"}]
      /\ overridden \in [Copies -> BOOLEAN]
  BY DEF IInv, TypeOK
<1>1. PICK c \in Copies, s \in StaffStatuses :
        /\ status' = [status EXCEPT ![c] = s]
        /\ overridden' = [overridden EXCEPT ![c] = (s = "checked_out" \/ Borrowers(c) # {})]
        /\ status[c] = "absent" \/ s # "checked_out"
        /\ copyLock[c] = NoRequest \/ status[c] = "absent"
        /\ UNCHANGED <<open, copyLock>>
        /\ \A k \in Requests : /\ SameReads(k)
                               /\ req'[k].disturbed = (req[k].disturbed \/
                                    (status[c] # "absent" /\ req[k].step # "idle" /\ req[k].copy = c))
  <2>1. ASSUME NEW c \in Copies, NEW s \in StaffStatuses, AddCopy(c, s)
        PROVE  /\ status' = [status EXCEPT ![c] = s]
               /\ overridden' = [overridden EXCEPT ![c] = (s = "checked_out" \/ Borrowers(c) # {})]
               /\ status[c] = "absent" /\ UNCHANGED <<open, copyLock>>
               /\ \A k \in Requests : SameReads(k) /\ req'[k].disturbed = req[k].disturbed
    BY <2>1 DEF AddCopy, IInv, AddedInv, SameReads
  <2>2. ASSUME NEW c \in Copies, NEW s \in DirectlySettable, UpdateCopyStatus(c, s)
        PROVE  /\ status' = [status EXCEPT ![c] = s]
               /\ overridden' = [overridden EXCEPT ![c] = (s = "checked_out" \/ Borrowers(c) # {})]
               /\ s \in StaffStatuses /\ s # "checked_out" /\ status[c] # "absent"
               /\ copyLock[c] = NoRequest /\ UNCHANGED <<open, copyLock>>
               /\ \A k \in Requests :
                    /\ SameReads(k)
                    /\ req'[k].disturbed =
                         (req[k].disturbed \/ (req[k].step # "idle" /\ req[k].copy = c))
    <3>1. /\ s \in StaffStatuses /\ s # "checked_out" /\ status[c] # "absent"
          /\ copyLock[c] = NoRequest /\ UNCHANGED <<open, copyLock>>
          /\ status' = [status EXCEPT ![c] = s]
          /\ overridden' = [overridden EXCEPT ![c] = Borrowers(c) # {}]
          /\ req' = [k \in Requests |->
                       IF req[k].step # "idle" /\ req[k].copy = c
                       THEN [req[k] EXCEPT !.disturbed = TRUE] ELSE req[k]]
      BY <2>2 DEF UpdateCopyStatus, CopyFree, DirectlySettable
    <3>2. ASSUME NEW k \in Requests
          PROVE  /\ SameReads(k)
                 /\ req'[k].disturbed =
                      (req[k].disturbed \/ (req[k].step # "idle" /\ req[k].copy = c))
      <4>1. req[k].disturbed \in BOOLEAN
        BY <1>0 DEF Request
      <4>2. CASE req[k].step # "idle" /\ req[k].copy = c
        BY <1>0, <3>1, <4>2 DEF SameReads, Request
      <4>3. CASE ~(req[k].step # "idle" /\ req[k].copy = c)
        <5>1. req'[k] = req[k]
          BY <3>1, <4>3
        <5> QED
          BY <4>1, <4>3, <5>1 DEF SameReads
      <4> QED
        BY <4>2, <4>3
    <3> QED
      BY <3>1, <3>2
  <2>3. \A k \in Requests : req[k].disturbed \in BOOLEAN
    BY <1>0 DEF Request
  <2> QED
    BY <2>1, <2>2, <2>3 DEF StaffNext
<1>2. TypeOK'
  BY NextType DEF IInv, Next
<1>3. \A d \in Copies : Borrowers(d)' = Borrowers(d)
  BY <1>1 DEF Borrowers
<1>4. /\ status'[c] = s
      /\ \A d \in Copies \ {c} : status'[d] = status[d] /\ overridden'[d] = overridden[d]
      /\ overridden'[c] = (s = "checked_out" \/ Borrowers(c) # {})
  BY <1>0, <1>1
<1>5. s # "absent"
  BY CirculationAssumption DEF CopyStatuses
<1>6. LockInv'
  <2>1. ASSUME NEW d \in Copies, copyLock'[d] # NoRequest
        PROVE  req'[copyLock'[d]].step = "write" /\ req'[copyLock'[d]].copy = d
    <3>1. copyLock[d] \in Requests
      BY <1>1, <2>1 DEF IInv, TypeOK
    <3> QED
      BY <1>1, <2>1, <3>1 DEF IInv, LockInv, SameReads
  <2>2. ASSUME NEW k \in Requests, req'[k].step = "write"
        PROVE  copyLock'[req'[k].copy] = k /\ status'[req'[k].copy] = Required(k)'
    <3>1. SameReads(k) /\ req[k].step = "write" /\ Required(k)' = Required(k)
      BY <1>1, <2>2 DEF SameReads, Required
    <3>2. req[k].copy \in Copies /\ copyLock[req[k].copy] = k /\ status[req[k].copy] = Required(k)
      BY <3>1, Locked
    <3>3. req[k].copy # c
      BY <1>1, <3>2, CirculationAssumption DEF Required
    <3> QED
      BY <1>1, <1>4, <3>1, <3>2, <3>3 DEF SameReads
  <2> QED
    BY <2>1, <2>2 DEF LockInv
<1>7. AddedInv'
  <2>1. \A d \in Copies : status'[d] = "absent" => Borrowers(d)' = {} /\ ~overridden'[d]
    BY <1>3, <1>4, <1>5 DEF IInv, AddedInv
  <2>2. ASSUME NEW k \in Requests, req'[k].step # "idle" PROVE status'[req'[k].copy] # "absent"
    <3>1. SameReads(k) /\ req[k].copy \in Copies /\ status[req[k].copy] # "absent"
      BY <1>0, <1>1, <2>2 DEF IInv, AddedInv, SameReads, Request
    <3> QED
      BY <1>4, <1>5, <3>1 DEF SameReads
  <2> QED
    BY <2>1, <2>2 DEF AddedInv
<1>8. LoanMatchesStatus'
  BY <1>1, <1>3, <1>4 DEF IInv, LoanMatchesStatus, OneLoan
<1>9. ReturnInv'
  <2> SUFFICES ASSUME NEW k \in Requests, NEW d \in Copies, Found(k)', d = req'[k].copy
               PROVE  Holds(k, d)'
    BY DEF ReturnInv
  <2>1. SameReads(k) /\ Found(k) /\ d = req[k].copy
    BY <1>1 DEF Found, SameReads
  <2>2. status[d] # "absent" /\ Holds(k, d)
    BY <2>1 DEF IInv, AddedInv, ReturnInv, Found
  <2>3. status'[d] = "checked_out" => status[d] = "checked_out"
    BY <1>1, <1>4, <2>2
  <2>4. ~req'[k].disturbed => ~req[k].disturbed
    BY <1>1
  <2> QED
    BY <1>3, <2>1, <2>2, <2>3, <2>4 DEF Holds, SameReads
<1> QED
  BY <1>2, <1>6, <1>7, <1>8, <1>9 DEF IInv

LEMMA NextInv == ASSUME IInv, [Next]_vars PROVE IInv'
<1>1. CASE UNCHANGED vars
  BY <1>1 DEF vars, tableVars, IInv, TypeOK, LockInv, Required, AddedInv, Borrowers,
              LoanMatchesStatus, OneLoan, ReturnInv, Found, Holds
<1>2. CASE Next
  BY <1>2, LookupInv, LockCopyInv, RollbackInv, CommitCheckoutInv, CommitReturnInv, StaffInv
  DEF Next, RequestNext, RequestStep, Lookups
<1> QED
  BY <1>1, <1>2

(* The inductive invariant holds in every state.                           *)
THEOREM Invariance == Spec => []IInv
BY InitInv, NextInv, PTL DEF Spec

-----------------------------------------------------------------------------
(* The results.                                                            *)

(* However checkouts and returns interleave, a copy nobody set by hand is  *)
(* checked out exactly when it has a loan, and then it has one.            *)
THEOREM LoansMatch == Spec => []LoanMatchesStatus
<1>1. IInv => LoanMatchesStatus
  BY DEF IInv
<1> QED
  BY <1>1, Invariance, PTL

(* A return that commits closes a loan, that of the reader it names unless *)
(* something happened to the copy after its lookup.                        *)
THEOREM ReturnsAreSound == Spec => ReturnIsSound
<1> DEFINE Sound == \A h \in Requests, c \in Copies :
                      CommitReturn(h) /\ c = req[h].copy =>
                        /\ Borrowers(c) # {} /\ Borrowers(c)' = {}
                        /\ ~req[h].disturbed => req[h].reader \in Borrowers(c)
<1>1. ASSUME IInv PROVE Sound
  <2> SUFFICES ASSUME NEW h \in Requests, NEW c \in Copies, CommitReturn(h), c = req[h].copy
               PROVE  /\ Borrowers(c) # {} /\ Borrowers(c)' = {}
                      /\ ~req[h].disturbed => req[h].reader \in Borrowers(c)
    OBVIOUS
  <2>1. Found(h) /\ status[c] = "checked_out"
    BY <1>1, Locked DEF CommitReturn, Found, Required
  <2>2. Borrowers(c) # {} /\ (~req[h].disturbed => req[h].reader \in Borrowers(c))
    BY <1>1, <2>1 DEF IInv, ReturnInv, Holds
  <2>3. Borrowers(c)' = {}
    <3>1. open \in [Copies -> [Readers -> Nat]]
      BY <1>1 DEF IInv, TypeOK
    <3> QED
      BY <3>1 DEF CommitReturn, Borrowers
  <2> QED
    BY <2>2, <2>3
<1>2. IInv => [Sound]_vars
  BY <1>1
<1> QED
  BY <1>2, Invariance, PTL DEF ReturnIsSound

-----------------------------------------------------------------------------
(* The refinement: every step of Circulation is a step of the atomic       *)
(* lending desk or leaves it alone.                                        *)

LEMMA DeskInitRefined == Init => Desk!DeskInit
BY CirculationAssumption DEF Init, Desk!DeskInit, Holders, Borrowers

(* What a commit and an edit, of one copy, do to the holders.              *)
LEMMA HoldersChange ==
  ASSUME NEW c \in Copies, NEW H, Borrowers(c)' = H,
         \A d \in Copies \ {c} : Borrowers(d)' = Borrowers(d)
  PROVE  Holders' = [Holders EXCEPT ![c] = H]
BY DEF Holders

LEMMA LendRefined == ASSUME IInv, NEW h \in Requests, CommitCheckout(h) PROVE Desk!DeskNext
<1>0. open \in [Copies -> [Readers -> Nat]]
  BY DEF IInv, TypeOK
<1>1. PICK c \in Copies, r \in Readers :
        c = req[h].copy /\ r = req[h].reader /\ status[c] = "available"
  BY Locked DEF CommitCheckout, Required
<1>2. /\ open' = [open EXCEPT ![c][r] = @ + 1]
      /\ status' = [status EXCEPT ![c] = "checked_out"]
      /\ UNCHANGED overridden
  BY <1>1 DEF CommitCheckout
<1>3. /\ Borrowers(c)' = Borrowers(c) \cup {r}
      /\ \A d \in Copies \ {c} : Borrowers(d)' = Borrowers(d)
  BY <1>0, <1>2 DEF Borrowers
<1>4. Holders[c] = Borrowers(c)
  BY DEF Holders
<1>5. Holders' = [Holders EXCEPT ![c] = Holders[c] \cup {r}]
  BY <1>3, <1>4, HoldersChange
<1>6. ~overridden[c] => Holders[c] = {}
  BY <1>1, <1>4 DEF IInv, LoanMatchesStatus
<1>7. Desk!Lend(c, r)
  BY <1>1, <1>2, <1>5, <1>6 DEF Desk!Lend
<1> QED
  BY <1>7 DEF Desk!DeskNext

LEMMA TakeBackRefined == ASSUME IInv, NEW h \in Requests, CommitReturn(h) PROVE Desk!DeskNext
<1>0. open \in [Copies -> [Readers -> Nat]]
  BY DEF IInv, TypeOK
<1>1. PICK c \in Copies : c = req[h].copy /\ status[c] = "checked_out"
  BY Locked DEF CommitReturn, Required
<1>2. /\ open' = [open EXCEPT ![c] = [s \in Readers |-> 0]]
      /\ status' = [status EXCEPT ![c] = "available"]
      /\ overridden' = [overridden EXCEPT ![c] = FALSE]
  BY <1>1 DEF CommitReturn, ReturnedStatus
<1>3. Borrowers(c) # {}
  BY <1>1 DEF CommitReturn, IInv, ReturnInv, Found, Holds
<1>4. Borrowers(c)' = {} /\ \A d \in Copies \ {c} : Borrowers(d)' = Borrowers(d)
  BY <1>0, <1>2 DEF Borrowers
<1>5. Holders[c] # {} /\ Holders' = [Holders EXCEPT ![c] = {}]
  BY <1>3, <1>4, HoldersChange DEF Holders
<1>6. Desk!TakeBack(c)
  BY <1>1, <1>2, <1>5 DEF Desk!TakeBack
<1> QED
  BY <1>6 DEF Desk!DeskNext

LEMMA StaffRefined == ASSUME IInv, StaffNext PROVE Desk!DeskNext
<1>0. ASSUME UNCHANGED open PROVE UNCHANGED Holders
  BY <1>0 DEF Holders, Borrowers
<1>1. ASSUME NEW c \in Copies, NEW s \in StaffStatuses, AddCopy(c, s) PROVE Desk!DeskNext
  <2>1. status[c] = "absent" /\ Holders[c] = {}
    BY <1>1 DEF AddCopy, IInv, AddedInv, Holders
  <2>2. /\ status' = [status EXCEPT ![c] = s]
        /\ overridden' = [overridden EXCEPT ![c] = (s = "checked_out")]
        /\ UNCHANGED Holders
    BY <1>0, <1>1 DEF AddCopy
  <2>3. Desk!Add(c, s)
    BY <2>1, <2>2 DEF Desk!Add
  <2> QED
    BY <2>3 DEF Desk!DeskNext
<1>2. ASSUME NEW c \in Copies, NEW s \in DirectlySettable, UpdateCopyStatus(c, s)
      PROVE  Desk!DeskNext
  <2>1. s \in StaffStatuses /\ s # "checked_out" /\ status[c] # "absent"
    BY <1>2 DEF UpdateCopyStatus, DirectlySettable
  <2>2. /\ status' = [status EXCEPT ![c] = s]
        /\ overridden' = [overridden EXCEPT ![c] = Holders[c] # {}]
        /\ UNCHANGED Holders
    BY <1>0, <1>2 DEF UpdateCopyStatus, Holders
  <2>3. Desk!SetStatus(c, s)
    BY <2>1, <2>2 DEF Desk!SetStatus
  <2> QED
    BY <2>1, <2>3 DEF Desk!DeskNext
<1> QED
  BY <1>1, <1>2 DEF StaffNext

(* Only the commits of requests, and staff, write the tables of the desk.  *)
LEMMA DeskUntouched ==
  ASSUME [Next]_vars, ~StaffNext, ~\E h \in Requests : CommitCheckout(h) \/ CommitReturn(h)
  PROVE  UNCHANGED Desk!deskVars
<1>1. UNCHANGED <<status, open, overridden>>
  BY DEF Next, RequestNext, RequestStep, BeginCheckout, BeginReturn, ReadActive, LockCopy,
         Refuse, Fail, Rollback, vars, tableVars
<1> QED
  BY <1>1 DEF Desk!deskVars, Holders, Borrowers

LEMMA DeskStepRefined ==
  ASSUME IInv, [Next]_vars PROVE [Desk!DeskNext]_(Desk!deskVars)
BY LendRefined, TakeBackRefined, StaffRefined, DeskUntouched

(* Circulation, in which checkouts and returns are sequences of statements *)
(* of concurrent requests, implements the desk in which every operation is *)
(* atomic: each lends a copy nobody has, or takes back one somebody has.   *)
THEOREM DeskImplemented == Spec => ImplementsDesk
BY DeskInitRefined, DeskStepRefined, Invariance, PTL
DEF Spec, ImplementsDesk, Desk!DeskSpec

=============================================================================
