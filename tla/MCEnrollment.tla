---------------------------- MODULE MCEnrollment ----------------------------
(* Small instances of Enrollment for TLC. *)
EXTENDS Enrollment

CONSTANTS p1, p2, r1, r2, h1, h2, b1, b2

MCProgramBranch == [p \in Programs |-> b1]
MCReaderBranch == [r \in Readers |-> IF r = r1 THEN b1 ELSE b2]

(* One clerk of branch b1 and one administrator, who sees every branch. *)
MCScope == [h \in Requests |-> IF h = h1 THEN b1 ELSE AllBranches]

(* Two slots that overlap; only the second starts within the first. *)
Morning == [from |-> 1, to |-> 3]
Midday == [from |-> 2, to |-> 4]
MCFirstSlot == [p \in Programs |-> IF p = p1 THEN Morning ELSE Midday]
MCFirstCapacity == [p \in Programs |-> IF p = p1 THEN 1 ELSE 2]
MCSlots == {Morning, Midday}

MCOneSlot == {Morning}
MCAllMorning == [p \in Programs |-> Morning]

MCOffers == {[capacity |-> 1, slot |-> Midday, window |-> "open"],
             [capacity |-> 2, slot |-> Morning, window |-> "open"],
             [capacity |-> 2, slot |-> Midday, window |-> "before"]}
MCOffer == {[capacity |-> 1, slot |-> Morning, window |-> "before"]}

MCRules == {[id |-> 1, type |-> "blacklist", field |-> "branch_id", value |-> b2],
            [id |-> 2, type |-> "whitelist", field |-> "reader_number", value |-> r1]}

MCRule == {[id |-> 2, type |-> "whitelist", field |-> "reader_number", value |-> r1]}

MCNoAlumni == {}
MCAlumni == {<<p1, r1>>}
MCNoPrereqs == [p \in Programs |-> {}]
MCPrereqs == [p \in Programs |-> IF p = p2 THEN {p1} ELSE {}]
=============================================================================
