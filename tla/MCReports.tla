----------------------------- MODULE MCReports ------------------------------
(* A small instance of Reports for TLC.  Two rows are enough for a reader  *)
(* to be active in two branches, or on two days; they are interchangeable  *)
(* until they are inserted.                                                *)
EXTENDS Reports, TLC

CONSTANTS fact1, fact2, r1, b1, b2, activity, admin

MCKinds == {<<"checkouts", b1, r1>>, <<"checkouts", b2, r1>>, <<"readers", b2, r1>>}
MCBranches == <<b1, b2>>
MCDefinitions == <<activity>>
MCTemplate == [d \in SetOf(MCDefinitions) |-> "reader_activity"]
MCScope == [h \in Handlers |-> AllBranches]
MCPermissions == [h \in Handlers |-> {"admin", "export"}]
MCRanges == {<<1, 1>>}
MCBackfillRanges == {<<0, 1>>, <<1, 1>>}
MCZones == {-1, 0}
MCSymmetry == Permutations(Facts)
=============================================================================
