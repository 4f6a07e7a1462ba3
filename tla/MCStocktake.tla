---------------------------- MODULE MCStocktake ----------------------------
(* Small instances of Stocktake for TLC. *)
EXTENDS Stocktake

CONSTANTS s1, s2, k1, k2, h1, h2, b1, b2

(* Both sessions are for branch b1; the second copy belongs to b2. *)
MCSessionBranch == [s \in Sessions |-> b1]
MCCopyBranch == [k \in Barcodes |-> IF k = k1 THEN b1 ELSE b2]

(* A clerk of branch b1 and an administrator, who sees every branch. *)
MCScope == [h \in Requests |-> IF h = h1 THEN b1 ELSE AllBranches]
=============================================================================
