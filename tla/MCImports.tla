------------------------------ MODULE MCImports ------------------------------
(* A small instance of Imports for TLC. *)
EXTENDS Imports

CONSTANTS k1, k2

Row(key, ok) == [key |-> key, ok |-> ok]
File(type, rows) == [type |-> type, wellFormed |-> TRUE, rows |-> rows]

(* Two files whose keys meet in opposite orders, one with a duplicate key, *)
(* one without keys, one with an invalid row and one without its columns.  *)
MCFiles ==
  {File("readers", <<Row(k1, TRUE), Row(k2, TRUE)>>),
   File("readers", <<Row(k2, TRUE), Row(k1, TRUE)>>),
   File("readers", <<Row(k1, TRUE), Row(k1, TRUE)>>),
   File("readers", <<Row(NoKey, TRUE), Row(k2, TRUE)>>),
   File("holdings", <<Row(k1, TRUE), Row(NoKey, TRUE)>>),
   File("holdings", <<Row(k1, TRUE), Row(NoKey, FALSE)>>),
   [type |-> "readers", wellFormed |-> FALSE, rows |-> <<>>]}
=============================================================================
