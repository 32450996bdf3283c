----------------------------- MODULE MCRecords -----------------------------
(* Instances of Records for TLC. *)
EXTENDS Records, TLC

CONSTANTS r1, r2

(* Publication of a receipt is prepared for a second process; the other *)
(* two records are written by one.                                      *)
MCWriters == [metadata |-> {r1}, chunks |-> {r1}, receipt |-> {r1, r2}]

ValueSymmetry == Permutations(Values)
=============================================================================
