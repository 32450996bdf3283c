------------------------------ MODULE MCWfp02 ------------------------------
(* Instances of Wfp02 for TLC. *)
EXTENDS Wfp02, TLC

CONSTANTS a, b

(* An empty file, a file, its continuation and one that differs. *)
MCContents == { <<>>, <<a>>, <<a, b>>, <<b, b>> }
(* What two jobs may disagree on: the length, the rest, or everything. *)
TwoBlocks == { <<a>>, <<a, b>>, <<b, b>> }

(* The same, one length. *)
SameLength == { <<a, b>>, <<b, b>> }

JobSymmetry == Permutations(Jobs)
=============================================================================
