------------------------------ MODULE MCWfp03 ------------------------------
(* Instances of Wfp03 for TLC. *)
EXTENDS Wfp03, TLC

CONSTANTS a, z    \* a block and the block a hole reads as

(* No chunk, a short one, a full and a short one, alike in their first, in *)
(* their second or in none of the two, or like a hole.                     *)
MCContents == { <<>>, <<a>>, <<a, z, a>>, <<a, z, z>>, <<z, z, a>> }

(* One block to a chunk: one or two chunks. *)
OneBlockChunks == { <<z>>, <<a, a>>, <<z, a>> }

(* Two sizes, and two files of one size. *)
TwoSizes == { <<z>>, <<a, a>> }
SameSize == { <<a, a>>, <<z, a>> }

JobSymmetry == Permutations(Jobs)
=============================================================================
