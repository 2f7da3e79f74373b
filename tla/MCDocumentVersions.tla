-------------------------- MODULE MCDocumentVersions --------------------------
(* Instances of DocumentVersions for TLC.                                    *)
EXTENDS DocumentVersions, TLC
CONSTANTS p, s, t1, t2, d1, d2
(* What the properties say nothing about is not followed.                    *)
Undisturbed == ~disturbed
Symmetry == Permutations(Tracker) \cup Permutations(Admin)
=============================================================================
