----------------------------- MODULE MCBatchJob -----------------------------
(* Instances of BatchJob for TLC.                                           *)
EXTENDS BatchJob
CONSTANTS a, b, t1, t2
(* What the properties say nothing about is not followed: a disturbed job    *)
(* stays one.                                                                *)
Undisturbed == ~disturbed
=============================================================================
