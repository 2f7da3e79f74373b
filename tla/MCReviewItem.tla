---------------------------- MODULE MCReviewItem ----------------------------
(* Instances of ReviewItem for TLC.                                        *)
EXTENDS ReviewItem
CONSTANTS t1, s1
=============================================================================
