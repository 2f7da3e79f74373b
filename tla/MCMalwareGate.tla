---------------------------- MODULE MCMalwareGate ----------------------------
(* Instances of MalwareGate for TLC.                                        *)
EXTENDS MalwareGate
CONSTANTS p1, p2
=============================================================================
