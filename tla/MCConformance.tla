----------------------------- MODULE MCConformance -----------------------------
(* The conformance run has one instance; only the bound on its faults is     *)
(* chosen here.                                                              *)
EXTENDS Conformance, TLC
=============================================================================
