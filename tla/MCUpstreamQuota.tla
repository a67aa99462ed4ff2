---------------------------- MODULE MCUpstreamQuota ----------------------------
(* Small instances of UpstreamQuota for TLC.                               *)
EXTENDS UpstreamQuota, TLC

CONSTANTS t1, t2

ThreadSymmetry == Permutations(Threads)
=============================================================================
