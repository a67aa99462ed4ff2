------------------------------- MODULE MCBroker -------------------------------
(* Small instances of Broker for TLC.                                      *)
EXTENDS Broker, TLC

CONSTANTS k1, k2, t1, t2, b1, b2

\* The seed pins k1 only; the amended lockfile pins k2 as well.
Seed == (k1 :> Sha256(b1)) @@ (k2 :> NoPin)
Amended == (k1 :> Sha256(b1)) @@ (k2 :> Sha256(b2))
TwoLockfiles == {Seed, Amended}

ThreadSymmetry == Permutations({t1, t2})

ASSUME PinsAgree
=============================================================================
