------------------------------ MODULE SoleEgress ------------------------------
(***************************************************************************)
(* What the broker promises its sandbox (PROFILE.md, S4, S5 and S8): the   *)
(* only bytes that ever reach the sandbox are bytes whose digest the lab   *)
(* has pinned for the key they answer, and pins are only ever added.       *)
(***************************************************************************)
CONSTANTS Keys, Blobs, Digests, Sha256(_)

VARIABLES
    pins,       \* the <<key, digest>> pairs the lab has pinned
    released    \* the <<key, blob>> pairs the sandbox has received

Init ==
    /\ pins \in SUBSET (Keys \X Digests)
    /\ released = {}

\* The lab pins more keys.
Pin ==
    /\ \E more \in SUBSET (Keys \X Digests) : pins' = pins \cup more
    /\ UNCHANGED released

\* The sandbox receives bytes that match a pin of the key it asked for.
Release(k, b) ==
    /\ <<k, Sha256(b)>> \in pins
    /\ released' = released \cup {<<k, b>>}
    /\ UNCHANGED pins

Next == Pin \/ \E k \in Keys, b \in Blobs : Release(k, b)

Spec == Init /\ [][Next]_<<pins, released>>
=============================================================================
