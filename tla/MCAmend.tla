-------------------------------- MODULE MCAmend --------------------------------
(* Small instances of Amend for TLC.                                       *)
EXTENDS Amend, TLC

CONSTANTS k1, k2, k3, k4, b1, b2, b3, b4, p1, p2

\* b1 and b2 require each other's keys, b4 a key outside the grammar.
Requirements == (b1 :> <<k2, k4>>) @@ (b2 :> <<k1>>) @@ (b3 :> <<>>) @@ (b4 :> <<k3>>)

KeyLists == {<<k1>>, <<k2, k1, k2>>}
OnePin == [k \in Keys |-> IF k = k2 THEN Sha256(b2) ELSE NoPin]
Published == [k \in Keys |-> Sha256(b1)]
=============================================================================
