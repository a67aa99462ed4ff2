----------------------------- MODULE MCTranscript -----------------------------
(* Small instances of Transcript for TLC.                                  *)
EXTENDS Transcript, TLC

CONSTANTS p1, p2, w1, w2, w3

\* Two overlapping runs on one file: a two-threaded broker and another one.
MCHome == (w1 :> p1) @@ (w2 :> p1) @@ (w3 :> p2)
WriterSymmetry == Permutations({w1, w2})

\* One broker process with two threads.
SingleHome == (w1 :> p1) @@ (w2 :> p1)
=============================================================================
