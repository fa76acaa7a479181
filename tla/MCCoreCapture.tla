--------------------------- MODULE MCCoreCapture ----------------------------
(* Instances of CoreCapture for TLC.                                       *)
EXTENDS CoreCapture, TLC

\* A buffer's streams are interchangeable, and so are rates.
Symmetry == Permutations(ReceivedStreams) \cup Permutations(Rates)
=============================================================================
