--------------------------- MODULE MCFrameRouting ----------------------------
(* Constants of the TLC runs of FrameRouting. *)
EXTENDS FrameRouting, TLC

CONSTANTS w1, w2

OneWorker == [x \in Pubs \cup Subs |-> w1]

TwoWorkers == [x \in Pubs \cup Subs |-> IF x \in Pubs THEN w1 ELSE w2]

Symmetry == Permutations(Subs) \cup Permutations(Addresses)

=============================================================================
