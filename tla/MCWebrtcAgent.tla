---------------------------- MODULE MCWebrtcAgent ----------------------------
(* Symmetry for the TLC runs of WebrtcAgent. *)
EXTENDS WebrtcAgent, TLC

Symmetry == Permutations(Threads) \cup Permutations(Ids)

=============================================================================
