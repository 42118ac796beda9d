--------------------------- MODULE MCReplayWindow ---------------------------
(***************************************************************************)
(* ReplayWindow on a small instance: a window of Window counters and a      *)
(* counter space that is longer, so that packets fall out of the window.    *)
(***************************************************************************)
EXTENDS ReplayWindow, TLC

ThreadSymmetry == Permutations(Threads)

=============================================================================
