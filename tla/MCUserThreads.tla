---------------------------- MODULE MCUserThreads ----------------------------
(* Instances of UserThreads for TLC.                                       *)
EXTENDS UserThreads, TLC

CONSTANTS main, t1, t2, t3

\* Nobody but the thread that starts the library is singled out.
ThreadSymmetry == Permutations({t1, t2, t3})
=============================================================================
