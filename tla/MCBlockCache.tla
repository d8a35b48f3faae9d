---------------------------- MODULE MCBlockCache ----------------------------
(* Instances of BlockCache for TLC: which blocks the workers may access.   *)
EXTENDS BlockCache, TLC

CONSTANTS w1, w2, b1, b2, b3, b4, p1, p2

\* Two workers that serve requests for different files.
OwnFiles == w1 :> {b1, b2} @@ w2 :> {b3, b4}

\* Nothing tells the blocks of a file apart, nor the two workers together with
\* their files.
FileSymmetry ==
    Permutations({b1, b2}) \cup Permutations({b3, b4}) \cup
    {w1 :> w2 @@ w2 :> w1 @@ b1 :> b3 @@ b3 :> b1 @@ b2 :> b4 @@ b4 :> b2}

\* Two workers that serve requests for the same file.
SameFile == w1 :> {b1, b2} @@ w2 :> {b1, b2}
=============================================================================
