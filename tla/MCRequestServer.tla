-------------------------- MODULE MCRequestServer --------------------------
(* Instances of RequestServer for TLC: who the client processes are and    *)
(* which callers are threads of which process.                             *)
EXTENDS RequestServer, TLC

CONSTANTS c1, c2, k1, k2, k3, s1, s2, s3

\* Every caller is a process of its own.
SockPerCaller == k1 :> s1 @@ k2 :> s2 @@ k3 :> s3

\* The same for two callers, and for one.
SockPerCaller2 == k1 :> s1 @@ k2 :> s2
SockOfOne == k1 :> s1

\* Consumers are interchangeable: no definition singles one out.
ConsumerSymmetry == Permutations(Consumers)
=============================================================================
