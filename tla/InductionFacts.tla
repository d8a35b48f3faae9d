--------------------------- MODULE InductionFacts ---------------------------
(***************************************************************************)
(* Induction over the natural numbers, stated with sets instead of         *)
(* predicates, and what it gives for functions that are defined by         *)
(* recursion: they exist, and they keep an invariant.  Every loop of the   *)
(* models is such a function on an interval 0 .. N.                        *)
(***************************************************************************)
EXTENDS Naturals, NaturalsInduction, WellFoundedInduction, TLAPS

\* A set of numbers that is not empty has a least element.
LEMMA NatMin ==
    ASSUME NEW T, T \subseteq Nat, T # {}
    PROVE  \E x \in T : \A y \in T : x <= y
<1> DEFINE R == OpToRel(<, Nat)
<1>1. IsWellFoundedOn(R, Nat)
  BY NatLessThanWellFounded
<1>2. R = {ss \in Nat \X Nat : ss[1] < ss[2]}
  BY DEF OpToRel
<1> HIDE DEF R
<1>3. PICK x \in T : \A y \in T : ~(<<y, x>> \in R)
  BY <1>1, WFMin
<1>4. ASSUME NEW y \in T
      PROVE  x <= y
  <2> SUFFICES ASSUME ~(x <= y) PROVE FALSE
    OBVIOUS
  <2> DEFINE ss == <<y, x>>
  <2>1. ss \in Nat \X Nat /\ ss[1] < ss[2]
    OBVIOUS
  <2> HIDE DEF ss
  <2>2. ss \in R
    BY <1>2, <2>1
  <2> QED
    BY <1>3, <2>2 DEF ss
<1> QED
  BY <1>4

\* A set that has 0 and with every number the next one has them all.
LEMMA NatInd ==
    ASSUME NEW S, 0 \in S, \A n \in Nat : n \in S => n + 1 \in S
    PROVE  Nat \subseteq S
<1> SUFFICES ASSUME Nat \ S # {} PROVE FALSE
  OBVIOUS
<1>1. PICK x \in Nat \ S : \A y \in Nat \ S : x <= y
  BY NatMin
<1>2. x # 0 /\ x - 1 \in Nat
  BY <1>1
<1>3. x - 1 \in S
  BY <1>1, <1>2
<1> QED
  BY <1>1, <1>2, <1>3

\* The same up to N.
LEMMA IntervalInd ==
    ASSUME NEW N \in Nat, NEW S, 0 \in S, \A n \in 0 .. N - 1 : n \in S => n + 1 \in S
    PROVE  0 .. N \subseteq S
<1> DEFINE P == {n \in Nat : n <= N => n \in S}
<1>1. 0 \in P
  OBVIOUS
<1>2. \A n \in Nat : n \in P => n + 1 \in P
  OBVIOUS
<1> HIDE DEF P
<1>3. Nat \subseteq P
  BY <1>1, <1>2, NatInd
<1> QED
  BY <1>3 DEF P

\* A loop of N rounds.  Good has the pairs of a number of rounds and what can be
\* said of the state after them, and step is the function of a round.
RoundsKeep(N, Good, step) ==
    \A k \in 0 .. N - 1 : \A s : <<k, s>> \in Good => <<k + 1, step[<<k, s>>]>> \in Good

RunsLoop(f, N, Good, s0, step) ==
    /\ f = [k \in 0 .. N |-> f[k]]
    /\ f[0] = s0
    /\ \A k \in 1 .. N : <<k - 1, f[k - 1]>> \in Good /\ f[k] = step[<<k - 1, f[k - 1]>>]
    /\ <<N, f[N]>> \in Good

\* The loop can be run if every round is defined where the ones before lead.
LEMMA LoopRuns ==
    ASSUME NEW N \in Nat, NEW Good, NEW s0, <<0, s0>> \in Good,
           NEW step, RoundsKeep(N, Good, step)
    PROVE  \E f : RunsLoop(f, N, Good, s0, step)
<1> DEFINE S == {n \in Nat : n <= N => \E f : RunsLoop(f, n, Good, s0, step)}
<1>1. 0 \in S
  <2> DEFINE g == [k \in 0 .. 0 |-> s0]
  <2>1. g[0] = s0 /\ g = [k \in 0 .. 0 |-> g[k]] /\ 1 .. 0 = {}
    OBVIOUS
  <2> HIDE DEF g
  <2>2. RunsLoop(g, 0, Good, s0, step)
    BY <2>1 DEF RunsLoop
  <2> QED
    BY <2>2
<1>2. ASSUME NEW n \in Nat, n \in S
      PROVE  n + 1 \in S
  <2> SUFFICES ASSUME n + 1 <= N
               PROVE  \E f : RunsLoop(f, n + 1, Good, s0, step)
    OBVIOUS
  <2>1. PICK f : RunsLoop(f, n, Good, s0, step)
    BY <1>2
  <2> DEFINE g == [k \in 0 .. n + 1 |-> IF k = n + 1 THEN step[<<n, f[n]>>] ELSE f[k]]
  <2>2. /\ g = [k \in 0 .. n + 1 |-> g[k]]
        /\ g[n + 1] = step[<<n, f[n]>>]
        /\ \A k \in 0 .. n : g[k] = f[k]
    OBVIOUS
  <2> HIDE DEF g
  <2>3. g[0] = s0 /\ g[n] = f[n]
    <3>1. f[0] = s0 /\ 0 \in 0 .. n /\ n \in 0 .. n
      BY <2>1 DEF RunsLoop
    <3> QED
      BY <2>2, <3>1
  <2>4. <<n, g[n]>> \in Good /\ n \in 0 .. N - 1
    BY <2>1, <2>3 DEF RunsLoop
  <2>5. <<n + 1, g[n + 1]>> \in Good
    BY <2>2, <2>3, <2>4 DEF RoundsKeep
  <2>6. ASSUME NEW k \in 1 .. n + 1
        PROVE  <<k - 1, g[k - 1]>> \in Good /\ g[k] = step[<<k - 1, g[k - 1]>>]
    <3>1. CASE k = n + 1
      <4>1. k - 1 = n
        BY <3>1
      <4> QED
        BY <2>2, <2>3, <2>4, <3>1, <4>1
    <3>2. CASE k # n + 1
      <4>1. k \in 1 .. n /\ k \in 0 .. n /\ k - 1 \in 0 .. n
        BY <3>2
      <4> QED
        BY <2>1, <2>2, <4>1 DEF RunsLoop
    <3> QED
      BY <3>1, <3>2
  <2>7. RunsLoop(g, n + 1, Good, s0, step)
    BY <2>2, <2>3, <2>5, <2>6 DEF RunsLoop
  <2> QED
    BY <2>7
<1> HIDE DEF S
<1>3. Nat \subseteq S
  BY <1>1, <1>2, NatInd
<1>4. N \in S
  BY <1>3
<1> QED
  BY <1>4 DEF S

\* What every round keeps holds at the end.
LEMMA LoopKeeps ==
    ASSUME NEW N \in Nat, NEW Good, NEW f, <<0, f[0]>> \in Good,
           \A k \in 1 .. N : <<k - 1, f[k - 1]>> \in Good => <<k, f[k]>> \in Good
    PROVE  <<N, f[N]>> \in Good
<1> DEFINE T == {k \in 0 .. N : <<k, f[k]>> \in Good}
<1>1. 0 \in T
  OBVIOUS
<1>2. ASSUME NEW k \in 0 .. N - 1, k \in T
      PROVE  k + 1 \in T
  <2>1. k + 1 \in 1 .. N /\ k + 1 \in 0 .. N /\ (k + 1) - 1 = k
    OBVIOUS
  <2> QED
    BY <1>2, <2>1
<1> HIDE DEF T
<1>3. 0 .. N \subseteq T
  BY <1>1, <1>2, IntervalInd
<1>4. N \in 0 .. N
  OBVIOUS
<1> QED
  BY <1>3, <1>4 DEF T
=============================================================================
