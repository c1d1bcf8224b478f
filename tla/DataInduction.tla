---------------------------- MODULE DataInduction ----------------------------
(***************************************************************************)
(* Induction on the natural numbers with a set in the place of the         *)
(* predicate, and the existence of a function defined by recursion on a    *)
(* prefix of them.  What a loop over the lines of a text computes is       *)
(* proved with these two.                                                  *)
(***************************************************************************)
EXTENDS Integers, WellFoundedInduction, TLAPS

(* A set with 0 that is closed under the successor has every natural number. *)
LEMMA SetInduction ==
    ASSUME NEW S, 0 \in S, \A n \in Nat : n \in S => n + 1 \in S
    PROVE  Nat \subseteq S
<1> DEFINE T == Nat \ S
           R == OpToRel(<, Nat)
<1>1. IsWellFoundedOn(R, Nat)
  BY NatLessThanWellFounded
<1>2. \A x, y \in Nat : y < x => <<y, x>> \in R
  BY DEF OpToRel
<1>3. ASSUME T # {} PROVE FALSE
  <2>1. PICK x \in T : \A y \in T : ~(<<y, x>> \in R)
    <3> HIDE DEF R
    <3>1. T \subseteq Nat
      OBVIOUS
    <3> HIDE DEF T
    <3> QED BY <1>1, <1>3, <3>1, WFMin
  <2> HIDE DEF R
  <2>2. x \in Nat /\ x # 0 /\ x - 1 \in Nat
    OBVIOUS
  <2>3. x - 1 \in T
    BY <2>2
  <2>4. x - 1 < x
    BY <2>2
  <2>5. <<x - 1, x>> \in R
    BY <1>2, <2>2, <2>4
  <2> HIDE DEF T
  <2> QED BY <2>1, <2>3, <2>5
<1> QED BY <1>3

(* What holds of 0 and passes from each number below N to the next holds up  *)
(* to N: the invariant of a loop of N turns, as the set of the numbers of    *)
(* turns after which it holds.                                               *)
LEMMA LoopInduction ==
    ASSUME NEW N \in Nat, NEW S, 0 \in S,
           \A n \in 0..N : n \in S /\ n < N => n + 1 \in S
    PROVE  0..N \subseteq S
<1> DEFINE T == {n \in Nat : n <= N => n \in S}
<1>1. 0 \in T
  OBVIOUS
<1>2. ASSUME NEW n \in Nat, n \in T PROVE n + 1 \in T
  <2>1. CASE n + 1 <= N
    <3>1. n \in S /\ n \in 0..N /\ n < N
      BY <1>2, <2>1
    <3>2. n + 1 \in S
      BY <3>1
    <3> QED BY <3>2
  <2> QED BY <2>1
<1>3. Nat \subseteq T
  <2> HIDE DEF T
  <2> QED BY <1>1, <1>2, SetInduction
<1> QED BY <1>3

(* The states of a loop of N turns from `start`, whose turn n maps the state *)
(* s to turn[n][s].                                                          *)
LoopStates(N, State, start, turn) ==
    {f \in [0..N -> State] : f[0] = start /\ \A n \in 1..N : f[n] = turn[n][f[n - 1]]}

(* Every loop has a function of its states.                                  *)
LEMMA LoopStatesExist ==
    ASSUME NEW N \in Nat, NEW State, NEW start \in State,
           NEW turn \in [1..N -> [State -> State]]
    PROVE  LoopStates(N, State, start, turn) # {}
<1> DEFINE Runs(m) ==
        {f \in [0..m -> State] :
            f[0] = start /\ \A n \in 1..m : f[n] = turn[n][f[n - 1]]}
           S == {m \in 0..N : Runs(m) # {}}
<1>1. 0 \in S
  <2>1. [n \in 0..0 |-> start] \in Runs(0)
    OBVIOUS
  <2> QED BY <2>1
<1>2. ASSUME NEW m \in 0..N, m \in S, m < N PROVE m + 1 \in S
  <2>1. PICK f \in [0..m -> State] :
           f[0] = start /\ \A n \in 1..m : f[n] = turn[n][f[n - 1]]
    BY <1>2
  <2> DEFINE g == [n \in 0..(m + 1) |-> IF n = m + 1 THEN turn[m + 1][f[m]] ELSE f[n]]
  <2>2. m + 1 \in 1..N /\ f[m] \in State
    BY <1>2, <2>1
  <2>3. turn[m + 1][f[m]] \in State
    BY <2>2
  <2>4. g \in [0..(m + 1) -> State]
    BY <2>1, <2>3
  <2>5. g[0] = start
    BY <2>1
  <2>6. \A n \in 1..(m + 1) : g[n] = turn[n][g[n - 1]]
    <3>1. TAKE n \in 1..(m + 1)
    <3>2. n - 1 \in 0..m /\ n - 1 # m + 1
      OBVIOUS
    <3>3. g[n - 1] = f[n - 1]
      BY <3>2
    <3>4. CASE n = m + 1
      BY <3>3, <3>4
    <3>5. CASE n # m + 1
      BY <2>1, <3>3, <3>5
    <3> QED BY <3>4, <3>5
  <2>7. g \in Runs(m + 1)
    <3> HIDE DEF g
    <3> QED BY <2>4, <2>5, <2>6
  <2> HIDE DEF Runs
  <2> QED BY <1>2, <2>7
<1>3. N \in S
  <2> HIDE DEF S
  <2>1. 0..N \subseteq S
    BY <1>1, <1>2, LoopInduction
  <2> QED BY <2>1
<1> QED BY <1>3 DEF LoopStates
=============================================================================
