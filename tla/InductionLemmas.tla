-------------------------- MODULE InductionLemmas --------------------------
(***************************************************************************)
(* Induction by a least counterexample, and with it the sums of the        *)
(* community modules: what SumFunctionOnSet adds up does not depend on the *)
(* order in which it chooses the elements.                                 *)
(***************************************************************************)
EXTENDS Integers, Functions, FiniteSetTheorems, WellFoundedInduction, TLAPS

(* Among finite sets one contains no other.                                *)
LEMMA MinimalSet ==
  ASSUME NEW F, F # {}, \A X \in F : IsFiniteSet(X)
  PROVE  \E X \in F : \A Y \in F : Y \subseteq X => Y = X
<1> DEFINE U == UNION F
<1>1. F \subseteq FiniteSubsetsOf(U) BY DEF FiniteSubsetsOf
<1>2. PICK X \in F : \A Y \in F : ~(<<Y, X>> \in StrictSubsetOrdering(U))
  BY <1>1, FS_StrictSubsetOrderingWellFounded, WFMin
<1>3. SUFFICES ASSUME NEW Y \in F, Y \subseteq X PROVE Y = X OBVIOUS
<1>4. <<Y, X>> \in (SUBSET U) \X (SUBSET U) OBVIOUS
<1> QED BY <1>2, <1>3, <1>4 DEF StrictSubsetOrdering

LEMMA LeastNatural ==
  ASSUME NEW S, S \subseteq Nat, S # {}
  PROVE  \E n \in S : \A m \in S : n <= m
<1> DEFINE F == {1 .. n : n \in S}
<1>1. F # {} OBVIOUS
<1>2. \A X \in F : IsFiniteSet(X) BY FS_Interval
<1>3. PICK X \in F : \A Y \in F : Y \subseteq X => Y = X
  <2> HIDE DEF F
  <2> QED BY <1>1, <1>2, MinimalSet
<1>4. PICK n \in S : X = 1 .. n OBVIOUS
<1>5. ASSUME NEW m \in S, m < n PROVE FALSE
  <2>1. 1 .. m \subseteq 1 .. n BY <1>5
  <2>2. 1 .. m = 1 .. n BY <2>1, <1>3, <1>4
  <2>3. n \in 1 .. n BY <1>5
  <2>4. n \notin 1 .. m BY <1>5
  <2> QED BY <2>2, <2>3, <2>4
<1> QED BY <1>5

-----------------------------------------------------------------------------
(* The function that SumFunctionOnSet recurses through.                    *)

Choice(s) == CHOOSE x \in s : TRUE
Adds(f, S, g) ==
  g = [s \in SUBSET S |-> IF s = {} THEN 0 ELSE f[Choice(s)] + g[s \ {Choice(s)}]]

LEMMA SumIsChosen ==
  ASSUME NEW f, NEW S
  PROVE  SumFunctionOnSet(f, S) = (CHOOSE g : Adds(f, S, g))[S]
BY DEF SumFunctionOnSet, FoldFunctionOnSet, MapThenFoldSet, Adds, Choice

LEMMA AddsAt ==
  ASSUME NEW f, NEW S, NEW g, Adds(f, S, g), NEW s \in SUBSET S
  PROVE  /\ s = {} => g[s] = 0
         /\ s # {} => Choice(s) \in s /\ g[s] = f[Choice(s)] + g[s \ {Choice(s)}]
<1>1. s # {} => Choice(s) \in s BY DEF Choice
<1>2. \A t \in SUBSET S : g[t] = IF t = {} THEN 0 ELSE f[Choice(t)] + g[t \ {Choice(t)}]
  BY Zenon DEF Adds
<1>3. g[s] = IF s = {} THEN 0 ELSE f[Choice(s)] + g[s \ {Choice(s)}] BY <1>2
<1> QED BY <1>1, <1>3

(* It has one value at most for every finite set.                          *)
LEMMA AddsAgree ==
  ASSUME NEW f, NEW S, NEW T, NEW g, NEW h, Adds(f, S, g), Adds(f, T, h),
         NEW s \in SUBSET (S \cap T), IsFiniteSet(s)
  PROVE  g[s] = h[s]
<1> DEFINE F == {t \in SUBSET s : g[t] # h[t]}
<1>1. SUFFICES ASSUME F # {} PROVE FALSE OBVIOUS
<1>2. \A X \in F : IsFiniteSet(X) BY FS_Subset
<1>3. PICK X \in F : \A Y \in F : Y \subseteq X => Y = X
  <2> HIDE DEF F
  <2> QED BY <1>1, <1>2, MinimalSet
<1>4. X \in SUBSET S /\ X \in SUBSET T OBVIOUS
<1>5. X # {} BY <1>4, AddsAt
<1>6. /\ Choice(X) \in X /\ g[X] = f[Choice(X)] + g[X \ {Choice(X)}]
      /\ h[X] = f[Choice(X)] + h[X \ {Choice(X)}]
  BY <1>4, <1>5, AddsAt
<1>7. X \ {Choice(X)} \notin F BY <1>3, <1>6
<1>8. g[X \ {Choice(X)}] = h[X \ {Choice(X)}] BY <1>7
<1> QED BY <1>6, <1>8

(* It exists for every finite set.                                         *)
LEMMA AddsExists ==
  ASSUME NEW f, NEW S, IsFiniteSet(S)
  PROVE  \E g : Adds(f, S, g)
<1> DEFINE F == {t \in SUBSET S : ~ \E g : Adds(f, t, g)}
<1>1. SUFFICES ASSUME F # {} PROVE FALSE OBVIOUS
<1>2. \A X \in F : IsFiniteSet(X) BY FS_Subset
<1>3. PICK X \in F : \A Y \in F : Y \subseteq X => Y = X
  <2> HIDE DEF F
  <2> QED BY <1>1, <1>2, MinimalSet
<1> DEFINE G(t) == CHOOSE g : Adds(f, t, g)
<1>4. \A t \in SUBSET X : t # X => Adds(f, t, G(t)) /\ IsFiniteSet(t)
  <2>1. SUFFICES ASSUME NEW t \in SUBSET X, t # X
                 PROVE  Adds(f, t, G(t)) /\ IsFiniteSet(t) OBVIOUS
  <2>2. t \notin F BY <1>3, <2>1
  <2>3. \E g : Adds(f, t, g) BY <2>2
  <2> QED BY <2>3, <1>2, FS_Subset
<1> HIDE DEF G, F
<1> DEFINE val(t) == G(t)[t]
           h == [s \in SUBSET X |-> IF s = {} THEN 0 ELSE f[Choice(s)] + val(s \ {Choice(s)})]
<1>5. ASSUME NEW t \in SUBSET X, t # X PROVE h[t] = val(t)
  <2>1. Adds(f, t, G(t)) BY <1>4, <1>5
  <2>2. CASE t = {} BY <2>1, <2>2, AddsAt
  <2>3. CASE t # {}
    <3> DEFINE u == t \ {Choice(t)}
    <3>1. Choice(t) \in t /\ val(t) = f[Choice(t)] + G(t)[u] BY <2>1, <2>3, AddsAt
    <3>2. u \in SUBSET X /\ u # X /\ u \in SUBSET (t \cap u) BY <1>5, <3>1
    <3>3. Adds(f, u, G(u)) /\ IsFiniteSet(u) BY <1>4, <3>2
    <3>4. G(t)[u] = G(u)[u] BY <2>1, <3>2, <3>3, AddsAgree
    <3> QED BY <2>3, <3>1, <3>4
  <2> QED BY <2>2, <2>3
<1>6. h = [s \in SUBSET X |-> IF s = {} THEN 0 ELSE f[Choice(s)] + h[s \ {Choice(s)}]]
  <2>1. ASSUME NEW s \in SUBSET X, s # {}
        PROVE  val(s \ {Choice(s)}) = h[s \ {Choice(s)}]
    <3>1. Choice(s) \in s BY <2>1 DEF Choice
    <3>2. s \ {Choice(s)} \in SUBSET X /\ s \ {Choice(s)} # X BY <3>1
    <3> HIDE DEF h, val
    <3> QED BY <3>2, <1>5
  <2> HIDE DEF val
  <2>2. h = [s \in SUBSET X |-> IF s = {} THEN 0 ELSE f[Choice(s)] + val(s \ {Choice(s)})]
    OBVIOUS
  <2> HIDE DEF h
  <2> QED BY <2>1, <2>2
<1>7. Adds(f, X, h)
  <2> HIDE DEF h
  <2> QED BY <1>6 DEF Adds
<1> QED BY <1>7 DEF F

LEMMA SumAdds ==
  ASSUME NEW f, NEW S, IsFiniteSet(S)
  PROVE  \E g : Adds(f, S, g) /\ SumFunctionOnSet(f, S) = g[S]
<1>1. Adds(f, S, CHOOSE g : Adds(f, S, g)) BY AddsExists
<1> QED BY <1>1, SumIsChosen

LEMMA SumChosen ==
  ASSUME NEW f, NEW S, IsFiniteSet(S)
  PROVE  /\ S = {} => SumFunctionOnSet(f, S) = 0
         /\ S # {} =>
              /\ Choice(S) \in S
              /\ SumFunctionOnSet(f, S) = f[Choice(S)] + SumFunctionOnSet(f, S \ {Choice(S)})
<1>1. PICK g : Adds(f, S, g) /\ SumFunctionOnSet(f, S) = g[S] BY SumAdds
<1>2. CASE S = {} BY <1>1, <1>2, AddsAt
<1>3. CASE S # {}
  <2> DEFINE T == S \ {Choice(S)}
  <2>1. Choice(S) \in S /\ g[S] = f[Choice(S)] + g[T] BY <1>1, <1>3, AddsAt
  <2>2. IsFiniteSet(T) BY FS_Subset
  <2>3. PICK h : Adds(f, T, h) /\ SumFunctionOnSet(f, T) = h[T]
    <3> HIDE DEF T
    <3> QED BY <2>2, SumAdds
  <2>4. T \in SUBSET (S \cap T) OBVIOUS
  <2>5. g[T] = h[T]
    <3> HIDE DEF T
    <3> QED BY <1>1, <2>2, <2>3, <2>4, AddsAgree
  <2> QED BY <1>1, <1>3, <2>1, <2>3, <2>5
<1> QED BY <1>2, <1>3

-----------------------------------------------------------------------------
(* Sums of integers.                                                       *)

(* Any element may be taken out first.                                     *)
LEMMA SumTakesOut ==
  ASSUME NEW f, NEW S, IsFiniteSet(S), \A i \in S : f[i] \in Int
  PROVE  /\ SumFunctionOnSet(f, S) \in Int
         /\ \A y \in S : SumFunctionOnSet(f, S) = f[y] + SumFunctionOnSet(f, S \ {y})
<1> DEFINE Sum(t) == SumFunctionOnSet(f, t)
           Fine(t) == Sum(t) \in Int /\ \A y \in t : Sum(t) = f[y] + Sum(t \ {y})
           F == {t \in SUBSET S : ~Fine(t)}
<1>1. SUFFICES ASSUME F # {} PROVE FALSE OBVIOUS
<1>2. \A X \in F : IsFiniteSet(X) BY FS_Subset
<1>3. PICK X \in F : \A Y \in F : Y \subseteq X => Y = X
  <2> HIDE DEF F
  <2> QED BY <1>1, <1>2, MinimalSet
<1>4. X \in SUBSET S /\ IsFiniteSet(X) /\ ~Fine(X) BY <1>2
<1>5. \A Y \in SUBSET X : Y # X => Fine(Y)
  <2> HIDE DEF Fine
  <2> QED BY <1>3
<1>6. /\ X = {} => Sum(X) = 0
      /\ X # {} => Choice(X) \in X /\ Sum(X) = f[Choice(X)] + Sum(X \ {Choice(X)})
  BY <1>4, SumChosen
<1> HIDE DEF F, Sum
<1>7. X # {} BY <1>4, <1>6
<1> DEFINE x == Choice(X)
<1>8. x \in X /\ Sum(X) = f[x] + Sum(X \ {x}) BY <1>6, <1>7
<1> HIDE DEF x
<1>9. Sum(X \ {x}) \in Int /\ f[x] \in Int BY <1>4, <1>5, <1>8
<1>10. ASSUME NEW y \in X PROVE Sum(X) = f[y] + Sum(X \ {y})
  <2>1. CASE y = x BY <1>8, <2>1
  <2>2. CASE y # x
    <3>1. (X \ {x}) \ {y} = (X \ {y}) \ {x} OBVIOUS
    <3>2. /\ y \in X \ {x} /\ X \ {x} \in SUBSET X /\ X \ {x} # X
          /\ x \in X \ {y} /\ X \ {y} \in SUBSET X /\ X \ {y} # X
          /\ (X \ {x}) \ {y} \in SUBSET X /\ (X \ {x}) \ {y} # X
      BY <1>8, <2>2
    <3>3. Sum(X \ {x}) = f[y] + Sum((X \ {x}) \ {y}) BY <3>2, <1>5
    <3>4. Sum(X \ {y}) = f[x] + Sum((X \ {y}) \ {x}) BY <3>2, <1>5
    <3>5. Sum((X \ {x}) \ {y}) \in Int /\ f[y] \in Int BY <3>2, <1>4, <1>5
    <3>6. f[x] + (f[y] + Sum((X \ {x}) \ {y})) = f[y] + (f[x] + Sum((X \ {x}) \ {y}))
      BY <3>5, <1>9
    <3> QED BY <3>1, <3>3, <3>4, <3>6, <1>8
  <2> QED BY <2>1, <2>2
<1> QED BY <1>4, <1>8, <1>9, <1>10

LEMMA SumOfNone ==
  ASSUME NEW f
  PROVE  SumFunctionOnSet(f, {}) = 0
BY SumChosen, FS_EmptySet

(* Sums over the same elements are the same.                               *)
LEMMA SumSame ==
  ASSUME NEW f, NEW g, NEW S, IsFiniteSet(S), \A i \in S : f[i] = g[i]
  PROVE  SumFunctionOnSet(f, S) = SumFunctionOnSet(g, S)
<1> DEFINE F == {t \in SUBSET S : SumFunctionOnSet(f, t) # SumFunctionOnSet(g, t)}
<1>1. SUFFICES ASSUME F # {} PROVE FALSE OBVIOUS
<1>2. \A X \in F : IsFiniteSet(X) BY FS_Subset
<1>3. PICK X \in F : \A Y \in F : Y \subseteq X => Y = X
  <2> HIDE DEF F
  <2> QED BY <1>1, <1>2, MinimalSet
<1>4. X # {} BY SumOfNone
<1>5. /\ Choice(X) \in X /\ IsFiniteSet(X)
      /\ SumFunctionOnSet(f, X) = f[Choice(X)] + SumFunctionOnSet(f, X \ {Choice(X)})
      /\ SumFunctionOnSet(g, X) = g[Choice(X)] + SumFunctionOnSet(g, X \ {Choice(X)})
  BY <1>2, <1>4, SumChosen
<1>6. X \ {Choice(X)} \notin F BY <1>3, <1>5
<1>7. SumFunctionOnSet(f, X \ {Choice(X)}) = SumFunctionOnSet(g, X \ {Choice(X)})
  BY <1>6
<1> QED BY <1>5, <1>7

(* Sums up to an index.                                                    *)
LEMMA SumUpTo ==
  ASSUME NEW f, NEW n \in Nat, \A i \in 1 .. n : f[i] \in Nat, NEW k \in 1 .. n
  PROVE  /\ SumFunctionOnSet(f, 1 .. k) = SumFunctionOnSet(f, 1 .. k - 1) + f[k]
         /\ SumFunctionOnSet(f, 1 .. k - 1) \in Int
<1>1. \A i \in 1 .. k : f[i] \in Int OBVIOUS
<1>2. IsFiniteSet(1 .. k) /\ IsFiniteSet(1 .. k - 1) BY FS_Interval
<1>3. (1 .. k) \ {k} = 1 .. k - 1 /\ k \in 1 .. k OBVIOUS
<1>4. SumFunctionOnSet(f, 1 .. k) = f[k] + SumFunctionOnSet(f, 1 .. k - 1)
  BY <1>1, <1>2, <1>3, SumTakesOut
<1>5. \A i \in 1 .. k - 1 : f[i] \in Int BY <1>1
<1>6. SumFunctionOnSet(f, 1 .. k - 1) \in Int BY <1>2, <1>5, SumTakesOut
<1> QED BY <1>1, <1>4, <1>6

(* What holds of 0 and goes over from each number to the next holds up to  *)
(* a bound.                                                                *)
LEMMA UpTo ==
  ASSUME NEW n \in Nat, NEW P, 0 \in P, \A k \in 1 .. n : k - 1 \in P => k \in P
  PROVE  0 .. n \subseteq P
<1> DEFINE S == {k \in 0 .. n : k \notin P}
<1>1. SUFFICES ASSUME S # {} PROVE FALSE OBVIOUS
<1>2. S \subseteq Nat OBVIOUS
<1>3. PICK k \in S : \A m \in S : k <= m
  <2> HIDE DEF S
  <2> QED BY <1>1, <1>2, LeastNatural
<1>4. k \in 1 .. n /\ k - 1 \in 0 .. n BY <1>3
<1>5. k - 1 \notin S BY <1>2, <1>3
<1> QED BY <1>3, <1>4, <1>5

LEMMA SumIsNatural ==
  ASSUME NEW f, NEW n \in Nat, \A i \in 1 .. n : f[i] \in Nat
  PROVE  \A k \in 0 .. n : SumFunctionOnSet(f, 1 .. k) \in Nat
<1> DEFINE P == {k \in 0 .. n : SumFunctionOnSet(f, 1 .. k) \in Nat}
<1>1. 0 \in P
  <2>1. 1 .. 0 = {} OBVIOUS
  <2> QED BY <2>1, SumOfNone
<1>2. ASSUME NEW k \in 1 .. n, k - 1 \in P PROVE k \in P
  <2>1. SumFunctionOnSet(f, 1 .. k) = SumFunctionOnSet(f, 1 .. k - 1) + f[k]
    BY SumUpTo
  <2>2. SumFunctionOnSet(f, 1 .. k - 1) \in Nat /\ f[k] \in Nat BY <1>2
  <2> QED BY <2>1, <2>2
<1> HIDE DEF P
<1>3. 0 .. n \subseteq P BY <1>1, <1>2, UpTo
<1> QED BY <1>3 DEF P

(* A function read from its other end has the same sum.                    *)
LEMMA SumReversed ==
  ASSUME NEW f, NEW g, NEW n \in Nat, \A i \in 1 .. n : f[i] \in Nat,
         \A i \in 1 .. n : g[i] = f[n + 1 - i]
  PROVE  SumFunctionOnSet(g, 1 .. n) = SumFunctionOnSet(f, 1 .. n)
<1> DEFINE P == {k \in 0 .. n : SumFunctionOnSet(g, 1 .. k) = SumFunctionOnSet(f, n + 1 - k .. n)}
<1>1. 0 \in P
  <2>1. 1 .. 0 = {} /\ n + 1 - 0 .. n = {} OBVIOUS
  <2> QED BY <2>1, SumOfNone
<1>2. ASSUME NEW k \in 1 .. n, k - 1 \in P PROVE k \in P
  <2> DEFINE T == n + 1 - k .. n
  <2>1. \A i \in 1 .. n : g[i] \in Nat OBVIOUS
  <2>2. SumFunctionOnSet(g, 1 .. k) = SumFunctionOnSet(g, 1 .. k - 1) + g[k]
    BY <2>1, SumUpTo
  <2>3. IsFiniteSet(T) /\ n + 1 - k \in T /\ \A i \in T : f[i] \in Int
    <3>1. n + 1 - k \in Int /\ n \in Int OBVIOUS
    <3>2. IsFiniteSet(T) BY <3>1, FS_Interval
    <3>3. n + 1 - k \in T /\ T \subseteq 1 .. n OBVIOUS
    <3> QED BY <3>2, <3>3
  <2>4. T \ {n + 1 - k} = n + 1 - (k - 1) .. n OBVIOUS
  <2>5. /\ SumFunctionOnSet(f, T) = f[n + 1 - k] + SumFunctionOnSet(f, T \ {n + 1 - k})
        /\ f[n + 1 - k] \in Int
    <3> DEFINE m == n + 1 - k
    <3>1. IsFiniteSet(T) /\ m \in T /\ \A i \in T : f[i] \in Int BY <2>3
    <3> HIDE DEF T, m
    <3>2. SumFunctionOnSet(f, T) = f[m] + SumFunctionOnSet(f, T \ {m}) /\ f[m] \in Int
      BY <3>1, SumTakesOut
    <3> QED BY <3>2 DEF m
  <2>6. SumFunctionOnSet(f, T \ {n + 1 - k}) \in Int
    <3>1. IsFiniteSet(T \ {n + 1 - k}) BY <2>3, FS_Subset
    <3> QED BY <3>1, <2>3, SumTakesOut
  <2>7. SumFunctionOnSet(g, 1 .. k - 1) = SumFunctionOnSet(f, T \ {n + 1 - k})
    BY <1>2, <2>4
  <2> QED BY <2>2, <2>5, <2>6, <2>7
<1> HIDE DEF P
<1>3. 0 .. n \subseteq P BY <1>1, <1>2, UpTo
<1>4. n \in P BY <1>3
<1>5. n + 1 - n .. n = 1 .. n OBVIOUS
<1> QED BY <1>4, <1>5 DEF P

(* A window that moves on by one slot loses its last summand.              *)
LEMMA SumShifted ==
  ASSUME NEW f, NEW g, NEW n \in Nat, \A i \in 1 .. n : f[i] \in Nat,
         \A i \in 1 .. n : g[i] = IF i = 1 THEN 0 ELSE f[i - 1]
  PROVE  \A k \in 1 .. n : SumFunctionOnSet(g, 1 .. k) = SumFunctionOnSet(f, 1 .. k - 1)
<1>0. \A i \in 1 .. n : g[i] \in Nat OBVIOUS
<1> DEFINE P == {k \in 0 .. n :
                   k > 0 => SumFunctionOnSet(g, 1 .. k) = SumFunctionOnSet(f, 1 .. k - 1)}
<1>1. 0 \in P OBVIOUS
<1>2. ASSUME NEW k \in 1 .. n, k - 1 \in P PROVE k \in P
  <2>1. SumFunctionOnSet(g, 1 .. k) = SumFunctionOnSet(g, 1 .. k - 1) + g[k]
    BY <1>0, SumUpTo
  <2>2. CASE k = 1
    <3>1. 1 .. k - 1 = {} BY <2>2
    <3> QED BY <2>1, <2>2, <3>1, SumOfNone
  <2>3. CASE k > 1
    <3>1. SumFunctionOnSet(g, 1 .. k - 1) = SumFunctionOnSet(f, 1 .. k - 1 - 1)
      BY <1>2, <2>3
    <3>2. SumFunctionOnSet(f, 1 .. k - 1) = SumFunctionOnSet(f, 1 .. k - 1 - 1) + f[k - 1]
      BY <2>3, SumUpTo
    <3>3. g[k] = f[k - 1] BY <2>3
    <3> QED BY <2>1, <3>1, <3>2, <3>3
  <2> QED BY <2>2, <2>3
<1> HIDE DEF P
<1>3. 0 .. n \subseteq P BY <1>1, <1>2, UpTo
<1> QED BY <1>3 DEF P

(* One more in the first slot is one more in every sum up to a later one.  *)
LEMMA SumFirstMore ==
  ASSUME NEW f, NEW g, NEW n \in Nat, \A i \in 1 .. n : f[i] \in Nat,
         \A i \in 1 .. n : g[i] = IF i = 1 THEN f[i] + 1 ELSE f[i]
  PROVE  \A k \in 1 .. n : SumFunctionOnSet(g, 1 .. k) = SumFunctionOnSet(f, 1 .. k) + 1
<1> DEFINE P == {k \in 0 .. n :
                   k > 0 => SumFunctionOnSet(g, 1 .. k) = SumFunctionOnSet(f, 1 .. k) + 1}
<1>0. \A i \in 1 .. n : g[i] \in Nat OBVIOUS
<1>1. 0 \in P OBVIOUS
<1>2. ASSUME NEW k \in 1 .. n, k - 1 \in P PROVE k \in P
  <2>1. SumFunctionOnSet(g, 1 .. k) = SumFunctionOnSet(g, 1 .. k - 1) + g[k]
    BY <1>0, SumUpTo
  <2>2. /\ SumFunctionOnSet(f, 1 .. k) = SumFunctionOnSet(f, 1 .. k - 1) + f[k]
        /\ SumFunctionOnSet(f, 1 .. k - 1) \in Int /\ f[k] \in Nat
    BY SumUpTo
  <2>3. CASE k = 1
    <3>1. 1 .. k - 1 = {} BY <2>3
    <3>2. SumFunctionOnSet(g, 1 .. k - 1) = SumFunctionOnSet(f, 1 .. k - 1)
      BY <3>1, SumOfNone
    <3> QED BY <2>1, <2>2, <2>3, <3>2
  <2>4. CASE k > 1
    <3>1. SumFunctionOnSet(g, 1 .. k - 1) = SumFunctionOnSet(f, 1 .. k - 1) + 1
      BY <1>2, <2>4
    <3> QED BY <2>1, <2>2, <2>4, <3>1
  <2> QED BY <2>3, <2>4
<1> HIDE DEF P
<1>3. 0 .. n \subseteq P BY <1>1, <1>2, UpTo
<1> QED BY <1>3 DEF P
=============================================================================
