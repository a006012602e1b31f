------------------------------- MODULE NatFacts -------------------------------
(***************************************************************************)
(* Facts about naturals, recursions and loops that several proofs cite.     *)
(***************************************************************************)
EXTENDS Integers, WellFoundedInduction, TLAPS

(***************************************************************************)
(* Every non-empty set of naturals has a least element: the nearest leader  *)
(* (leader_selector.cpp:57-64) and the first detected merge zone            *)
(* (frenet_planner.cpp) exist.                                              *)
(***************************************************************************)
LEMMA LeastElement ==
  ASSUME NEW T \in SUBSET Nat, T # {}
  PROVE  \E x \in T : \A y \in T : x <= y
<1> DEFINE Less == {p \in Nat \X Nat : p[1] < p[2]}
<1>1. IsWellFoundedOn(Less, Nat)
  BY NatLessThanWellFounded DEF OpToRel
<1>2. PICK x \in T : \A y \in T : ~ (<<y, x>> \in Less)
  <2> HIDE DEF Less
  <2> QED
    BY <1>1, WFMin
<1>3. ASSUME NEW y \in T PROVE x <= y
  <2>1. x \in Nat /\ y \in Nat
    OBVIOUS
  <2>2. <<y, x>> \notin Less
    BY <1>2
  <2>3. ~ (y < x)
    BY <2>1, <2>2
  <2>4. QED
    BY <2>1, <2>3
<1>4. QED
  BY <1>3

\* f begins with a and goes on by F.
Recurs(f, a, N, F) == f[0] = a /\ \A k \in 1..N : f[k] = F[k][f[k - 1]]

(***************************************************************************)
(* A recursion over 0..N that stays in a set has a solution: predictions    *)
(* and sums that the model writes as recursive functions are functions.     *)
(***************************************************************************)
LEMMA RecursionHasSolution ==
  ASSUME NEW S, NEW a \in S, NEW N \in Nat, NEW F \in [1..N -> [S -> S]]
  PROVE  \E f \in [0..N -> S] : Recurs(f, a, N, F)
<1> DEFINE Solves(f, n) == f[0] = a /\ \A k \in 1..n : f[k] = F[k][f[k - 1]]
           Solvable(n) == \E f \in [0..n -> S] : Solves(f, n)
           T == {n \in 0..N : ~Solvable(n)}
<1>1. SUFFICES Solvable(N)
  BY DEF Recurs
<1>2. SUFFICES ASSUME T # {} PROVE FALSE
  <2>1. N \in 0..N
    OBVIOUS
  <2> HIDE DEF Solvable
  <2>2. QED
    BY <2>1
<1>3. PICK n \in T : \A y \in T : n <= y
  <2>1. T \in SUBSET Nat
    OBVIOUS
  <2> HIDE DEF T
  <2>2. QED
    BY <1>2, <2>1, LeastElement
<1>4. n \in 0..N /\ ~Solvable(n)
  OBVIOUS
<1>5. CASE n = 0
  <2> DEFINE f == [i \in 0..0 |-> a]
  <2>1. f \in [0..0 -> S] /\ Solves(f, 0)
    OBVIOUS
  <2> HIDE DEF f, Solves
  <2>2. QED
    BY <1>4, <1>5, <2>1
<1>6. CASE n # 0
  <2>1. n - 1 \in 0..N /\ ~ (n <= n - 1) /\ n \in 1..N
    BY <1>4, <1>6
  <2>2. Solvable(n - 1)
    <3>1. n - 1 \notin T
      BY <1>3, <2>1
    <3>2. QED
      BY <2>1, <3>1
  <2>3. PICK f \in [0..n - 1 -> S] : Solves(f, n - 1)
    BY <2>2
  <2> DEFINE g == [i \in 0..n |-> IF i = n THEN F[n][f[n - 1]] ELSE f[i]]
  <2>4. f[n - 1] \in S
    BY <2>1
  <2>5. F[n][f[n - 1]] \in S
    BY <2>1, <2>4
  <2>6. g \in [0..n -> S]
    <3>1. \A i \in 0..n : i # n => f[i] \in S
      BY <2>1
    <3>2. QED
      BY <2>5, <3>1
  <2>7. Solves(g, n)
    <3>1. g[0] = a
      BY <2>1, <2>3
    <3>2. ASSUME NEW k \in 1..n PROVE g[k] = F[k][g[k - 1]]
      <4>1. g[k - 1] = f[k - 1]
        BY <2>1
      <4>2. CASE k = n
        BY <4>1, <4>2
      <4>3. CASE k # n
        <5>1. g[k] = f[k] /\ k \in 1..n - 1
          BY <2>1, <4>3
        <5>2. f[k] = F[k][f[k - 1]]
          BY <2>3, <5>1
        <5>3. QED
          BY <4>1, <5>1, <5>2
      <4>4. QED
        BY <4>2, <4>3
    <3>3. QED
      BY <3>1, <3>2
  <2> HIDE DEF g, Solves
  <2>8. QED
    BY <1>4, <2>6, <2>7
<1>7. QED
  BY <1>5, <1>6

(***************************************************************************)
(* Two functions over 0..N that begin alike and step alike are the same.    *)
(***************************************************************************)
LEMMA StepsAlike ==
  ASSUME NEW N \in Nat, NEW f, NEW g,
         f[0] = g[0],
         \A k \in 1..N : f[k - 1] = g[k - 1] => f[k] = g[k]
  PROVE  \A k \in 0..N : f[k] = g[k]
<1> DEFINE T == {n \in 0..N : f[n] # g[n]}
<1>1. SUFFICES ASSUME T # {} PROVE FALSE
  OBVIOUS
<1>2. PICK n \in T : \A y \in T : n <= y
  <2>1. T \in SUBSET Nat
    OBVIOUS
  <2> HIDE DEF T
  <2>2. QED
    BY <1>1, <2>1, LeastElement
<1>3. n \in 0..N /\ f[n] # g[n] /\ n # 0
  OBVIOUS
<1>4. n - 1 \in 0..N /\ ~ (n <= n - 1) /\ n \in 1..N
  BY <1>3
<1>5. f[n - 1] = g[n - 1]
  <2>1. n - 1 \notin T
    BY <1>2, <1>4
  <2>2. QED
    BY <1>4, <2>1
<1>6. QED
  BY <1>3, <1>4, <1>5

\* f is what the loop from x returns: it ends at Final with out.
IsResult(f, X, Step, Final, out) ==
  f = [x \in X |-> IF x \in Final THEN out[x] ELSE f[Step[x]]]

(***************************************************************************)
(* A loop has a result: for any step there is a function that is the result *)
(* where the loop ends and the value after the step everywhere else.  A     *)
(* search that the model writes as a function that calls itself last is     *)
(* therefore what its definition says, also where it would not end.         *)
(***************************************************************************)
LEMMA LoopHasResult ==
  ASSUME NEW X, NEW Step \in [X -> X], NEW Final \in SUBSET X, NEW out
  PROVE  \E f : IsResult(f, X, Step, Final, out)
<1> DEFINE Orbit(g, n, x) == /\ g \in [0..n -> X] /\ g[0] = x
                             /\ \A i \in 1..n : g[i - 1] \notin Final /\ g[i] = Step[g[i - 1]]
           Ends(x, a) == \E n \in Nat : \E g : Orbit(g, n, x) /\ g[n] \in Final /\ a = out[g[n]]
           f == [x \in X |-> IF \E a : Ends(x, a) THEN CHOOSE a : Ends(x, a) ELSE 0]
\* Orbits from the same place go the same way.
<1>1. ASSUME NEW x, NEW n \in Nat, NEW m \in Nat, n <= m, NEW g, NEW h,
             Orbit(g, n, x), Orbit(h, m, x)
      PROVE  \A i \in 0..n : g[i] = h[i]
  <2>1. g[0] = h[0]
    BY <1>1
  <2>2. \A i \in 1..n : g[i - 1] = h[i - 1] => g[i] = h[i]
    BY <1>1
  <2> HIDE DEF Orbit
  <2>3. QED
    BY <2>1, <2>2, StepsAlike
<1>2. ASSUME NEW x, NEW n \in Nat, NEW m \in Nat, n <= m, NEW g, NEW h,
             Orbit(g, n, x), Orbit(h, m, x), g[n] \in Final
      PROVE  g[n] = h[m]
  <2>1. n \in 0..n /\ g[n] = h[n]
    <3> HIDE DEF Orbit
    <3> QED BY <1>1, <1>2
  <2>2. CASE n = m
    BY <2>1, <2>2
  <2>3. CASE n # m
    <3>1. n + 1 \in 1..m /\ (n + 1) - 1 = n
      BY <1>2, <2>3
    <3>2. h[n] \notin Final
      BY <1>2, <3>1
    <3>3. QED
      BY <1>2, <2>1, <3>2
  <2>4. QED
    BY <2>2, <2>3
<1>3. ASSUME NEW x, NEW a, NEW b, Ends(x, a), Ends(x, b)
      PROVE  a = b
  <2> HIDE DEF Orbit
  <2>1a. PICK n \in Nat : \E g : Orbit(g, n, x) /\ g[n] \in Final /\ a = out[g[n]]
    BY <1>3
  <2>1. PICK g : Orbit(g, n, x) /\ g[n] \in Final /\ a = out[g[n]]
    BY <2>1a
  <2>2a. PICK m \in Nat : \E h : Orbit(h, m, x) /\ h[m] \in Final /\ b = out[h[m]]
    BY <1>3
  <2>2. PICK h : Orbit(h, m, x) /\ h[m] \in Final /\ b = out[h[m]]
    BY <2>2a
  <2>3. CASE n <= m
    BY <1>2, <2>1, <2>2, <2>3
  <2>4. CASE m <= n
    BY <1>2, <2>1, <2>2, <2>4
  <2>5. QED
    BY <2>3, <2>4
<1>4. ASSUME NEW x \in X, x \in Final
      PROVE  Ends(x, out[x])
  <2> DEFINE g == [i \in 0..0 |-> x]
  <2>1. Orbit(g, 0, x) /\ g[0] = x
    OBVIOUS
  <2> HIDE DEF g, Orbit
  <2>2. QED
    BY <1>4, <2>1
<1>5. ASSUME NEW x \in X, x \notin Final, NEW a, Ends(Step[x], a)
      PROVE  Ends(x, a)
  <2>1a. PICK n \in Nat : \E g : Orbit(g, n, Step[x]) /\ g[n] \in Final /\ a = out[g[n]]
    BY <1>5
  <2>1. PICK g : Orbit(g, n, Step[x]) /\ g[n] \in Final /\ a = out[g[n]]
    BY <2>1a
  <2> DEFINE h == [i \in 0..n + 1 |-> IF i = 0 THEN x ELSE g[i - 1]]
  <2>2. h \in [0..n + 1 -> X] /\ h[0] = x
    BY <2>1
  <2>3. ASSUME NEW i \in 1..n + 1
        PROVE  h[i - 1] \notin Final /\ h[i] = Step[h[i - 1]]
    <3>1. CASE i = 1
      BY <1>5, <2>1, <3>1
    <3>2. CASE i # 1
      <4>1. i - 1 \in 1..n /\ i - 1 # 0 /\ i # 0 /\ i \in 0..n + 1 /\ i - 1 \in 0..n + 1
        BY <3>2
      <4>2. h[i - 1] = g[(i - 1) - 1] /\ h[i] = g[i - 1]
        BY <4>1
      <4>3. g[(i - 1) - 1] \notin Final /\ g[i - 1] = Step[g[(i - 1) - 1]]
        BY <2>1, <4>1
      <4>4. QED
        BY <4>2, <4>3
    <3>3. QED
      BY <3>1, <3>2
  <2>4. h[n + 1] = g[n] /\ n + 1 \in Nat
    OBVIOUS
  <2> HIDE DEF h
  <2>5. Orbit(h, n + 1, x)
    BY <2>2, <2>3
  <2> HIDE DEF Orbit
  <2>6. QED
    BY <2>1, <2>4, <2>5
<1>6. ASSUME NEW x \in X, x \notin Final, NEW a, Ends(x, a)
      PROVE  Ends(Step[x], a)
  <2>1a. PICK n \in Nat : \E g : Orbit(g, n, x) /\ g[n] \in Final /\ a = out[g[n]]
    BY <1>6
  <2>1. PICK g : Orbit(g, n, x) /\ g[n] \in Final /\ a = out[g[n]]
    BY <2>1a
  <2>2. n # 0
    BY <1>6, <2>1
  <2> DEFINE h == [i \in 0..n - 1 |-> g[i + 1]]
  <2>3. h \in [0..n - 1 -> X] /\ h[0] = Step[x] /\ h[n - 1] = g[n] /\ n - 1 \in Nat
    <3>1. 0 \in 0..n - 1 /\ n - 1 \in 0..n - 1 /\ 1 \in 1..n /\ (n - 1) + 1 = n
      BY <2>2
    <3>2. h[0] = g[1] /\ h[n - 1] = g[n]
      BY <3>1
    <3>3. g[1] = Step[g[0]] /\ g[0] = x
      BY <2>1, <3>1
    <3>4. \A i \in 0..n - 1 : i + 1 \in 0..n /\ g[i + 1] \in X
      BY <2>1
    <3>5. h \in [0..n - 1 -> X]
      BY <3>4
    <3>6. QED
      BY <2>2, <3>2, <3>3, <3>5
  <2>4. ASSUME NEW i \in 1..n - 1
        PROVE  h[i - 1] \notin Final /\ h[i] = Step[h[i - 1]]
    <3>1. i + 1 \in 1..n /\ (i + 1) - 1 = i /\ (i - 1) + 1 = i
          /\ i \in 0..n - 1 /\ i - 1 \in 0..n - 1
      OBVIOUS
    <3>2. h[i - 1] = g[i] /\ h[i] = g[i + 1]
      BY <3>1
    <3>3. g[(i + 1) - 1] \notin Final /\ g[i + 1] = Step[g[(i + 1) - 1]]
      BY <2>1, <3>1
    <3>4. QED
      BY <3>1, <3>2, <3>3
  <2> HIDE DEF h
  <2>5. Orbit(h, n - 1, Step[x])
    BY <2>3, <2>4
  <2> HIDE DEF Orbit
  <2>6. QED
    BY <2>1, <2>3, <2>5
<1> HIDE DEF Orbit, Ends
<1>7. ASSUME NEW x \in X, NEW a, Ends(x, a)
      PROVE  f[x] = a
  <2>1. Ends(x, CHOOSE b : Ends(x, b))
    BY <1>7, Zenon
  <2>2. f[x] = CHOOSE b : Ends(x, b)
    BY <1>7, Zenon
  <2>3. QED
    BY <1>3, <1>7, <2>1, <2>2, Zenon
<1>8. ASSUME NEW x \in X, ~ \E a : Ends(x, a)
      PROVE  f[x] = 0
  BY <1>8, Zenon
<1>9. ASSUME NEW x \in X
      PROVE  f[x] = IF x \in Final THEN out[x] ELSE f[Step[x]]
  <2>1. CASE x \in Final
    BY <1>4, <1>7, <2>1, Zenon
  <2>2. CASE x \notin Final /\ \E a : Ends(x, a)
    <3>1. PICK a : Ends(x, a)
      BY <2>2
    <3>2. Ends(Step[x], a) /\ Step[x] \in X
      BY <1>6, <2>2, <3>1
    <3>3. f[x] = a /\ f[Step[x]] = a
      BY <1>7, <3>1, <3>2, Zenon
    <3>4. QED
      BY <2>2, <3>3, Zenon
  <2>3. CASE x \notin Final /\ ~ \E a : Ends(x, a)
    <3>1. Step[x] \in X /\ ~ \E a : Ends(Step[x], a)
      BY <1>5, <2>3
    <3>2. f[x] = 0 /\ f[Step[x]] = 0
      BY <1>8, <2>3, <3>1, Zenon
    <3>3. QED
      BY <2>3, <3>2, Zenon
  <2>4. QED
    BY <2>1, <2>2, <2>3
<1>10. f = [x \in X |-> f[x]]
  OBVIOUS
<1> HIDE DEF f
<1>11. [x \in X |-> f[x]] = [x \in X |-> IF x \in Final THEN out[x] ELSE f[Step[x]]]
  BY <1>9
<1>12. f = [x \in X |-> IF x \in Final THEN out[x] ELSE f[Step[x]]]
  BY <1>10, <1>11, Zenon
<1>13. IsResult(f, X, Step, Final, out)
  BY <1>12, Zenon DEF IsResult
<1>14. QED
  BY <1>13


\* A product grows with its first factor.
LEMMA ProductMonotone ==
  ASSUME NEW a \in Nat, NEW b \in Nat, NEW w \in Nat, a <= b
  PROVE  /\ a * w \in Nat /\ b * w \in Nat /\ a * w <= b * w
         /\ a < b => a * w + w <= b * w
<1>1. PICK k \in Nat : b = a + k
  <2>1. b - a \in Nat /\ b = a + (b - a)
    OBVIOUS
  <2>2. QED
    BY <2>1
<1>2. b * w = a * w + k * w /\ k * w \in Nat /\ a * w \in Nat
  BY <1>1
<1>3. CASE k = 0
  BY <1>1, <1>2, <1>3
<1>4. CASE k # 0
  <2>1. PICK j \in Nat : k = j + 1
    <3>1. k - 1 \in Nat /\ k = (k - 1) + 1
      BY <1>4
    <3>2. QED
      BY <3>1
  <2>2. k * w = j * w + w /\ j * w \in Nat
    BY <2>1
  <2>3. QED
    BY <1>2, <2>2
<1>5. QED
  BY <1>3, <1>4

(***************************************************************************)
(* Ranks made of a multiple of w and a remainder below w are compared by    *)
(* the multiple first: they measure what is left of a retry within a retry. *)
(***************************************************************************)
LEMMA RankFalls ==
  ASSUME NEW w \in Nat \ {0}, NEW a \in Nat, NEW b \in Nat,
         NEW s \in 0..w - 1, NEW t \in 0..w - 1
  PROVE  /\ a * w + s \in Nat
         /\ b <= a /\ t <= s => b * w + t <= a * w + s
         /\ b <= a /\ t < s => b * w + t < a * w + s
         /\ b + 1 <= a => b * w + t < a * w + s
<1> DEFINE p == a * w
           q == b * w
<1>1. /\ p \in Nat /\ q \in Nat
      /\ b <= a => q <= p
      /\ b + 1 <= a => q + w <= p
  <2>1. a * w \in Nat /\ b * w \in Nat
    OBVIOUS
  <2>2. ASSUME b <= a PROVE b * w <= a * w /\ (b < a => b * w + w <= a * w)
    BY <2>2, ProductMonotone
  <2>3. b + 1 <= a => b < a /\ b <= a
    OBVIOUS
  <2>4. QED
    BY <2>1, <2>2, <2>3
<1>2. SUFFICES /\ p + s \in Nat
               /\ b <= a /\ t <= s => q + t <= p + s
               /\ b <= a /\ t < s => q + t < p + s
               /\ b + 1 <= a => q + t < p + s
  OBVIOUS
<1> HIDE DEF p, q
<1>3. QED
  BY <1>1

(***************************************************************************)
(* A sum that begins lower and grows by no more at each step ends lower.    *)
(***************************************************************************)
LEMMA SumsOrdered ==
  ASSUME NEW N \in Nat, NEW f \in [0..N -> Int], NEW g \in [0..N -> Int],
         f[0] <= g[0],
         \A k \in 1..N : f[k - 1] <= g[k - 1] => f[k] <= g[k]
  PROVE  f[N] <= g[N]
<1> DEFINE T == {n \in 0..N : ~ (f[n] <= g[n])}
<1>1. SUFFICES ASSUME T # {} PROVE FALSE
  <2>1. N \in 0..N
    OBVIOUS
  <2>2. QED
    BY <2>1
<1>2. PICK n \in T : \A y \in T : n <= y
  <2>1. T \in SUBSET Nat
    OBVIOUS
  <2> HIDE DEF T
  <2>2. QED
    BY <1>1, <2>1, LeastElement
<1>3. n \in 0..N /\ ~ (f[n] <= g[n]) /\ n # 0
  OBVIOUS
<1>4. n - 1 \in 0..N /\ ~ (n <= n - 1) /\ n \in 1..N
  BY <1>3
<1>5. f[n - 1] <= g[n - 1]
  <2>1. n - 1 \notin T
    BY <1>2, <1>4
  <2>2. QED
    BY <1>4, <2>1
<1>6. QED
  BY <1>3, <1>4, <1>5
=============================================================================
