-------------------------- MODULE JobHandlersProofs --------------------------
(***************************************************************************)
(* The handlers compute what they should, for all parameters: the          *)
(* arithmetic of calc, the statistics of every list of numbers, and every  *)
(* Fibonacci number that is asked for.                                     *)
(*                                                                         *)
(* The inductions are over sets: a set of natural numbers that has 0 and   *)
(* with each number the next is Nat.                                       *)
(***************************************************************************)
EXTENDS JobHandlers, FiniteSetTheorems, FunctionTheorems, TLAPS

-----------------------------------------------------------------------------
(* Induction and recursion, stated for sets and functions *)

\* Every set of natural numbers but the empty one has a least element.
LEMMA LeastOf ==
  ASSUME NEW S, S \subseteq Nat, S # {}
  PROVE  \E m \in S : \A k \in S : m =< k
<1>. DEFINE R == OpToRel(<, Nat)
<1>1. IsWellFoundedOn(R, Nat)
  BY NatLessThanWellFounded
<1>2. \A j, k \in Nat : <<j, k>> \in R <=> j < k
  BY DEF OpToRel
<1>. HIDE DEF R
<1>3. PICK m \in S : \A k \in S : ~(<<k, m>> \in R)
  BY <1>1, WFMin
<1>4. m \in Nat
  OBVIOUS
<1>. SUFFICES ASSUME NEW k \in S
              PROVE  m =< k
  OBVIOUS
<1>5. k \in Nat /\ ~(<<k, m>> \in R)
  BY <1>3
<1>6. ~(k < m)
  BY <1>2, <1>4, <1>5
<1>. QED
  BY <1>4, <1>5, <1>6

LEMMA SetInduction ==
  ASSUME NEW S, 0 \in S, \A n \in Nat : n \in S => n + 1 \in S
  PROVE  Nat \subseteq S
<1>. SUFFICES ASSUME Nat \ S # {}
              PROVE  FALSE
  OBVIOUS
<1>1. PICK m \in Nat \ S : \A k \in Nat \ S : m =< k
  BY LeastOf
<1>2. m # 0 /\ m - 1 \in Nat /\ m - 1 \in S
  BY <1>1
<1>. QED
  BY <1>1, <1>2

\* f[0] is v, and each value of f the step from the one before.
Iterates(f, v, step, n) == f[0] = v /\ \A i \in 1..n : f[i] = step[<<f[i - 1], i>>]

\* What is defined by going from each place to the next exists.
LEMMA Iteration ==
  ASSUME NEW V, NEW v \in V, NEW step \in [V \X Nat -> V], NEW n \in Nat
  PROVE  \E f \in [0..n -> V] : Iterates(f, v, step, n)
<1>. DEFINE Fits(f, m) == f[0] = v /\ \A i \in 1..m : f[i] = step[<<f[i - 1], i>>]
            S == {m \in Nat : \E f \in [0..m -> V] : Fits(f, m)}
<1>1. 0 \in S
  <2>. DEFINE f == [i \in 0..0 |-> v]
  <2>1. f \in [0..0 -> V] /\ Fits(f, 0)
    OBVIOUS
  <2>. QED
    BY <2>1
<1>2. ASSUME NEW m \in Nat, m \in S
      PROVE  m + 1 \in S
  <2>1. PICK f \in [0..m -> V] : Fits(f, m)
    BY <1>2
  <2>. DEFINE g == [i \in 0..(m + 1) |-> IF i = m + 1 THEN step[<<f[m], m + 1>>] ELSE f[i]]
  <2>2. f[m] \in V /\ step[<<f[m], m + 1>>] \in V
    OBVIOUS
  <2>3. g \in [0..(m + 1) -> V]
    BY <2>2
  <2>4. ASSUME NEW i \in 1..(m + 1)
        PROVE  g[i] = step[<<g[i - 1], i>>]
    <3>1. CASE i = m + 1
      <4>1. g[i] = step[<<f[m], m + 1>>] /\ g[m] = f[m] /\ i - 1 = m
        BY <3>1
      <4>. QED
        BY <3>1, <4>1
    <3>2. CASE i # m + 1
      <4>1. i \in 1..m /\ g[i] = f[i] /\ g[i - 1] = f[i - 1]
        BY <3>2
      <4>. QED
        BY <2>1, <4>1
    <3>. QED
      BY <3>1, <3>2
  <2>5. g[0] = v
    BY <2>1
  <2>6. Fits(g, m + 1)
    <3>. HIDE DEF g
    <3>. QED
      BY <2>4, <2>5
  <2>. HIDE DEF g, Fits
  <2>. QED
    BY <2>3, <2>6
<1>3. n \in S
  <2>. HIDE DEF S
  <2>. QED
    BY <1>1, <1>2, SetInduction
<1>. QED
  BY <1>3 DEF Iterates

-----------------------------------------------------------------------------
(* fib *)

LEMMA PassOfFib ==
  /\ FibPass \in [0..39 -> Nat \X Nat] /\ FibPass[0] = <<0, 1>>
  /\ \A i \in 1..39 : FibPass[i] = <<FibPass[i - 1][2], FibPass[i - 1][1] + FibPass[i - 1][2]>>
<1>. DEFINE V == Nat \X Nat
            start == <<0, 1>>
            last == 39
            step == [x \in V \X Nat |-> FibStep[x[1]]]
            IsPass(f) == f = [i \in 0..39 |-> IF i = 0 THEN <<0, 1>> ELSE FibStep[f[i - 1]]]
<1>1. FibStep = [ab \in V |-> <<ab[2], ab[1] + ab[2]>>]
  BY DEF FibStep
<1>2. step \in [V \X Nat -> V]
  BY <1>1
<1>3. PICK f \in [0..last -> V] : Iterates(f, start, step, last)
  <2>1. start \in V /\ last \in Nat
    OBVIOUS
  <2>. HIDE DEF step, V, start, last
  <2>. QED
    BY <1>2, <2>1, Iteration
<1>4. ASSUME NEW i \in 1..39
      PROVE  f[i] = FibStep[f[i - 1]]
  <2>1. i \in Nat /\ f[i - 1] \in V
    OBVIOUS
  <2>2. f[i] = step[<<f[i - 1], i>>]
    BY <1>3 DEF Iterates
  <2>. HIDE DEF V
  <2>. QED
    BY <2>1, <2>2
<1>5. IsPass(f)
  <2>1. f = [i \in 0..39 |-> f[i]]
    OBVIOUS
  <2>2. f[0] = <<0, 1>>
    BY <1>3 DEF Iterates
  <2>3. \A i \in 0..39 : f[i] = IF i = 0 THEN <<0, 1>> ELSE FibStep[f[i - 1]]
    <3>. HIDE DEF step, V
    <3>. QED
      BY <1>4, <2>2
  <2>. QED
    BY <2>1, <2>3
<1>6. FibPass = CHOOSE g : IsPass(g)
  BY DEF FibPass
<1>7. IsPass(FibPass)
  <2>. HIDE DEF IsPass
  <2>. QED
    BY <1>5, <1>6
<1>8. FibPass[0] = <<0, 1>> /\ \A i \in 1..39 : FibPass[i] = FibStep[FibPass[i - 1]]
  BY <1>7
<1>9. FibPass \in [0..39 -> V]
  <2>. DEFINE S == {m \in Nat : m =< 39 => FibPass[m] \in V}
  <2>1. 0 \in S
    BY <1>8
  <2>2. ASSUME NEW m \in Nat, m \in S
        PROVE  m + 1 \in S
    <3>. SUFFICES ASSUME m + 1 =< 39
                  PROVE  FibPass[m + 1] \in V
      OBVIOUS
    <3>1. FibPass[m] \in V /\ FibPass[m + 1] = FibStep[FibPass[m]]
      BY <1>8, <2>2
    <3>. QED
      BY <1>1, <3>1
  <2>3. Nat \subseteq S
    <3>. HIDE DEF S
    <3>. QED
      BY <2>1, <2>2, SetInduction
  <2>4. \A m \in 0..39 : FibPass[m] \in V
    BY <2>3
  <2>5. DOMAIN FibPass = 0..39 /\ FibPass = [m \in DOMAIN FibPass |-> FibPass[m]]
    BY <1>7
  <2>. QED
    BY <2>4, <2>5
<1>10. ASSUME NEW i \in 1..39
       PROVE  FibPass[i] = <<FibPass[i - 1][2], FibPass[i - 1][1] + FibPass[i - 1][2]>>
  <2>1. i - 1 \in 0..39 /\ FibPass[i - 1] \in V
    BY <1>9
  <2>. QED
    BY <1>1, <1>8, <2>1
<1>. QED
  BY <1>8, <1>9, <1>10

\* The components of a pass.
LEMMA PassTypes ==
  \A i \in 0..39 : FibPass[i][1] \in Nat /\ FibPass[i][2] \in Nat
<1>. SUFFICES ASSUME NEW i \in 0..39
              PROVE  FibPass[i][1] \in Nat /\ FibPass[i][2] \in Nat
  OBVIOUS
<1>1. FibPass[i] \in Nat \X Nat
  BY PassOfFib
<1>. QED
  BY <1>1

LEMMA FibRecurrence ==
  /\ Fib(0) = 0 /\ Fib(1) = 1 /\ \A n \in 0..40 : Fib(n) \in Nat
  /\ \A n \in 2..40 : Fib(n) = Fib(n - 1) + Fib(n - 2)
<1>1. \A n \in 0..40 : Fib(n) \in Nat
  BY PassTypes DEF Fib
<1>2. Fib(0) = 0 /\ Fib(1) = 1
  BY DEF Fib
<1>3. FibPass[1] = <<1, 1>>
  BY PassOfFib
<1>4. ASSUME NEW n \in 2..40
      PROVE  Fib(n) = Fib(n - 1) + Fib(n - 2)
  <2>1. CASE n = 2
    BY <1>2, <1>3, <2>1 DEF Fib
  <2>2. CASE n # 2
    <3>1. /\ n - 1 \in 1..39 /\ n - 2 \in 1..39 /\ FibPass[n - 2] \in Nat \X Nat
          /\ Fib(n) = FibPass[n - 1][2] /\ Fib(n - 1) = FibPass[n - 2][2]
      <4>1. n - 1 \in 1..39 /\ n - 2 \in 1..39 /\ n - 2 \in 0..39 /\ (n - 1) - 1 = n - 2
            /\ ~(n < 2) /\ ~(n - 1 < 2)
        BY <2>2
      <4>. QED
        BY <4>1, PassOfFib DEF Fib
    <3>2. FibPass[n - 1] = <<FibPass[n - 2][2], FibPass[n - 2][1] + FibPass[n - 2][2]>>
      <4>1. (n - 1) - 1 = n - 2
        OBVIOUS
      <4>. QED
        BY <3>1, <4>1, PassOfFib
    <3>3. FibPass[n - 2][1] = Fib(n - 2)
      <4>1. CASE n = 3
        BY <1>2, <1>3, <4>1
      <4>2. CASE n # 3
        <5>1. n - 2 \in 1..39 /\ (n - 2) - 1 = n - 3 /\ ~(n - 2 < 2)
          BY <2>2, <4>2
        <5>2. FibPass[n - 2] = <<FibPass[n - 3][2], FibPass[n - 3][1] + FibPass[n - 3][2]>>
          BY <5>1, PassOfFib
        <5>. QED
          BY <5>1, <5>2 DEF Fib
      <4>. QED
        BY <4>1, <4>2
    <3>4. Fib(n) = Fib(n - 2) + Fib(n - 1)
      BY <3>1, <3>2, <3>3
    <3>5. Fib(n - 1) \in Nat /\ Fib(n - 2) \in Nat
      BY <1>1
    <3>. QED
      BY <3>4, <3>5
  <2>. QED
    BY <2>1, <2>2
<1>. QED
  BY <1>1, <1>2, <1>4

\* What follows from the recurrence over half the way.
LEMMA FibDoubles ==
  /\ \A k \in 1..20 : Fib(2 * k) = Fib(k) * (2 * Fib(k - 1) + Fib(k))
  /\ \A k \in 1..19 : Fib(2 * k + 1) = Fib(k + 1) * Fib(k + 1) + Fib(k) * Fib(k)
<1>. DEFINE Even(k) == Fib(2 * k) = Fib(k) * (2 * Fib(k - 1) + Fib(k))
            Odd(k) == Fib(2 * k + 1) = Fib(k + 1) * Fib(k + 1) + Fib(k) * Fib(k)
            S == {k \in Nat : (k \in 1..20 => Even(k)) /\ (k \in 1..19 => Odd(k))}
<1>1. 0 \in S
  OBVIOUS
<1>2. ASSUME NEW k \in Nat, k \in S
      PROVE  k + 1 \in S
  <2>1. CASE k = 0
    <3>1. Fib(2) = 1 /\ Fib(3) = 2
      <4>1. /\ 2 \in 2..40 /\ 2 - 1 = 1 /\ 2 - 2 = 0
            /\ 3 \in 2..40 /\ 3 - 1 = 2 /\ 3 - 2 = 1
        OBVIOUS
      <4>2. Fib(2) = Fib(1) + Fib(0) /\ Fib(3) = Fib(2) + Fib(1)
        BY <4>1, FibRecurrence
      <4>. QED
        BY <4>2, FibRecurrence
    <3>2. Fib(2) = Fib(1) * (2 * Fib(0) + Fib(1)) /\ Fib(3) = Fib(2) * Fib(2) + Fib(1) * Fib(1)
      <4>1. Fib(0) = 0 /\ Fib(1) = 1
        BY FibRecurrence
      <4>. QED
        BY <3>1, <4>1
    <3>3. /\ 2 * (k + 1) = 2 /\ 2 * (k + 1) + 1 = 3 /\ (k + 1) - 1 = 0 /\ k + 1 = 1
          /\ (k + 1) + 1 = 2
      BY <2>1
    <3>. QED
      BY <3>2, <3>3
  <2>2. CASE k \in 1..19
    <3>. DEFINE a == Fib(k - 1)
                b == Fib(k)
                c == Fib(k + 1)
    <3>1. a \in Nat /\ b \in Nat /\ c \in Nat /\ c = b + a
      <4>1. k + 1 \in 2..40 /\ k + 1 \in 0..40 /\ k - 1 \in 0..40 /\ k \in 0..40
            /\ (k + 1) - 1 = k /\ (k + 1) - 2 = k - 1
        BY <2>2
      <4>2. c = Fib((k + 1) - 1) + Fib((k + 1) - 2)
        BY <4>1, FibRecurrence
      <4>. QED
        BY <4>1, <4>2, FibRecurrence
    <3>2. Fib(2 * k) = b * (2 * a + b) /\ Fib(2 * k + 1) = c * c + b * b
      BY <1>2, <2>2
    <3>3. Fib(2 * k + 2) = Fib(2 * k + 1) + Fib(2 * k)
      <4>1. 2 * k + 2 \in 2..40 /\ (2 * k + 2) - 1 = 2 * k + 1 /\ (2 * k + 2) - 2 = 2 * k
        BY <2>2
      <4>2. Fib(2 * k + 2) = Fib((2 * k + 2) - 1) + Fib((2 * k + 2) - 2)
        BY <4>1, FibRecurrence
      <4>. QED
        BY <4>1, <4>2
    <3>4. Fib(2 * k + 2) = c * (2 * b + c)
      <4>. HIDE DEF a, b, c
      <4>1. \A x, y \in Nat : ((y + x) * (y + x) + y * y) + y * (2 * x + y) = (y + x) * (2 * y + (y + x))
        OBVIOUS
      <4>. QED
        BY <3>1, <3>2, <3>3, <4>1
    <3>5. Even(k + 1)
      <4>1. 2 * (k + 1) = 2 * k + 2 /\ (k + 1) - 1 = k
        OBVIOUS
      <4>. QED
        BY <3>4, <4>1
    <3>6. ASSUME k + 1 \in 1..19
          PROVE  Odd(k + 1)
      <4>1. /\ 2 * k + 3 \in 2..40 /\ (2 * k + 3) - 1 = 2 * k + 2 /\ (2 * k + 3) - 2 = 2 * k + 1
            /\ k + 2 \in 2..40 /\ (k + 2) - 1 = k + 1 /\ (k + 2) - 2 = k
            /\ 2 * (k + 1) + 1 = 2 * k + 3 /\ (k + 1) + 1 = k + 2
        BY <3>6
      <4>2. Fib(2 * k + 3) = Fib(2 * k + 2) + Fib(2 * k + 1) /\ Fib(k + 2) = c + b
        BY <4>1, FibRecurrence
      <4>3. Fib(2 * k + 3) = (c + b) * (c + b) + c * c
        <5>. HIDE DEF a, b, c
        <5>1. \A x, y \in Nat : x * (2 * y + x) + (x * x + y * y) = (x + y) * (x + y) + x * x
          OBVIOUS
        <5>. QED
          BY <3>1, <3>2, <3>4, <4>2, <5>1
      <4>. QED
        BY <4>1, <4>2, <4>3
    <3>. QED
      BY <2>2, <3>5, <3>6
  <2>3. CASE k > 19
    BY <2>3
  <2>. QED
    BY <2>1, <2>2, <2>3
<1>3. Nat \subseteq S
  <2>. HIDE DEF S
  <2>. QED
    BY <1>1, <1>2, SetInduction
<1>. QED
  BY <1>3

\* fib returns what Fibonacci is: _fib_iter() solves the equations, and they
\* have one solution.
THEOREM FibIsFibonacci == \A n \in 0..40 : Fib(n) = Fibonacci[n]
<1>. DEFINE Eq(f, n) == IF n < 2 THEN n
                        ELSE LET k == n \div 2
                             IN IF n % 2 = 0 THEN f[k] * (2 * f[k - 1] + f[k])
                                ELSE f[k + 1] * f[k + 1] + f[k] * f[k]
            Solves(f) == f = [n \in 0..40 |-> Eq(f, n)]
            fib == [n \in 0..40 |-> Fib(n)]
<1>1. ASSUME NEW n \in 0..40, n >= 2
      PROVE  LET k == n \div 2
             IN /\ k \in 1..20 /\ k - 1 \in 0..40 /\ k < n /\ k - 1 < n
                /\ n % 2 = 0 => n = 2 * k
                /\ n % 2 # 0 => n = 2 * k + 1 /\ k \in 1..19 /\ k + 1 < n /\ k + 1 \in 0..40
  BY <1>1
<1>2. ASSUME NEW n \in 0..40
      PROVE  fib[n] = Eq(fib, n)
  <2>1. CASE n < 2
    <3>1. Fib(n) = n /\ fib[n] = Fib(n) /\ Eq(fib, n) = n
      BY <2>1 DEF Fib
    <3>. QED
      BY <3>1
  <2>2. CASE n >= 2
    <3>. DEFINE k == n \div 2
    <3>1. CASE n % 2 = 0
      <4>1. k \in 1..20 /\ k - 1 \in 0..40 /\ k \in 0..40 /\ n = 2 * k
        BY <1>1, <2>2, <3>1
      <4>2. Fib(n) = Fib(k) * (2 * Fib(k - 1) + Fib(k))
        BY <4>1, FibDoubles
      <4>3. fib[n] = Fib(n) /\ fib[k] = Fib(k) /\ fib[k - 1] = Fib(k - 1)
        BY <4>1
      <4>4. Eq(fib, n) = fib[k] * (2 * fib[k - 1] + fib[k])
        BY <2>2, <3>1
      <4>. HIDE DEF Eq, fib, k
      <4>. QED
        BY <4>2, <4>3, <4>4
    <3>2. CASE n % 2 # 0
      <4>1. k \in 1..19 /\ k + 1 \in 0..40 /\ k \in 0..40 /\ n = 2 * k + 1
        BY <1>1, <2>2, <3>2
      <4>2. Fib(n) = Fib(k + 1) * Fib(k + 1) + Fib(k) * Fib(k)
        BY <4>1, FibDoubles
      <4>3. fib[n] = Fib(n) /\ fib[k] = Fib(k) /\ fib[k + 1] = Fib(k + 1)
        BY <4>1
      <4>4. Eq(fib, n) = fib[k + 1] * fib[k + 1] + fib[k] * fib[k]
        BY <2>2, <3>2
      <4>. HIDE DEF Eq, fib, k
      <4>. QED
        BY <4>2, <4>3, <4>4
    <3>. QED
      BY <3>1, <3>2
  <2>. QED
    BY <2>1, <2>2
<1>3. Solves(fib)
  <2>1. fib = [n \in 0..40 |-> fib[n]]
    OBVIOUS
  <2>. HIDE DEF Eq, fib
  <2>. QED
    BY <1>2, <2>1
<1>4. Fibonacci = CHOOSE f : Solves(f)
  BY DEF Fibonacci
<1>5. Solves(Fibonacci)
  <2>. HIDE DEF Solves
  <2>. QED
    BY <1>3, <1>4
<1>6. \A n \in 0..40 : Fibonacci[n] = Eq(Fibonacci, n)
  <2>. HIDE DEF Eq
  <2>. QED
    BY <1>5
<1>. DEFINE S == {m \in Nat : \A n \in 0..40 : n =< m => Fibonacci[n] = fib[n]}
<1>7. 0 \in S
  <2>1. Eq(Fibonacci, 0) = 0 /\ Eq(fib, 0) = 0
    OBVIOUS
  <2>. HIDE DEF Eq, fib
  <2>. QED
    BY <1>2, <1>6, <2>1
<1>8. ASSUME NEW m \in Nat, m \in S
      PROVE  m + 1 \in S
  <2>1. ASSUME NEW n \in 0..40, n = m + 1
        PROVE  Eq(Fibonacci, n) = Eq(fib, n)
    <3>1. CASE n < 2
      BY <3>1
    <3>2. CASE n >= 2
      <4>. DEFINE k == n \div 2
      <4>1. /\ k \in 0..40 /\ k - 1 \in 0..40 /\ k =< m /\ k - 1 =< m
            /\ n % 2 # 0 => k + 1 \in 0..40 /\ k + 1 =< m
        BY <1>1, <2>1, <3>2
      <4>2. /\ Fibonacci[k] = fib[k] /\ Fibonacci[k - 1] = fib[k - 1]
            /\ n % 2 # 0 => Fibonacci[k + 1] = fib[k + 1]
        <5>. HIDE DEF fib, k
        <5>. QED
          BY <1>8, <4>1
      <4>3. ASSUME NEW f
            PROVE  Eq(f, n) = IF n % 2 = 0 THEN f[k] * (2 * f[k - 1] + f[k])
                              ELSE f[k + 1] * f[k + 1] + f[k] * f[k]
        BY <3>2
      <4>. HIDE DEF fib, k, Eq
      <4>. QED
        BY <4>2, <4>3
    <3>. QED
      BY <3>1, <3>2
  <2>. HIDE DEF Eq, fib
  <2>2. ASSUME NEW n \in 0..40, n =< m + 1
        PROVE  Fibonacci[n] = fib[n]
    <3>1. CASE n = m + 1
      BY <1>2, <1>6, <2>1, <3>1
    <3>2. CASE n # m + 1
      BY <1>8, <2>2, <3>2
    <3>. QED
      BY <3>1, <3>2
  <2>. QED
    BY <2>2
<1>9. Nat \subseteq S
  <2>. HIDE DEF S
  <2>. QED
    BY <1>7, <1>8, SetInduction
<1>10. 40 \in S
  <2>. HIDE DEF S
  <2>. QED
    BY <1>9
<1>. QED
  BY <1>10

-----------------------------------------------------------------------------
(* calc *)

LEMMA CalcIsRight ==
  ASSUME NEW q, q.op \in Ops, q.a \in Int, q.b \in Int
  PROVE  Right("calc", q, Calc(q))
<1>1. CASE q.op = "div" /\ q.b = 0
  BY <1>1 DEF Calc, Failed, Right
<1>2. CASE ~(q.op = "div" /\ q.b = 0)
  <2>. DEFINE v == CASE q.op = "add" -> <<q.a + q.b, 2>>
                     [] q.op = "sub" -> <<q.a - q.b, 2>>
                     [] q.op = "mul" -> <<q.a * q.b, 4>>
                     [] q.op = "div" -> <<q.a, q.b>>
              r == [op |-> q.op, a |-> q.a, b |-> q.b, result |-> v]
  <2>1. Calc(q) = r
    BY <1>2 DEF Calc
  <2>2. v[2] # 0 /\ /\ q.op = "add" => 2 * v[1] = v[2] * (q.a + q.b)
                    /\ q.op = "sub" => 2 * v[1] = v[2] * (q.a - q.b)
                    /\ q.op = "mul" => 4 * v[1] = v[2] * q.a * q.b
                    /\ q.op = "div" => v[1] * q.b = v[2] * q.a
    <3>1. CASE q.op = "add"
      BY <3>1
    <3>2. CASE q.op = "sub"
      BY <3>2
    <3>3. CASE q.op = "mul"
      <4>1. v = <<q.a * q.b, 4>>
        BY <3>3
      <4>2. 4 * (q.a * q.b) = 4 * q.a * q.b
        OBVIOUS
      <4>. HIDE DEF v
      <4>. QED
        BY <3>3, <4>1, <4>2
    <3>4. CASE q.op = "div"
      BY <1>2, <3>4
    <3>. QED
      BY <3>1, <3>2, <3>3, <3>4 DEF Ops
  <2>. HIDE DEF v
  <2>3. RightCalc(q, r)
    BY <2>2 DEF RightCalc
  <2>4. "error" \notin DOMAIN r
    OBVIOUS
  <2>. HIDE DEF r
  <2>. QED
    BY <2>1, <2>3, <2>4 DEF Right
<1>. QED
  BY <1>1, <1>2

-----------------------------------------------------------------------------
(* stats *)

\* sum() goes through the list from its first value to its last, AddsUpTo from
\* the last to the first; after each place the one has what the other lacks.
LEMMA TotalAddsUp ==
  ASSUME NEW s \in Seq(Int)
  PROVE  Total(s) \in Int /\ AddsUpTo(s, Total(s))
<1>. DEFINE n == Len(s)
            IsPartial(f) == f = [i \in 0..n |-> IF i = 0 THEN 0 ELSE f[i - 1] + s[i]]
            step == [x \in Int \X Nat |-> IF x[2] \in 1..n THEN x[1] + s[x[2]] ELSE 0]
<1>1. n \in Nat /\ \A i \in 1..n : s[i] \in Int
  OBVIOUS
<1>. HIDE DEF n
<1>2. step \in [Int \X Nat -> Int]
  <2>1. ASSUME NEW x \in Int \X Nat
        PROVE  (IF x[2] \in 1..n THEN x[1] + s[x[2]] ELSE 0) \in Int
    <3>1. x[1] \in Int /\ (x[2] \in 1..n => s[x[2]] \in Int)
      BY <1>1
    <3>. QED
      BY <3>1
  <2>. QED
    BY <2>1
<1>3. PICK f \in [0..n -> Int] : Iterates(f, 0, step, n)
  <2>. DEFINE V == Int
              start == 0
  <2>1. start \in V /\ step \in [V \X Nat -> V]
    BY <1>2
  <2>2. \E f \in [0..n -> V] : Iterates(f, start, step, n)
    <3>. HIDE DEF step, V, start
    <3>. QED
      BY <1>1, <2>1, Iteration
  <2>. QED
    BY <2>2
<1>4. ASSUME NEW i \in 1..n
      PROVE  f[i] = f[i - 1] + s[i]
  <2>1. f[i] = step[<<f[i - 1], i>>]
    <3>. HIDE DEF step
    <3>. QED
      BY <1>3 DEF Iterates
  <2>2. i \in Nat /\ f[i - 1] \in Int
    BY <1>1
  <2>. QED
    BY <2>1, <2>2
<1>5. IsPartial(f)
  <2>1. f = [i \in 0..n |-> f[i]]
    OBVIOUS
  <2>2. \A i \in 0..n : f[i] = IF i = 0 THEN 0 ELSE f[i - 1] + s[i]
    <3>1. f[0] = 0
      BY <1>3 DEF Iterates
    <3>. HIDE DEF step
    <3>. QED
      BY <1>1, <1>4, <3>1
  <2>. QED
    BY <2>1, <2>2
<1>. DEFINE g == CHOOSE h : IsPartial(h)
<1>6. IsPartial(g)
  <2>. HIDE DEF IsPartial
  <2>. QED
    BY <1>5
<1>7. Total(s) = g[n]
  BY DEF Total, n
<1>. HIDE DEF g
<1>8. g[0] = 0 /\ \A i \in 1..n : g[i] = g[i - 1] + s[i]
  BY <1>1, <1>6
<1>. DEFINE S == {m \in Nat : m =< n => g[m] \in Int}
<1>9. 0 \in S
  BY <1>8
<1>10. ASSUME NEW m \in Nat, m \in S
       PROVE  m + 1 \in S
  <2>. SUFFICES ASSUME m + 1 =< n
                PROVE  g[m + 1] \in Int
    OBVIOUS
  <2>1. m + 1 \in 1..n /\ (m + 1) - 1 = m /\ g[m] \in Int
    BY <1>1, <1>10
  <2>2. s[m + 1] \in Int /\ g[m + 1] = g[(m + 1) - 1] + s[m + 1]
    BY <1>1, <1>8, <2>1
  <2>. QED
    BY <2>1, <2>2
<1>11. Nat \subseteq S
  <2>. HIDE DEF S
  <2>. QED
    BY <1>9, <1>10, SetInduction
<1>12. \A m \in 0..n : g[m] \in Int
  BY <1>1, <1>11
<1>. HIDE DEF S
<1>. DEFINE IsRest(e) == e = [i \in 1..(n + 1) |-> IF i > n THEN 0 ELSE s[i] + e[i + 1]]
            left == [i \in 1..(n + 1) |-> g[n] - g[i - 1]]
<1>13. IsRest(left)
  <2>1. ASSUME NEW i \in 1..(n + 1)
        PROVE  left[i] = IF i > n THEN 0 ELSE s[i] + left[i + 1]
    <3>1. i - 1 \in 0..n /\ n \in 0..n /\ left[i] = g[n] - g[i - 1]
      BY <1>1
    <3>2. CASE i > n
      <4>1. i - 1 = n
        BY <1>1, <3>2
      <4>. QED
        BY <1>12, <3>1, <3>2, <4>1
    <3>3. CASE ~(i > n)
      <4>1. i \in 1..n /\ i + 1 \in 1..(n + 1) /\ (i + 1) - 1 = i /\ i \in 0..n
        BY <1>1, <3>3
      <4>2. left[i + 1] = g[n] - g[(i + 1) - 1] /\ g[i] = g[i - 1] + s[i]
        BY <1>8, <4>1
      <4>3. left[i + 1] = g[n] - g[i] /\ g[n] \in Int /\ g[i - 1] \in Int /\ s[i] \in Int
        BY <1>1, <1>12, <3>1, <4>1, <4>2
      <4>. HIDE DEF left
      <4>. QED
        BY <3>1, <3>3, <4>2, <4>3
    <3>. QED
      BY <3>2, <3>3
  <2>2. left = [i \in 1..(n + 1) |-> left[i]]
    OBVIOUS
  <2>. HIDE DEF left
  <2>. QED
    BY <2>1, <2>2
<1>. DEFINE rest == CHOOSE e : IsRest(e)
<1>14. IsRest(rest)
  <2>. HIDE DEF IsRest, left
  <2>. QED
    BY <1>13
<1>15. AddsUpTo(s, Total(s)) <=> Total(s) = rest[1]
  BY DEF AddsUpTo, n
<1>. HIDE DEF rest, left
<1>16. rest[n + 1] = 0 /\ \A i \in 1..n : rest[i] = s[i] + rest[i + 1]
  <2>1. \A i \in 1..(n + 1) : rest[i] = IF i > n THEN 0 ELSE s[i] + rest[i + 1]
    BY <1>14
  <2>2. n + 1 \in 1..(n + 1) /\ n + 1 > n /\ \A i \in 1..n : i \in 1..(n + 1) /\ ~(i > n)
    BY <1>1
  <2>. HIDE DEF IsRest
  <2>. QED
    BY <2>1, <2>2
<1>. HIDE DEF IsRest
<1>. DEFINE R == {m \in Nat : m =< n => rest[n + 1 - m] = g[n] - g[n - m]}
<1>17. 0 \in R
  <2>1. n + 1 - 0 = n + 1 /\ n - 0 = n /\ g[n] \in Int
    BY <1>1, <1>12
  <2>. QED
    BY <1>16, <2>1
<1>18. ASSUME NEW m \in Nat, m \in R
       PROVE  m + 1 \in R
  <2>. SUFFICES ASSUME m + 1 =< n
                PROVE  rest[n + 1 - (m + 1)] = g[n] - g[n - (m + 1)]
    OBVIOUS
  <2>. DEFINE i == n - m
  <2>1. /\ i \in 1..n /\ i - 1 \in 0..n /\ i \in 0..n /\ n \in 0..n
        /\ n + 1 - (m + 1) = i /\ n - (m + 1) = i - 1 /\ n + 1 - m = i + 1
    BY <1>1
  <2>2. rest[i + 1] = g[n] - g[i]
    <3>1. rest[n + 1 - m] = g[n] - g[n - m]
      BY <1>1, <1>18
    <3>. QED
      BY <2>1, <3>1
  <2>. HIDE DEF i
  <2>3. rest[i] = s[i] + rest[i + 1] /\ g[i] = g[i - 1] + s[i]
    BY <1>8, <1>16, <2>1
  <2>4. s[i] \in Int /\ g[n] \in Int /\ g[i] \in Int /\ g[i - 1] \in Int
    BY <1>1, <1>12, <2>1
  <2>5. rest[i] = g[n] - g[i - 1]
    BY <2>2, <2>3, <2>4
  <2>. QED
    BY <2>1, <2>5
<1>19. n \in R
  <2>. HIDE DEF R
  <2>. QED
    BY <1>1, <1>17, <1>18, SetInduction
<1>20. Total(s) = rest[1]
  <2>1. rest[n + 1 - n] = g[n] - g[n - n]
    BY <1>1, <1>19
  <2>2. n + 1 - n = 1 /\ n - n = 0 /\ g[n] \in Int
    BY <1>1, <1>12
  <2>. QED
    BY <1>7, <1>8, <2>1, <2>2
<1>21. Total(s) \in Int
  BY <1>1, <1>7, <1>12
<1>. QED
  BY <1>15, <1>20, <1>21

\* p puts s in order.
Orders(p, s) ==
  /\ p \in Bijection(DOMAIN s, DOMAIN s)
  /\ \A i, j \in DOMAIN s : i < j => s[p[i]] =< s[p[j]]

\* Counting, for each position, those that come before it in the order gives
\* the inverse of a sorting permutation.
LEMMA OrderExists ==
  ASSUME NEW s \in Seq(Int)
  PROVE  \E p : Orders(p, s)
<1>. DEFINE n == Len(s)
            D == 1..n
            Before(j, i) == s[j] < s[i] \/ (s[j] = s[i] /\ j =< i)
            Upto(i) == {j \in D : Before(j, i)}
            rank == [i \in D |-> Cardinality(Upto(i))]
<1>1. n \in Nat /\ DOMAIN s = D /\ \A i \in D : s[i] \in Int
  OBVIOUS
<1>. HIDE DEF n
<1>2. IsFiniteSet(D) /\ Cardinality(D) = n
  BY <1>1, FS_Interval
<1>3. ASSUME NEW i \in D
      PROVE  /\ Upto(i) \subseteq D /\ i \in Upto(i) /\ IsFiniteSet(Upto(i)) /\ rank[i] \in D
             /\ rank[i] = Cardinality(Upto(i))
  <2>1. Upto(i) \subseteq D
    OBVIOUS
  <2>2. i \in Upto(i)
    BY <1>1
  <2>3. rank[i] = Cardinality(Upto(i))
    OBVIOUS
  <2>. HIDE DEF D, Upto, rank
  <2>4. IsFiniteSet(Upto(i)) /\ Cardinality(Upto(i)) =< n
    BY <1>2, <2>1, FS_Subset
  <2>5. Cardinality(Upto(i)) \in Nat /\ Cardinality(Upto(i)) # 0
    BY <2>2, <2>4, FS_CardinalityType, FS_EmptySet
  <2>6. rank[i] \in 1..n
    BY <1>1, <2>3, <2>4, <2>5
  <2>. QED
    BY <2>1, <2>2, <2>3, <2>4, <2>6 DEF D
<1>4. ASSUME NEW i \in D, NEW j \in D, Before(j, i), i # j
      PROVE  rank[j] < rank[i]
  <2>1. /\ Upto(j) \subseteq Upto(i) /\ i \notin Upto(j)
        /\ s[i] \in Int /\ s[j] \in Int
    BY <1>1, <1>4
  <2>2. i \in Upto(i) /\ IsFiniteSet(Upto(i)) /\ IsFiniteSet(Upto(j))
        /\ rank[i] = Cardinality(Upto(i)) /\ rank[j] = Cardinality(Upto(j))
    BY <1>3
  <2>. HIDE DEF D, Upto, rank
  <2>3. Upto(j) # Upto(i)
    BY <2>1, <2>2
  <2>4. Cardinality(Upto(j)) =< Cardinality(Upto(i)) /\ Cardinality(Upto(j)) # Cardinality(Upto(i))
    BY <2>1, <2>2, <2>3, FS_Subset
  <2>5. Cardinality(Upto(i)) \in Nat /\ Cardinality(Upto(j)) \in Nat
    BY <2>2, FS_CardinalityType
  <2>. QED
    BY <2>2, <2>4, <2>5
<1>5. ASSUME NEW i \in D, NEW j \in D, i # j
      PROVE  Before(i, j) \/ Before(j, i)
  <2>1. s[i] \in Int /\ s[j] \in Int
    BY <1>1
  <2>. QED
    BY <1>1, <2>1
<1>6. rank \in Injection(D, D)
  <2>1. rank \in [D -> D]
    <3>1. rank = [i \in D |-> rank[i]]
      OBVIOUS
    <3>2. \A i \in D : rank[i] \in D
      BY <1>3
    <3>. HIDE DEF D, rank
    <3>. QED
      BY <3>1, <3>2
  <2>2. \A i, j \in D : rank[i] = rank[j] => i = j
    <3>. SUFFICES ASSUME NEW i \in D, NEW j \in D, i # j
                  PROVE  rank[i] # rank[j]
      OBVIOUS
    <3>1. rank[i] \in Int /\ rank[j] \in Int
      <4>1. rank[i] \in D /\ rank[j] \in D
        BY <1>3
      <4>. HIDE DEF rank
      <4>. QED
        BY <1>1, <4>1
    <3>2. rank[i] < rank[j] \/ rank[j] < rank[i]
      <4>. HIDE DEF D, rank, Before
      <4>. QED
        BY <1>4, <1>5
    <3>. HIDE DEF rank
    <3>. QED
      BY <3>1, <3>2
  <2>. HIDE DEF D, rank
  <2>. QED
    BY <2>1, <2>2, Fun_IsInj
<1>. HIDE DEF rank, Upto, D
<1>7. rank \in Bijection(D, D)
  <2>1. rank \in Surjection(D, D)
    BY <1>2, <1>6, FS_Injection
  <2>. QED
    BY <1>6, <2>1, Fun_IsBij
<1>. DEFINE p == Inverse(rank, D, D)
<1>8. p \in Bijection(D, D)
  BY <1>7, Fun_BijInverse
<1>9. \A i \in D : p[i] \in D /\ rank[p[i]] = i
  <2>1. rank \in [D -> D] /\ Range(rank) = D
    BY <1>7, Fun_BijectionProperties, Fun_SurjectionProperties
  <2>2. \A i \in D : rank[p[i]] = i
    BY <2>1, Fun_InverseProperties
  <2>3. p \in [D -> D]
    BY <1>8, Fun_BijectionProperties
  <2>. HIDE DEF p
  <2>. QED
    BY <2>2, <2>3
<1>. HIDE DEF p
<1>10. ASSUME NEW i \in D, NEW j \in D, i < j
       PROVE  s[p[i]] =< s[p[j]]
  <2>1. p[i] \in D /\ p[j] \in D /\ rank[p[i]] = i /\ rank[p[j]] = j
    BY <1>9
  <2>2. i \in Int /\ j \in Int /\ s[p[i]] \in Int /\ s[p[j]] \in Int
    BY <1>1, <2>1 DEF D
  <2>3. ~Before(p[j], p[i])
    <3>. SUFFICES ASSUME Before(p[j], p[i])
                  PROVE  FALSE
      OBVIOUS
    <3>1. p[i] # p[j]
      BY <1>10, <2>1, <2>2
    <3>2. rank[p[j]] < rank[p[i]]
      <4>. HIDE DEF Before
      <4>. QED
        BY <1>4, <2>1, <3>1
    <3>. QED
      BY <1>10, <2>1, <2>2, <3>2
  <2>. QED
    BY <2>2, <2>3
<1>. QED
  BY <1>1, <1>8, <1>10 DEF Orders

\* sorted() returns the values in such an order.
LEMMA SortedOrders ==
  ASSUME NEW s \in Seq(Int)
  PROVE  \E p : Orders(p, s) /\ Sorted(s) = [i \in DOMAIN s |-> s[p[i]]]
<1>. DEFINE P == Bijection(DOMAIN s, DOMAIN s)
            InOrder(p) == \A i, j \in DOMAIN s : i < j => s[p[i]] =< s[p[j]]
            order == CHOOSE p \in P : InOrder(p)
<1>1. \E p \in P : InOrder(p)
  BY OrderExists DEF Orders
<1>2. order \in P /\ InOrder(order)
  <2>. HIDE DEF P, InOrder
  <2>. QED
    BY <1>1
<1>3. Orders(order, s)
  BY <1>2 DEF Orders
<1>4. Sorted(s) = [i \in DOMAIN s |-> s[order[i]]]
  BY DEF Sorted
<1>. QED
  BY <1>3, <1>4

\* What is at place r of an order has rank r: only values before it are less
\* than it, and none of those up to it is greater.
LEMMA PlaceIsRank ==
  ASSUME NEW s \in Seq(Int), NEW p, Orders(p, s), NEW r \in DOMAIN s
  PROVE  p[r] \in DOMAIN s /\ HasRank(s, s[p[r]], r)
<1>. DEFINE n == Len(s)
            D == 1..n
            x == s[p[r]]
            Less == {i \in D : s[i] < x}
            Most == {i \in D : s[i] =< x}
            First(m) == {p[j] : j \in 1..m}
<1>1. n \in Nat /\ DOMAIN s = D /\ (\A i \in D : s[i] \in Int) /\ r \in D
  OBVIOUS
<1>. HIDE DEF n
<1>2. /\ p \in [D -> D] /\ (\A i, j \in D : p[i] = p[j] => i = j)
      /\ \A i \in D : \E j \in D : p[j] = i
  <2>1. p \in Bijection(D, D)
    BY <1>1 DEF Orders
  <2>. HIDE DEF D
  <2>. QED
    BY <2>1, Fun_BijectionProperties
<1>3. \A i \in D : p[i] \in D /\ s[p[i]] \in Int
  BY <1>1, <1>2
<1>4. \A i, j \in D : i < j => s[p[i]] =< s[p[j]]
  BY <1>1 DEF Orders
<1>5. r \in Int /\ r >= 1 /\ r =< n
  BY <1>1
<1>6. Cardinality(Less) < r
  <2>. DEFINE first == [j \in 1..(r - 1) |-> p[j]]
              T == First(r - 1)
  <2>1. first \in Surjection(1..(r - 1), T)
    <3>1. first \in [1..(r - 1) -> T]
      OBVIOUS
    <3>2. \A t \in T : \E j \in 1..(r - 1) : first[j] = t
      OBVIOUS
    <3>. HIDE DEF first, T
    <3>. QED
      BY <3>1, <3>2, Fun_IsSurj
  <2>2. Less \subseteq T
    <3>. SUFFICES ASSUME NEW i \in D, s[i] < x
                  PROVE  i \in T
      OBVIOUS
    <3>1. PICK j \in D : p[j] = i
      BY <1>2
    <3>2. j \in Int /\ j >= 1 /\ s[p[j]] \in Int /\ s[p[r]] \in Int
      BY <1>1, <1>3
    <3>3. ~(r < j) /\ r # j
      <4>1. s[p[j]] < s[p[r]]
        BY <3>1
      <4>2. r < j => s[p[r]] =< s[p[j]]
        BY <1>1, <1>4
      <4>. QED
        BY <3>2, <4>1, <4>2
    <3>4. j \in 1..(r - 1)
      BY <1>5, <3>2, <3>3
    <3>. QED
      BY <3>1, <3>4
  <2>3. IsFiniteSet(1..(r - 1)) /\ Cardinality(1..(r - 1)) = r - 1
    <3>. DEFINE b == r - 1
    <3>1. b \in Int /\ b >= 0
      BY <1>5
    <3>. HIDE DEF b
    <3>2. IsFiniteSet(1..b) /\ Cardinality(1..b) = IF 1 > b THEN 0 ELSE b - 1 + 1
      BY <3>1, FS_Interval
    <3>3. IsFiniteSet(1..b) /\ Cardinality(1..b) = b
      BY <3>1, <3>2
    <3>. QED
      BY <3>3 DEF b
  <2>. HIDE DEF first, T, Less
  <2>4. IsFiniteSet(T) /\ Cardinality(T) =< r - 1
    BY <2>1, <2>3, FS_Surjection
  <2>5. IsFiniteSet(Less) /\ Cardinality(Less) =< Cardinality(T)
    BY <2>2, <2>4, FS_Subset
  <2>6. Cardinality(Less) \in Int /\ Cardinality(T) \in Int
    BY <2>4, <2>5, FS_CardinalityType
  <2>. QED
    BY <1>5, <2>4, <2>5, <2>6
<1>7. Cardinality(Most) >= r
  <2>. DEFINE upto == [j \in 1..r |-> p[j]]
  <2>1. ASSUME NEW j \in 1..r
        PROVE  j \in D /\ p[j] \in Most
    <3>1. j \in Int /\ j >= 1 /\ j =< r
      BY <1>5
    <3>2. j \in D
      BY <1>1, <1>5, <3>1
    <3>3. s[p[j]] \in Int /\ p[j] \in D
      BY <1>3, <3>2
    <3>4. s[p[j]] =< s[p[r]]
      <4>1. j < r \/ j = r
        BY <1>5, <3>1
      <4>2. j < r => s[p[j]] =< s[p[r]]
        BY <1>1, <1>4, <3>2
      <4>. QED
        BY <3>3, <4>1, <4>2
    <3>. QED
      BY <3>2, <3>3, <3>4
  <2>2. upto \in Injection(1..r, Most)
    <3>1. upto \in [1..r -> Most]
      <4>. HIDE DEF Most
      <4>. QED
        BY <2>1
    <3>2. \A i, j \in 1..r : upto[i] = upto[j] => i = j
      <4>. HIDE DEF Most, D
      <4>. QED
        BY <1>2, <2>1
    <3>. HIDE DEF upto, Most
    <3>. QED
      BY <3>1, <3>2, Fun_IsInj
  <2>3. IsFiniteSet(1..r) /\ Cardinality(1..r) = r
    BY <1>5, FS_Interval
  <2>4. IsFiniteSet(D) /\ Most \subseteq D
    BY <1>1, FS_Interval
  <2>. HIDE DEF upto, Most, D
  <2>5. IsFiniteSet(Most)
    BY <2>4, FS_Subset
  <2>. QED
    BY <2>2, <2>3, <2>5, FS_Injection
<1>8. HasRank(s, x, r)
  <2>1. Less = {i \in DOMAIN s : s[i] < x} /\ Most = {i \in DOMAIN s : s[i] =< x}
    BY <1>1
  <2>. HIDE DEF Less, Most, x
  <2>. QED
    BY <1>6, <1>7, <2>1 DEF HasRank
<1>. QED
  BY <1>1, <1>3, <1>8

\* The statistics of every list of numbers are its statistics: the least and
\* the greatest number, the mean, and a median between the two in the middle.
\* No list is too short; the empty one is answered with an error.
LEMMA StatsIsRight ==
  ASSUME NEW q \in Seq(Int)
  PROVE  Right("stats", q, Stats(q))
<1>1. CASE q = <<>>
  BY <1>1 DEF Stats, Failed, Right
<1>2. CASE q # <<>>
  <2>. DEFINE n == Len(q)
              D == 1..n
              S == Sorted(q)
              mid == n \div 2
              r == [count |-> n, min |-> Head(S), max |-> Last(S), sum |-> Total(q),
                    mean |-> <<Total(q), 2 * n>>, median |-> Median(S)]
  <2>1. Stats(q) = r
    BY <1>2 DEF Stats
  <2>2. n \in Nat /\ n >= 1 /\ DOMAIN q = D
    BY <1>2
  <2>3. PICK p : Orders(p, q) /\ S = [i \in DOMAIN q |-> q[p[i]]]
    BY SortedOrders
  <2>4. \A k \in D : p[k] \in D /\ HasRank(q, q[p[k]], k) /\ S[k] = q[p[k]] /\ S[k] \in Int
    <3>. SUFFICES ASSUME NEW k \in D
                  PROVE  p[k] \in D /\ HasRank(q, q[p[k]], k) /\ S[k] = q[p[k]] /\ S[k] \in Int
      OBVIOUS
    <3>1. p[k] \in D /\ HasRank(q, q[p[k]], k)
      <4>1. k \in DOMAIN q
        BY <2>2
      <4>. HIDE DEF D
      <4>. QED
        BY <2>2, <2>3, <4>1, PlaceIsRank
    <3>2. S[k] = q[p[k]]
      <4>. HIDE DEF S, D
      <4>. QED
        BY <2>2, <2>3
    <3>3. q[p[k]] \in Int
      <4>. HIDE DEF S
      <4>. QED
        BY <3>1
    <3>. HIDE DEF S, D
    <3>. QED
      BY <3>1, <3>2, <3>3
  <2>5. S \in Seq(Int) /\ Len(S) = n
    <3>1. S = [k \in D |-> S[k]]
      <4>. HIDE DEF S, D
      <4>. QED
        BY <2>2, <2>3
    <3>. HIDE DEF S, n
    <3>. QED
      BY <2>2, <2>4, <3>1
  <2>6. Head(S) = S[1] /\ Last(S) = S[n]
    <3>. HIDE DEF S, n
    <3>. QED
      BY <2>2, <2>5 DEF Last
  <2>7. Total(q) \in Int /\ AddsUpTo(q, Total(q))
    BY TotalAddsUp
  <2>. DEFINE i == p[(n + 1) \div 2]
              j == p[mid + 1]
  <2>8. /\ (n + 1) \div 2 \in D /\ mid + 1 \in D
        /\ n % 2 = 1 => (n + 1) \div 2 = mid + 1
        /\ n % 2 # 1 => (n + 1) \div 2 = mid
    <3>. HIDE DEF n
    <3>. QED
      BY <2>2
  <2>9. /\ i \in 1..n /\ j \in 1..n
        /\ HasRank(q, q[i], (n + 1) \div 2) /\ HasRank(q, q[j], mid + 1)
        /\ q[i] = S[(n + 1) \div 2] /\ q[j] = S[mid + 1]
        /\ q[i] \in Int /\ q[j] \in Int
    <3>. DEFINE k == (n + 1) \div 2
                m == mid + 1
    <3>1. k \in D /\ m \in D
      BY <2>8
    <3>. HIDE DEF k, m, S, n
    <3>2. /\ p[k] \in D /\ HasRank(q, q[p[k]], k) /\ S[k] = q[p[k]] /\ S[k] \in Int
          /\ p[m] \in D /\ HasRank(q, q[p[m]], m) /\ S[m] = q[p[m]] /\ S[m] \in Int
      BY <2>4, <3>1
    <3>. QED
      BY <3>2 DEF k, m
  <2>10. 4 * Median(S)[1] = Median(S)[2] * (q[i] + q[j])
    <3>1. CASE n % 2 = 1
      <4>1. Median(S) = <<S[mid + 1], 2>>
        <5>. HIDE DEF S
        <5>. QED
          BY <2>5, <3>1 DEF Median
      <4>2. q[i] = q[j] /\ q[j] = S[mid + 1] /\ q[j] \in Int
        BY <2>8, <2>9, <3>1
      <4>. HIDE DEF S, i, j, n
      <4>. QED
        BY <4>1, <4>2
    <3>2. CASE n % 2 # 1
      <4>1. Median(S) = <<S[mid] + S[mid + 1], 4>>
        <5>. HIDE DEF S
        <5>. QED
          BY <2>5, <3>2 DEF Median
      <4>2. q[i] = S[mid] /\ q[j] = S[mid + 1] /\ q[i] \in Int /\ q[j] \in Int
        BY <2>8, <2>9, <3>2
      <4>. HIDE DEF S, i, j, n
      <4>. QED
        BY <4>1, <4>2
    <3>. QED
      BY <3>1, <3>2
  <2>11. HasRank(q, r.min, 1) /\ HasRank(q, r.max, n)
    <3>1. 1 \in D /\ n \in D
      <4>. HIDE DEF n
      <4>. QED
        BY <2>2
    <3>2. S[1] = q[p[1]] /\ S[n] = q[p[n]] /\ HasRank(q, q[p[1]], 1) /\ HasRank(q, q[p[n]], n)
      <4>. HIDE DEF S, D
      <4>. QED
        BY <2>4, <3>1
    <3>3. r.min = Head(S) /\ r.max = Last(S)
      <4>. HIDE DEF S, n
      <4>. QED
        OBVIOUS
    <3>. HIDE DEF r, S, n
    <3>. QED
      BY <2>6, <3>2, <3>3
  <2>12. /\ r.count = n /\ r.median = Median(S)
         /\ AddsUpTo(q, r.sum) /\ r.mean[2] # 0
         /\ r.mean[1] * 2 * n = r.mean[2] * r.sum
         /\ "error" \notin DOMAIN r
    <3>. DEFINE t == Total(q)
    <3>1. /\ r.count = n /\ r.median = Median(S) /\ r.mean = <<t, 2 * n>> /\ r.sum = t
          /\ "error" \notin DOMAIN r
      <4>. HIDE DEF S, n
      <4>. QED
        OBVIOUS
    <3>2. t \in Int /\ n \in Int /\ 2 * n # 0 /\ AddsUpTo(q, t)
      BY <2>2, <2>7
    <3>. HIDE DEF r, t, n
    <3>3. t * 2 * n = (2 * n) * t
      BY <3>2
    <3>4. r.mean[1] = t /\ r.mean[2] = 2 * n
      BY <3>1
    <3>. QED
      BY <3>1, <3>2, <3>3, <3>4
  <2>. HIDE DEF r, i, j
  <2>13. RightStats(q, r)
    <3>. HIDE DEF S
    <3>. QED
      BY <2>9, <2>10, <2>11, <2>12 DEF RightStats
  <2>. QED
    BY <2>1, <2>12, <2>13 DEF Right
<1>. QED
  BY <1>1, <1>2

-----------------------------------------------------------------------------
(* What execute() is given, and what it returns *)

\* The handlers get numbers: what validates is a number in every spelling.
LEMMA ValidatedTypes ==
  ASSUME NEW k \in Kinds, NEW p, Validates(k, p), \A f \in DOMAIN p : IsValue(p[f])
  PROVE  LET q == Validated(k, p) IN
         /\ k = "calc" => q.op \in Ops /\ q.a \in Int /\ q.b \in Int
         /\ k = "stats" => q \in Seq(Int)
         /\ k = "fib" => q \in 0..40
<1>1. CASE k = "calc"
  <2>. DEFINE op == Field(p, "op", Word("add"))
              a == Field(p, "a", Whole(0))
              b == Field(p, "b", Whole(0))
  <2>1. op \in {Word(o) : o \in Ops} /\ IsFloat(a) /\ IsFloat(b)
    BY <1>1 DEF Validates, ValidCalc
  <2>2. op.text \in Ops
    <3>1. PICK o \in Ops : op = Word(o)
      BY <2>1
    <3>2. Word(o).text = o
      BY DEF Word
    <3>. HIDE DEF op
    <3>. QED
      BY <3>1, <3>2
  <2>3. a.half \in Int /\ b.half \in Int
    BY <2>1 DEF Field, Whole, IsValue, IsNumeric
  <2>4. Validated(k, p) = [op |-> op.text, a |-> a.half, b |-> b.half]
    BY <1>1 DEF Validated
  <2>. QED
    BY <1>1, <2>2, <2>3, <2>4
<1>2. CASE k = "stats"
  <2>. DEFINE items == p.values.items
  <2>1. /\ "values" \in DOMAIN p /\ p.values.kind = "list"
        /\ \A i \in DOMAIN items : IsFloat(items[i])
    BY <1>2 DEF Validates, ValidStats
  <2>2. items \in Seq(Range(items)) /\ \A i \in DOMAIN items : IsNumeric(items[i])
    BY <2>1 DEF IsValue
  <2>3. \A i \in DOMAIN items : items[i].half \in Int
    BY <2>1, <2>2 DEF IsNumeric
  <2>4. Validated(k, p) = [i \in DOMAIN items |-> items[i].half]
    BY <1>2 DEF Validated
  <2>5. Len(items) \in Nat /\ DOMAIN items = 1..Len(items)
    <3>. HIDE DEF items
    <3>. QED
      BY <2>2
  <2>. HIDE DEF items
  <2>6. [i \in DOMAIN items |-> items[i].half] \in Seq(Int)
    BY <2>3, <2>5
  <2>. QED
    BY <1>2, <2>4, <2>6
<1>3. CASE k = "fib"
  BY <1>3 DEF Validates, ValidFib, Validated
<1>4. CASE k \notin {"calc", "stats", "fib"}
  BY <1>4
<1>. QED
  BY <1>1, <1>2, <1>3, <1>4

\* For all parameters that validate, in whatever form the numbers come,
\* execute() of each of the five handlers returns what it should, and an error
\* only for a division by zero and for an empty list.
THEOREM ExecuteIsRight ==
  ASSUME NEW k \in Kinds, NEW p, Validates(k, p), \A f \in DOMAIN p : IsValue(p[f])
  PROVE  Right(k, Validated(k, p), Execute(k, Validated(k, p)))
<1>. DEFINE q == Validated(k, p)
<1>1. /\ k = "calc" => q.op \in Ops /\ q.a \in Int /\ q.b \in Int
      /\ k = "stats" => q \in Seq(Int)
      /\ k = "fib" => q \in 0..40
  BY ValidatedTypes
<1>. HIDE DEF q
<1>2. Right(k, q, Execute(k, q))
  <2>1. CASE k = "echo"
    BY <2>1 DEF Execute, Echo, Right
  <2>2. CASE k = "hash"
    BY <2>2 DEF Execute, Hash, Right
  <2>3. CASE k = "fib"
    <3>1. Fib(q) = Fibonacci[q]
      BY <1>1, <2>3, FibIsFibonacci
    <3>2. Execute("fib", q) = [n |-> q, fib |-> Fib(q)]
      BY DEF Execute
    <3>. QED
      BY <2>3, <3>1, <3>2 DEF Right
  <2>4. CASE k = "calc"
    <3>1. Right("calc", q, Calc(q))
      BY <1>1, <2>4, CalcIsRight
    <3>2. Execute("calc", q) = Calc(q)
      BY DEF Execute
    <3>. QED
      BY <2>4, <3>1, <3>2
  <2>5. CASE k = "stats"
    <3>1. Right("stats", q, Stats(q))
      BY <1>1, <2>5, StatsIsRight
    <3>2. Execute("stats", q) = Stats(q)
      BY DEF Execute
    <3>. QED
      BY <2>5, <3>1, <3>2
  <2>. QED
    BY <2>1, <2>2, <2>3, <2>4, <2>5 DEF Kinds
<1>. QED
  BY <1>2 DEF q
=============================================================================
