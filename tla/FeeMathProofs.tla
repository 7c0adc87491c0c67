---------------------------- MODULE FeeMathProofs ----------------------------
(***************************************************************************)
(* Facts about the fee updaters of FeeMath, for every input.               *)
(*                                                                         *)
(* fake_exponential is the output at the turn its loop leaves, and a       *)
(* larger numerator makes the loop leave later, so two results cannot be   *)
(* compared at the turn either leaves.  The argument is that both loops    *)
(* leave (LoopEnds: from a late turn on, the accumulator shrinks), that    *)
(* further turns would add nothing (LoopStays), so that each result is the *)
(* output at every late turn (FakeExponentialLimit), where the outputs are *)
(* compared turn by turn (LoopMono).                                       *)
(***************************************************************************)
EXTENDS FeeMath, TLAPS, WellFoundedInduction, NaturalsInduction

(***************************************************************************)
(* Recursive functions over the naturals exist.  The loops of the fee      *)
(* updaters are functions defined by recursion, about which nothing can be *)
(* proved before it is known that there is such a function.  The library's *)
(* theorem on recursive definitions takes an operator as its parameter,    *)
(* which the provers here cannot instantiate, so the existence of the      *)
(* function is proved once more with the step as a function of functions,  *)
(* from the well-foundedness of < on Nat.                                  *)
(***************************************************************************)
\* A non-empty set of naturals has a least element.
LEMMA LeastElement ==
  ASSUME NEW T, T \subseteq Nat, T # {}
  PROVE  \E x \in T : \A y \in T : x <= y
<1>1. \E R : /\ IsWellFoundedOn(R, Nat)
             /\ \A x, y \in Nat : <<y, x>> \in R <=> y < x
  <2> DEFINE R == OpToRel(<, Nat)
  <2>1. IsWellFoundedOn(R, Nat)
    BY NatLessThanWellFounded
  <2>2. \A x, y \in Nat : <<y, x>> \in R <=> y < x
    BY DEF OpToRel
  <2> HIDE DEF R
  <2> QED BY <2>1, <2>2
<1>2. PICK R : /\ IsWellFoundedOn(R, Nat)
               /\ \A x, y \in Nat : <<y, x>> \in R <=> y < x
  BY <1>1
<1>3. PICK x \in T : \A y \in T : ~ (<<y, x>> \in R)
  BY <1>2, WFMin
<1>4. ASSUME NEW y \in T
      PROVE  x <= y
  <2>1. ~ (y < x)
    BY <1>2, <1>3
  <2>2. x \in Nat /\ y \in Nat
    OBVIOUS
  <2> QED BY <2>1, <2>2
<1> QED BY <1>4

\* Induction over Nat for a set of numbers in place of a predicate.
LEMMA SetInduction ==
  ASSUME NEW P, 0 \in P, \A n \in Nat : n \in P => n + 1 \in P
  PROVE  Nat \subseteq P
<1> DEFINE Out == {n \in Nat : n \notin P}
<1> SUFFICES ASSUME Out # {} PROVE FALSE
  OBVIOUS
<1>1. PICK m \in Out : \A n \in Out : m <= n
  BY LeastElement
<1>2. m # 0 /\ m \in Nat /\ m - 1 \in Nat
  OBVIOUS
<1>3. m - 1 \notin Out
  BY <1>1, <1>2
<1>4. m - 1 \in P
  BY <1>2, <1>3
<1>5. (m - 1) + 1 \in P
  BY <1>2, <1>4
<1> QED BY <1>2, <1>5

\* The first n turns of a recursion that starts with init.
Runs(S, init, step, n) ==
  {h \in [0..n -> S] : /\ h[0] = init
                       /\ \A i \in 1..n : h[i] = step[i][h[i - 1]]}

\* There is a run of every length.
LEMMA RunsExist ==
  ASSUME NEW S, NEW init \in S, NEW step \in [Nat -> [S -> S]], NEW n \in Nat
  PROVE  Runs(S, init, step, n) # {}
<1> DEFINE P == {k \in Nat : Runs(S, init, step, k) # {}}
<1>1. 0 \in P
  <2> DEFINE h == [i \in 0..0 |-> init]
  <2>1. h \in Runs(S, init, step, 0)
    BY DEF Runs
  <2> QED BY <2>1
<1>2. ASSUME NEW k \in Nat, k \in P
      PROVE  k + 1 \in P
  <2>1. PICK h : h \in Runs(S, init, step, k)
    BY <1>2
  <2> DEFINE g == [i \in 0..(k + 1) |->
                     IF i = k + 1 THEN step[k + 1][h[k]] ELSE h[i]]
  <2>2. h \in [0..k -> S] /\ h[0] = init
        /\ \A i \in 1..k : h[i] = step[i][h[i - 1]]
    BY <2>1 DEF Runs
  <2>3. g \in [0..(k + 1) -> S]
    <3>1. step[k + 1] \in [S -> S] /\ h[k] \in S
      BY <2>2
    <3> QED BY <2>2, <3>1
  <2>4. g[0] = init
    BY <2>2
  <2>5. ASSUME NEW i \in 1..(k + 1)
        PROVE  g[i] = step[i][g[i - 1]]
    <3>1. CASE i = k + 1
      BY <3>1
    <3>2. CASE i \in 1..k
      BY <2>2, <3>2
    <3> QED BY <3>1, <3>2
  <2> HIDE DEF g
  <2>6. g \in Runs(S, init, step, k + 1)
    BY <2>3, <2>4, <2>5 DEF Runs
  <2> QED BY <2>6
<1> HIDE DEF P
<1>3. Nat \subseteq P
  BY <1>1, <1>2, SetInduction
<1> QED BY <1>3 DEF P

\* Two runs agree as far as both go.
LEMMA RunsAgree ==
  ASSUME NEW S, NEW init \in S, NEW step \in [Nat -> [S -> S]],
         NEW n \in Nat, NEW m \in Nat,
         NEW h \in Runs(S, init, step, n), NEW g \in Runs(S, init, step, m),
         NEW i \in Nat, i <= n, i <= m
  PROVE  h[i] = g[i]
<1> DEFINE P == {k \in Nat : k <= n /\ k <= m => h[k] = g[k]}
<1>1. 0 \in P
  BY DEF Runs
<1>2. ASSUME NEW k \in Nat, k \in P
      PROVE  k + 1 \in P
  <2> SUFFICES ASSUME k + 1 <= n, k + 1 <= m
               PROVE  h[k + 1] = g[k + 1]
    OBVIOUS
  <2>1. h[k] = g[k]
    BY <1>2
  <2>2. h[k + 1] = step[k + 1][h[(k + 1) - 1]] /\ g[k + 1] = step[k + 1][g[(k + 1) - 1]]
    <3>1. k + 1 \in 1..n /\ k + 1 \in 1..m
      OBVIOUS
    <3> QED BY <3>1 DEF Runs
  <2>3. (k + 1) - 1 = k
    OBVIOUS
  <2> QED BY <2>1, <2>2, <2>3
<1> HIDE DEF P
<1>3. Nat \subseteq P
  BY <1>1, <1>2, SetInduction
<1> QED BY <1>3 DEF P

\* What a recursive definition says of the function it defines.
IsRecursive(f, S, init, step) ==
  /\ f \in [Nat -> S]
  /\ f[0] = init
  /\ \A i \in Nat \ {0} : f[i] = step[i][f[i - 1]]

\* There is a function on Nat that starts with init and whose value at i is
\* made by step[i] of its value at i - 1.
THEOREM Recursion ==
  ASSUME NEW S, NEW init \in S, NEW step \in [Nat -> [S -> S]]
  PROVE  \E f : IsRecursive(f, S, init, step)
<1> DEFINE run[n \in Nat] == CHOOSE h : h \in Runs(S, init, step, n)
           f == [n \in Nat |-> run[n][n]]
<1>1. \A n \in Nat : run[n] \in Runs(S, init, step, n)
  BY RunsExist
<1> HIDE DEF run
<1>2. f \in [Nat -> S]
  BY <1>1 DEF Runs
<1>3. f[0] = init
  BY <1>1 DEF Runs
<1>4. ASSUME NEW i \in Nat \ {0}
      PROVE  f[i] = step[i][f[i - 1]]
  <2>1. run[i][i] = step[i][run[i][i - 1]]
    BY <1>1 DEF Runs
  <2>2. run[i][i - 1] = run[i - 1][i - 1]
    <3>1. run[i] \in Runs(S, init, step, i) /\ run[i - 1] \in Runs(S, init, step, i - 1)
      BY <1>1
    <3>2. i - 1 \in Nat /\ i - 1 <= i
      OBVIOUS
    <3> QED BY <3>1, <3>2, RunsAgree
  <2> QED BY <2>1, <2>2
<1> HIDE DEF f
<1>5. IsRecursive(f, S, init, step)
  BY <1>2, <1>3, <1>4 DEF IsRecursive
<1> QED BY <1>5

(***************************************************************************)
(* Products and quotients of natural numbers.                              *)
(***************************************************************************)
\* Python's // on naturals: the quotient and its remainder.
LEMMA DivFacts ==
  ASSUME NEW a \in Nat, NEW d \in Nat \ {0}
  PROVE  /\ a \div d \in Nat
         /\ d * (a \div d) <= a
         /\ a < d * (a \div d) + d
  OBVIOUS

\* Rounding down keeps the order.
LEMMA DivMono ==
  ASSUME NEW a \in Nat, NEW b \in Nat, NEW d \in Nat \ {0}, a <= b
  PROVE  a \div d <= b \div d
  OBVIOUS

\* What is at most d * q has a quotient of at most q.
LEMMA DivBound ==
  ASSUME NEW a \in Nat, NEW q \in Nat, NEW d \in Nat \ {0}, a <= d * q
  PROVE  a \div d <= q
  OBVIOUS

\* What is below d * q has a quotient below q.
LEMMA DivBelow ==
  ASSUME NEW a \in Nat, NEW q \in Nat, NEW d \in Nat \ {0}, a < d * q
  PROVE  a \div d < q
  OBVIOUS

\* A product grows with its factors.
LEMMA ProductMono ==
  ASSUME NEW a \in Nat, NEW b \in Nat, NEW c \in Nat, NEW d \in Nat,
         a <= b, c <= d
  PROVE  a * c \in Nat /\ b * d \in Nat /\ a * c <= b * d
<1>1. a * c <= b * c
  OBVIOUS
<1>2. b * c <= b * d
  OBVIOUS
<1> QED BY <1>1, <1>2

\* A multiple, and only that, leaves no rest.
LEMMA Multiples ==
  ASSUME NEW q \in Nat \ {0}
  PROVE  /\ \A k \in Nat : k * q \in Nat /\ (k * q) % q = 0
         /\ \A m \in Nat : m % q = 0 => m = (m \div q) * q /\ m \div q \in Nat
<1>1. ASSUME NEW k \in Nat
      PROVE  k * q \in Nat /\ (k * q) % q = 0
  <2>1. k * q \in Nat /\ (k * q) \div q = k
    OBVIOUS
  <2>2. \A m \in Nat : m % q = m - q * (m \div q)
    OBVIOUS
  <2>3. (k * q) % q = k * q - q * k
    BY <2>1, <2>2
  <2> QED BY <2>1, <2>3
<1>2. ASSUME NEW m \in Nat, m % q = 0
      PROVE  m = (m \div q) * q /\ m \div q \in Nat
  BY <1>2
<1> QED BY <1>1, <1>2

\* A quotient is the only number that brackets its dividend.
LEMMA QuotientIs ==
  ASSUME NEW a \in Nat, NEW d \in Nat \ {0}, NEW q \in Nat,
         d * q <= a, a < d * q + d
  PROVE  a \div d = q
<1> DEFINE p == a \div d
<1>1. p \in Nat /\ d * p <= a /\ a < d * p + d
  BY DivFacts
<1> HIDE DEF p
<1>2. p + 1 \in Nat /\ q + 1 \in Nat /\ d * (p + 1) = d * p + d /\ d * (q + 1) = d * q + d
  BY <1>1
<1>3. ~ (p < q)
  <2> SUFFICES ASSUME p + 1 <= q PROVE FALSE
    BY <1>1
  <2>1. d * (p + 1) <= d * q
    BY <1>2, ProductMono
  <2> QED BY <1>1, <1>2, <2>1
<1>4. ~ (q < p)
  <2> SUFFICES ASSUME q + 1 <= p PROVE FALSE
    BY <1>1
  <2>1. d * (q + 1) <= d * p
    BY <1>1, <1>2, ProductMono
  <2> QED BY <1>1, <1>2, <2>1
<1>5. p = q
  BY <1>1, <1>3, <1>4
<1> QED BY <1>5 DEF p

\* Two floors in a row are one.
LEMMA NestedFloor ==
  ASSUME NEW a \in Nat, NEW b \in Nat \ {0}
  PROVE  a \div (b * 8) = (a \div b) \div 8
<1> DEFINE p == a \div b
           q == p \div 8
<1>1. p \in Nat /\ b * p <= a /\ a < b * p + b
  BY DivFacts
<1> HIDE DEF p
<1>2. q \in Nat /\ 8 * q <= p /\ p + 1 <= 8 * q + 8
  BY <1>1
<1> HIDE DEF q
<1>3. b * 8 \in Nat \ {0}
  OBVIOUS
<1>4. (b * 8) * q <= a
  <2>1. b * (8 * q) <= b * p
    BY <1>1, <1>2, ProductMono
  <2>2. (b * 8) * q = b * (8 * q)
    BY <1>2
  <2>3. b * (8 * q) \in Nat /\ b * p \in Nat
    BY <1>1, <1>2
  <2> QED BY <1>1, <2>1, <2>2, <2>3
<1>5. a < (b * 8) * q + b * 8
  <2>1. b * (p + 1) <= b * (8 * q + 8)
    BY <1>1, <1>2, ProductMono
  <2>2. b * (p + 1) = b * p + b
    BY <1>1
  <2>3. b * (8 * q + 8) = (b * 8) * q + b * 8
    BY <1>2
  <2>4. b * p \in Nat /\ (b * 8) * q \in Nat
    BY <1>1, <1>2
  <2> QED BY <1>1, <2>1, <2>2, <2>3, <2>4
<1>6. a \div (b * 8) = q
  BY <1>2, <1>3, <1>4, <1>5, QuotientIs
<1> QED BY <1>6 DEF p, q

\* A common factor can be left out.
LEMMA Cancelled ==
  ASSUME NEW a \in Nat, NEW b \in Nat, NEW c \in Nat \ {0}, a * c <= b * c
  PROVE  a <= b
<1>1. b < a => (b + 1) * c <= a * c
  OBVIOUS
<1>2. (b + 1) * c = b * c + c
  OBVIOUS
<1> QED BY <1>1, <1>2

\* What a fraction admits, a larger one does.
LEMMA LargerShare ==
  ASSUME NEW a \in Nat, NEW x \in Nat, NEW limit \in Nat, NEW offered \in Nat \ {0},
         NEW other \in Nat, NEW others \in Nat,
         a * offered <= x * limit, limit * others <= other * offered
  PROVE  a * others <= x * other
<1>1. /\ a * offered \in Nat /\ x * limit \in Nat
      /\ limit * others \in Nat /\ other * offered \in Nat
      /\ a * others \in Nat /\ x * other \in Nat
  OBVIOUS
<1>2. (a * offered) * others <= (x * limit) * others
  BY <1>1, ProductMono
<1>3. x * (limit * others) <= x * (other * offered)
  BY <1>1, ProductMono
<1>4. /\ (a * offered) * others = (a * others) * offered
      /\ (x * limit) * others = x * (limit * others)
      /\ x * (other * offered) = (x * other) * offered
      /\ (a * offered) * others \in Nat /\ (x * limit) * others \in Nat
      /\ x * (other * offered) \in Nat
  OBVIOUS
<1>5. (a * others) * offered <= (x * other) * offered
  BY <1>2, <1>3, <1>4
<1> QED BY <1>1, <1>5, Cancelled

(***************************************************************************)
(* Leaving a while loop.                                                   *)
(***************************************************************************)
\* A loop whose condition turns false leaves at the first turn where it is.
LEMMA ExitTurn ==
  ASSUME NEW goes_on \in [Nat -> BOOLEAN], \E k \in Nat : ~goes_on[k]
  PROVE  /\ exit_turn(goes_on) \in Nat
         /\ ~goes_on[exit_turn(goes_on)]
         /\ \A j \in Nat : j < exit_turn(goes_on) => goes_on[j]
<1> DEFINE Off == {k \in Nat : ~goes_on[k]}
<1>1. PICK last \in Off : \A k \in Off : last <= k
  BY LeastElement
<1>2. last \in Nat /\ ~goes_on[last] /\ \A j \in Nat : j < last => goes_on[j]
  BY <1>1
<1> HIDE DEF Off
<1> DEFINE IsFrom(f) == f = [i \in Nat |-> IF goes_on[i] THEN f[i + 1] ELSE i]
           from == CHOOSE f : IsFrom(f)
<1>3. \E f : IsFrom(f)
  <2> DEFINE after(i) == {k \in Nat : i <= k /\ ~goes_on[k]}
             least(T) == CHOOSE k \in T : \A j \in T : k <= j
             f == [i \in Nat |-> least(after(i))]
  <2>1. ASSUME NEW i \in Nat
        PROVE  least(after(i)) = IF goes_on[i] THEN least(after(i + 1)) ELSE i
    <3>1. CASE goes_on[i]
      <4>1. after(i) = after(i + 1)
        BY <3>1
      <4> QED BY <3>1, <4>1
    <3>2. CASE ~goes_on[i]
      <4>1. i \in after(i) /\ \A j \in after(i) : i <= j
        BY <3>2
      <4>2. \A k \in after(i) : (\A j \in after(i) : k <= j) => k = i
        BY <4>1
      <4> HIDE DEF after
      <4> QED BY <3>2, <4>1, <4>2
    <3> QED BY <3>1, <3>2
  <2> HIDE DEF after, least
  <2>2. IsFrom(f)
    BY <2>1
  <2> QED BY <2>2
<1>4. IsFrom(from)
  BY <1>3
<1> HIDE DEF from
<1>5. \A i \in Nat : from[i] = IF goes_on[i] THEN from[i + 1] ELSE i
  BY <1>4
<1>6. from[0] = last
  <2> DEFINE P == {n \in Nat : n <= last => from[last - n] = last}
  <2>1. 0 \in P
    BY <1>2, <1>5
  <2>2. ASSUME NEW n \in Nat, n \in P
        PROVE  n + 1 \in P
    <3> SUFFICES ASSUME n + 1 <= last
                 PROVE  from[last - (n + 1)] = last
      OBVIOUS
    <3>1. last - (n + 1) \in Nat /\ goes_on[last - (n + 1)]
      BY <1>2
    <3>2. (last - (n + 1)) + 1 = last - n
      BY <1>2
    <3>3. from[last - (n + 1)] = from[last - n]
      BY <1>5, <3>1, <3>2
    <3>4. from[last - n] = last
      BY <1>2, <2>2
    <3> QED BY <3>3, <3>4
  <2> HIDE DEF P
  <2>3. Nat \subseteq P
    BY <2>1, <2>2, SetInduction
  <2>4. from[last - last] = last
    BY <1>2, <2>3 DEF P
  <2> QED BY <1>2, <2>4
<1>7. exit_turn(goes_on) = from[0]
  BY DEF exit_turn, from
<1> QED BY <1>2, <1>6, <1>7

(***************************************************************************)
(* The loop of fake_exponential.                                           *)
(***************************************************************************)
Accumulators == [output: Nat, accum: Nat]

\* What the body of the loop does to its accumulators, turn after turn.
IsUnrolled(loop, f, n, d) ==
  /\ loop \in [Nat -> Accumulators]
  /\ loop[0] = [output |-> 0, accum |-> f * d]
  /\ \A i \in Nat :
       loop[i + 1] = [output |-> loop[i].output + loop[i].accum,
                      accum |-> (loop[i].accum * n) \div (d * (i + 1))]

\* The accumulators are natural numbers, and each turn is computed from the
\* one before as the body of the loop says.
LEMMA LoopTurns ==
  ASSUME NEW f \in Nat, NEW n \in Nat, NEW d \in Nat \ {0}
  PROVE  IsUnrolled(fake_exponential_loop(f, n, d), f, n, d)
<1> DEFINE turn(s, i) == [output |-> s.output + s.accum,
                          accum  |-> (s.accum * n) \div (d * i)]
           start == [output |-> 0, accum |-> f * d]
           IsLoop(g) == g = [i \in Nat |-> IF i = 0 THEN start
                                          ELSE turn(g[i - 1], i)]
           step == [i \in Nat |-> [s \in Accumulators |->
                      IF i = 0 THEN s ELSE turn(s, i)]]
<1>1. start \in Accumulators
  BY DEF Accumulators
<1>2. step \in [Nat -> [Accumulators -> Accumulators]]
  <2>1. ASSUME NEW i \in Nat \ {0}, NEW s \in Accumulators
        PROVE  turn(s, i) \in Accumulators
    <3>1. s.output \in Nat /\ s.accum \in Nat
      BY DEF Accumulators
    <3>2. s.accum * n \in Nat /\ d * i \in Nat \ {0}
      BY <3>1
    <3>3. (s.accum * n) \div (d * i) \in Nat
      BY <3>2, DivFacts
    <3> QED BY <3>1, <3>3 DEF Accumulators
  <2> HIDE DEF turn
  <2> QED BY <2>1
<1> HIDE DEF turn, start
<1>3. PICK g : IsRecursive(g, Accumulators, start, step)
  <2> HIDE DEF step, IsLoop
  <2> QED BY <1>1, <1>2, Recursion
<1>4. \A i \in Nat \ {0} : g[i] = turn(g[i - 1], i)
  <2>1. ASSUME NEW i \in Nat \ {0}
        PROVE  g[i] = turn(g[i - 1], i)
    <3>1. i - 1 \in Nat /\ i \in Nat
      OBVIOUS
    <3>2. g[i - 1] \in Accumulators /\ g[i] = step[i][g[i - 1]]
      BY <1>3, <3>1 DEF IsRecursive
    <3> QED BY <3>1, <3>2
  <2> QED BY <2>1
<1>5. IsLoop(g)
  BY <1>3, <1>4 DEF IsRecursive
<1> DEFINE loop == CHOOSE h : IsLoop(h)
<1>6. IsLoop(loop)
  BY <1>5
<1>7. fake_exponential_loop(f, n, d) = loop
  BY DEF fake_exponential_loop, start, turn
<1> HIDE DEF loop
<1>8. loop[0] = start /\ \A i \in Nat \ {0} : loop[i] = turn(loop[i - 1], i)
  BY <1>6
<1>9. \A i \in Nat : loop[i] = g[i]
  <2> DEFINE P == {i \in Nat : loop[i] = g[i]}
  <2>1. 0 \in P
    BY <1>3, <1>8 DEF IsRecursive
  <2>2. ASSUME NEW i \in Nat, i \in P
        PROVE  i + 1 \in P
    <3>1. i + 1 \in Nat \ {0} /\ (i + 1) - 1 = i
      OBVIOUS
    <3>2. loop[i + 1] = turn(loop[i], i + 1) /\ g[i + 1] = turn(g[i], i + 1)
      BY <1>4, <1>8, <3>1
    <3> QED BY <2>2, <3>2
  <2> HIDE DEF P
  <2>3. Nat \subseteq P
    BY <2>1, <2>2, SetInduction
  <2> QED BY <2>3 DEF P
<1>10. loop = g
  <2>1. loop = [i \in Nat |-> loop[i]]
    BY <1>6
  <2>2. g = [i \in Nat |-> g[i]]
    BY <1>3 DEF IsRecursive
  <2> QED BY <1>9, <2>1, <2>2
<1>11. ASSUME NEW i \in Nat
       PROVE  loop[i + 1] = turn(loop[i], i + 1)
  <2>1. i + 1 \in Nat \ {0} /\ (i + 1) - 1 = i
    OBVIOUS
  <2> QED BY <1>8, <2>1
<1>12. loop \in [Nat -> Accumulators]
  BY <1>3, <1>10 DEF IsRecursive
<1>13. IsUnrolled(loop, f, n, d)
  BY <1>8, <1>11, <1>12 DEF IsUnrolled, start, turn
<1> QED BY <1>7, <1>13

\* The loop ends: once its turn has passed the numerator, the accumulated
\* term shrinks at every turn, and a natural number cannot shrink for ever.
LEMMA LoopEnds ==
  ASSUME NEW f \in Nat, NEW n \in Nat, NEW d \in Nat \ {0}
  PROVE  \E i \in Nat : fake_exponential_loop(f, n, d)[i].accum = 0
<1> DEFINE loop == fake_exponential_loop(f, n, d)
           Terms == {v \in Nat : \E i \in Nat : i > n /\ loop[i].accum = v}
<1>0. IsUnrolled(loop, f, n, d)
  BY LoopTurns
<1> HIDE DEF loop
<1>1. ASSUME NEW i \in Nat
      PROVE  /\ loop[i].accum \in Nat
             /\ loop[i + 1].accum = (loop[i].accum * n) \div (d * (i + 1))
  <2>1. loop[i] \in Accumulators
    BY <1>0 DEF IsUnrolled
  <2>2. loop[i + 1] = [output |-> loop[i].output + loop[i].accum,
                       accum |-> (loop[i].accum * n) \div (d * (i + 1))]
    BY <1>0 DEF IsUnrolled
  <2> QED BY <2>1, <2>2 DEF Accumulators
<1>2. loop[n + 1].accum \in Terms
  BY <1>1
<1>3. PICK v \in Terms : \A w \in Terms : v <= w
  BY <1>2, LeastElement
<1>4. PICK i \in Nat : i > n /\ loop[i].accum = v
  OBVIOUS
<1>5. loop[i + 1].accum \in Terms
  BY <1>1, <1>4
<1>6. v = 0
  <2> SUFFICES ASSUME v > 0
               PROVE  FALSE
    OBVIOUS
  <2>1. v \in Nat
    OBVIOUS
  <2>2. v * n < (d * (i + 1)) * v
    <3>1. n < d * (i + 1)
      BY <1>4
    <3> QED BY <2>1, <3>1
  <2>3. v * n \in Nat /\ d * (i + 1) \in Nat \ {0}
    BY <2>1
  <2>4. (v * n) \div (d * (i + 1)) < v
    BY <2>1, <2>2, <2>3, DivBelow
  <2>5. loop[i + 1].accum < v
    BY <1>1, <1>4, <2>4
  <2>6. v <= loop[i + 1].accum
    BY <1>3, <1>5
  <2> HIDE DEF Terms
  <2> QED BY <1>1, <2>1, <2>5, <2>6
<1> QED BY <1>4, <1>6 DEF loop

\* The same facts field by field, the form the lemmas below use.
IsTurn(loop, f, n, d, i) ==
  /\ loop[i].output \in Nat
  /\ loop[i].accum \in Nat
  /\ loop[0].output = 0
  /\ loop[0].accum = f * d
  /\ loop[i + 1].output = loop[i].output + loop[i].accum
  /\ loop[i + 1].accum = (loop[i].accum * n) \div (d * (i + 1))

\* The accumulators of fake_exponential's loop are naturals, each turn's
\* being computed from those of the turn before as the loop body says.
LEMMA LoopFields ==
  ASSUME NEW f \in Nat, NEW n \in Nat, NEW d \in Nat \ {0}, NEW i \in Nat
  PROVE  IsTurn(fake_exponential_loop(f, n, d), f, n, d, i)
<1> DEFINE loop == fake_exponential_loop(f, n, d)
<1>1. IsUnrolled(loop, f, n, d)
  BY LoopTurns
<1> HIDE DEF loop
<1>2. loop[i] \in Accumulators
  BY <1>1 DEF IsUnrolled
<1>3. loop[i + 1] = [output |-> loop[i].output + loop[i].accum,
                     accum |-> (loop[i].accum * n) \div (d * (i + 1))]
  BY <1>1 DEF IsUnrolled
<1>4. IsTurn(loop, f, n, d, i)
  BY <1>1, <1>2, <1>3 DEF Accumulators, IsTurn, IsUnrolled
<1> QED BY <1>4 DEF loop

\* Once the term is zero, further turns would change nothing.
LEMMA LoopStays ==
  ASSUME NEW f \in Nat, NEW n \in Nat, NEW d \in Nat \ {0},
         NEW loop, loop = fake_exponential_loop(f, n, d),
         NEW i \in Nat, loop[i].accum = 0, NEW j \in Nat, i <= j
  PROVE  loop[j].accum = 0 /\ loop[j].output = loop[i].output
<1> DEFINE P == {k \in Nat : loop[i + k].accum = 0
                              /\ loop[i + k].output = loop[i].output}
<1>1. \A k \in Nat : IsTurn(loop, f, n, d, k)
  BY LoopFields
<1>2. 0 \in P
  OBVIOUS
<1>3. ASSUME NEW k \in Nat, k \in P
      PROVE  k + 1 \in P
  <2>1. i + k \in Nat /\ (i + k) + 1 = i + (k + 1)
    OBVIOUS
  <2>2. IsTurn(loop, f, n, d, i + k) /\ loop[i + k].accum = 0
        /\ loop[i + k].output = loop[i].output
    BY <1>1, <1>3, <2>1
  <2>3. (0 * n) \div (d * ((i + k) + 1)) = 0
    BY <2>1
  <2>4. /\ loop[(i + k) + 1].accum = 0
        /\ loop[(i + k) + 1].output = loop[i].output
    BY <2>2, <2>3 DEF IsTurn
  <2> QED BY <2>1, <2>4
<1> HIDE DEF P
<1>4. Nat \subseteq P
  BY <1>2, <1>3, SetInduction
<1>5. j - i \in P
  BY <1>4
<1>6. i + (j - i) = j
  OBVIOUS
<1> QED BY <1>5, <1>6 DEF P

\* fake_exponential returns what the loop has summed at every late turn.
SettledAt(f, n, d, k) ==
  \A i \in Nat : i >= k => fake_exponential(f, n, d) =
                             fake_exponential_loop(f, n, d)[i].output \div d

\* The loop leaves, and more turns would not change what it returns: its
\* result is the output of every late enough turn.
LEMMA FakeExponentialLimit ==
  ASSUME NEW f \in Nat, NEW n \in Nat, NEW d \in Nat \ {0}
  PROVE  \E k \in Nat : SettledAt(f, n, d, k)
<1> DEFINE loop == fake_exponential_loop(f, n, d)
<1> DEFINE goes_on == [i \in Nat |-> loop[i].accum > 0]
           k == exit_turn(goes_on)
<1>1. goes_on \in [Nat -> BOOLEAN]
  OBVIOUS
<1>2. \A i \in Nat : goes_on[i] <=> loop[i].accum > 0
  OBVIOUS
<1>3. fake_exponential(f, n, d) = loop[k].output \div d
  BY DEF fake_exponential
<1>4. PICK e \in Nat : loop[e].accum = 0
  BY LoopEnds
<1> HIDE DEF goes_on, loop
<1>5. ~goes_on[e]
  <2>1. ~ (0 > 0)
    OBVIOUS
  <2> QED BY <1>2, <1>4, <2>1
<1>6. k \in Nat /\ ~goes_on[k]
  BY <1>1, <1>5, ExitTurn
<1> HIDE DEF k
<1>7. loop[k].accum = 0
  <2>1. ~ (loop[k].accum > 0)
    BY <1>2, <1>6
  <2>2. IsTurn(loop, f, n, d, k)
    BY <1>6, LoopFields DEF loop
  <2>3. loop[k].accum \in Nat
    BY <2>2 DEF IsTurn
  <2> QED BY <2>1, <2>3
<1>8. ASSUME NEW i \in Nat, i >= k
      PROVE  fake_exponential(f, n, d) = loop[i].output \div d
  <2>1. k <= i
    BY <1>6, <1>8
  <2>2. loop[i].output = loop[k].output
    BY <1>6, <1>7, <2>1, LoopStays DEF loop
  <2> QED BY <1>3, <2>2
<1>9. SettledAt(f, n, d, k)
  BY <1>8 DEF SettledAt, loop
<1> QED BY <1>6, <1>9

\* What the loop has summed never shrinks from a turn to a later one.
LEMMA OutputGrows ==
  ASSUME NEW f \in Nat, NEW n \in Nat, NEW d \in Nat \ {0},
         NEW loop, loop = fake_exponential_loop(f, n, d),
         NEW i \in Nat, NEW j \in Nat, i <= j
  PROVE  loop[i].output <= loop[j].output
<1> DEFINE P == {k \in Nat : loop[i].output <= loop[i + k].output}
<1>1. \A k \in Nat : IsTurn(loop, f, n, d, k)
  BY LoopFields
<1>2. 0 \in P
  BY <1>1 DEF IsTurn
<1>3. ASSUME NEW k \in Nat, k \in P
      PROVE  k + 1 \in P
  <2>1. i + k \in Nat /\ (i + k) + 1 = i + (k + 1)
    OBVIOUS
  <2>2. IsTurn(loop, f, n, d, i + k) /\ IsTurn(loop, f, n, d, i)
        /\ loop[i].output <= loop[i + k].output
    BY <1>1, <1>3, <2>1
  <2>3. loop[i].output <= loop[(i + k) + 1].output
    BY <2>2 DEF IsTurn
  <2> QED BY <2>1, <2>3
<1> HIDE DEF P
<1>4. Nat \subseteq P
  BY <1>2, <1>3, SetInduction
<1>5. j - i \in P
  BY <1>4
<1>6. i + (j - i) = j
  OBVIOUS
<1> QED BY <1>5, <1>6 DEF P

\* Turn by turn, a larger numerator never accumulates less.
LEMMA LoopMono ==
  ASSUME NEW f \in Nat, NEW n \in Nat, NEW m \in Nat, NEW d \in Nat \ {0},
         n <= m,
         NEW small, small = fake_exponential_loop(f, n, d),
         NEW large, large = fake_exponential_loop(f, m, d),
         NEW i \in Nat
  PROVE  small[i].accum <= large[i].accum /\ small[i].output <= large[i].output
<1> DEFINE P == {k \in Nat : /\ small[k].accum <= large[k].accum
                             /\ small[k].output <= large[k].output}
<1>1. \A k \in Nat : IsTurn(small, f, n, d, k) /\ IsTurn(large, f, m, d, k)
  BY LoopFields
<1>2. 0 \in P
  BY <1>1 DEF IsTurn
<1>3. ASSUME NEW k \in Nat, k \in P
      PROVE  k + 1 \in P
  <2>1. IsTurn(small, f, n, d, k) /\ IsTurn(large, f, m, d, k)
    BY <1>1
  <2>2. small[k + 1].output <= large[k + 1].output
    BY <1>3, <2>1 DEF IsTurn
  <2>3. /\ small[k].accum * n \in Nat
        /\ large[k].accum * m \in Nat
        /\ small[k].accum * n <= large[k].accum * m
    BY <1>3, <2>1, ProductMono DEF IsTurn
  <2>4. d * (k + 1) \in Nat \ {0}
    OBVIOUS
  <2>5. (small[k].accum * n) \div (d * (k + 1))
          <= (large[k].accum * m) \div (d * (k + 1))
    BY <2>3, <2>4, DivMono
  <2>6. small[k + 1].accum <= large[k + 1].accum
    BY <2>1, <2>5 DEF IsTurn
  <2> QED BY <2>2, <2>6
<1> HIDE DEF P
<1>4. Nat \subseteq P
  BY <1>2, <1>3, SetInduction
<1> QED BY <1>4 DEF P

\* fake_exponential returns a natural number.
THEOREM FakeExponentialType ==
  ASSUME NEW f \in Nat, NEW n \in Nat, NEW d \in Nat \ {0}
  PROVE  fake_exponential(f, n, d) \in Nat
<1> DEFINE loop == fake_exponential_loop(f, n, d)
<1>1. PICK k \in Nat : SettledAt(f, n, d, k)
  BY FakeExponentialLimit
<1>2. IsTurn(loop, f, n, d, k)
  BY LoopFields
<1> HIDE DEF loop
<1>3. loop[k].output \div d \in Nat
  BY <1>2, DivFacts DEF IsTurn
<1>4. k >= k
  OBVIOUS
<1> QED BY <1>1, <1>3, <1>4 DEF SettledAt, loop

\* fake_exponential is non-decreasing in its numerator: more excess never
\* means a lower fee, however much the integer division of each term drops.
THEOREM FakeExponentialMono ==
  ASSUME NEW f \in Nat, NEW n \in Nat, NEW m \in Nat, NEW d \in Nat \ {0},
         n <= m
  PROVE  fake_exponential(f, n, d) <= fake_exponential(f, m, d)
<1> DEFINE small == fake_exponential_loop(f, n, d)
           large == fake_exponential_loop(f, m, d)
<1>1. PICK k \in Nat : SettledAt(f, n, d, k)
  BY FakeExponentialLimit
<1>2. PICK j \in Nat : SettledAt(f, m, d, j)
  BY FakeExponentialLimit
<1>3. small[k + j].output <= large[k + j].output
  BY LoopMono
<1>4. /\ IsTurn(small, f, n, d, k + j)
      /\ IsTurn(large, f, m, d, k + j)
  BY LoopFields
<1> HIDE DEF small, large
<1>5. small[k + j].output \div d <= large[k + j].output \div d
  BY <1>3, <1>4, DivMono DEF IsTurn
<1>6. k + j \in Nat /\ k + j >= k /\ k + j >= j
  OBVIOUS
<1> QED BY <1>1, <1>2, <1>5, <1>6 DEF SettledAt, small, large

\* fake_exponential is at least its factor, and at least the first two terms
\* of the exponential: the minimum fee is a floor and the fee is unbounded.
THEOREM FakeExponentialBelow ==
  ASSUME NEW f \in Nat, NEW n \in Nat, NEW d \in Nat \ {0}, NEW x \in Nat,
         d * x <= f * d + f * n
  PROVE  x <= fake_exponential(f, n, d)
<1> DEFINE loop == fake_exponential_loop(f, n, d)
<1>1. PICK k \in Nat : SettledAt(f, n, d, k)
  BY FakeExponentialLimit
<1>2. /\ IsTurn(loop, f, n, d, 0)
      /\ IsTurn(loop, f, n, d, 1)
      /\ IsTurn(loop, f, n, d, 2 + k)
  BY LoopFields
<1>3. loop[2].output <= loop[2 + k].output
  BY OutputGrows
<1> HIDE DEF loop
<1>4. loop[2].output = f * d + f * n
  <2>1. loop[0].accum = f * d /\ loop[0].output = 0
    BY <1>2 DEF IsTurn
  <2>2. loop[0 + 1].output = f * d
    BY <1>2, <2>1 DEF IsTurn
  <2>3. loop[0 + 1].accum = ((f * d) * n) \div (d * (0 + 1))
    BY <1>2, <2>1 DEF IsTurn
  <2>4. ((f * d) * n) \div (d * (0 + 1)) = f * n
    <3>1. (f * d) * n = d * (f * n) /\ d * (0 + 1) = d
      OBVIOUS
    <3>2. \A q \in Nat : (d * q) \div d = q
      OBVIOUS
    <3>3. f * n \in Nat
      OBVIOUS
    <3> QED BY <3>1, <3>2, <3>3
  <2>5. loop[1 + 1].output = loop[1].output + loop[1].accum
    BY <1>2 DEF IsTurn
  <2>6. 0 + 1 = 1 /\ 1 + 1 = 2
    OBVIOUS
  <2> QED BY <2>2, <2>3, <2>4, <2>5, <2>6
<1>5. x <= loop[2 + k].output \div d
  <2>1. loop[2 + k].output \in Nat
    BY <1>2 DEF IsTurn
  <2>2. f * d + f * n \in Nat
    OBVIOUS
  <2>3. d * x <= loop[2 + k].output
    BY <1>3, <1>4, <2>1, <2>2
  <2>4. \A a \in Nat : d * x <= a => x <= a \div d
    OBVIOUS
  <2> QED BY <2>1, <2>3, <2>4
<1>6. 2 + k \in Nat /\ 2 + k >= k
  OBVIOUS
<1> QED BY <1>1, <1>5, <1>6 DEF SettledAt, loop

(***************************************************************************)
(* The fee of an excess, and the excess of a fee.                          *)
(***************************************************************************)
\* What __post_init__ and a positive minimum fee make of a configuration's
\* two parameters of the fee curve.
IsCurve(c) == c.min_base_fee \in Nat \ {0} /\ c.update_fraction \in Nat \ {0}

\* compute_base_fee is a natural number for every excess.
LEMMA FeeType ==
  ASSUME NEW c, IsCurve(c), NEW excess \in Nat
  PROVE  compute_base_fee(excess, c) \in Nat
  BY FakeExponentialType DEF compute_base_fee, IsCurve

\* compute_base_fee never falls when the excess grows.
LEMMA FeeMono ==
  ASSUME NEW c, IsCurve(c), NEW small \in Nat, NEW large \in Nat, small <= large
  PROVE  compute_base_fee(small, c) <= compute_base_fee(large, c)
  BY FakeExponentialMono DEF compute_base_fee, IsCurve

\* No excess has a fee below the configured minimum.
LEMMA FeeFloor ==
  ASSUME NEW c, IsCurve(c), NEW excess \in Nat
  PROVE  c.min_base_fee <= compute_base_fee(excess, c)
<1> DEFINE f == c.min_base_fee
           d == c.update_fraction
<1>1. f \in Nat /\ d \in Nat \ {0}
  BY DEF IsCurve
<1> HIDE DEF f, d
<1>2. d * f <= f * d + f * excess
  BY <1>1
<1>3. f <= fake_exponential(f, excess, d)
  BY <1>1, <1>2, FakeExponentialBelow
<1> QED BY <1>3 DEF compute_base_fee, f, d

\* Every fee is reached by some excess.
LEMMA FeeReaches ==
  ASSUME NEW c, IsCurve(c), NEW fee \in Nat
  PROVE  fee <= compute_base_fee(c.update_fraction * fee, c)
<1> DEFINE f == c.min_base_fee
           d == c.update_fraction
<1>1. f \in Nat \ {0} /\ d \in Nat \ {0}
  BY DEF IsCurve
<1> HIDE DEF f, d
<1>2. d * fee \in Nat
  BY <1>1
<1>3. d * fee <= f * d + f * (d * fee)
  BY <1>1, <1>2
<1>4. fee <= fake_exponential(f, d * fee, d)
  BY <1>1, <1>2, <1>3, FakeExponentialBelow
<1> QED BY <1>4 DEF compute_base_fee, f, d

\* The doubling of excess_gas_for_base_fee ends at an excess whose fee is
\* high enough.
LEMMA UpperExcess ==
  ASSUME NEW c, IsCurve(c), NEW fee \in Nat
  PROVE  /\ upper_excess(fee, c) \in Nat
         /\ fee <= compute_base_fee(upper_excess(fee, c), c)
<1> DEFINE IsHigh(h) == h = [k \in Nat |-> IF k = 0 THEN 1 ELSE 2 * h[k - 1]]
           high == CHOOSE h : IsHigh(h)
           goes_on == [k \in Nat |-> compute_base_fee(high[k], c) < fee]
           step == [i \in Nat |-> [s \in Nat |-> 2 * s]]
<1>1. PICK h : IsRecursive(h, Nat, 1, step)
  <2>1. step \in [Nat -> [Nat -> Nat]]
    OBVIOUS
  <2> HIDE DEF step
  <2> QED BY <2>1, Recursion
<1>2. IsHigh(h)
  <2>1. ASSUME NEW k \in Nat \ {0}
        PROVE  h[k] = 2 * h[k - 1]
    <3>1. h[k] = step[k][h[k - 1]] /\ h[k - 1] \in Nat
      BY <1>1 DEF IsRecursive
    <3> QED BY <3>1
  <2> QED BY <1>1, <2>1 DEF IsRecursive
<1>3. IsHigh(high)
  BY <1>2
<1>4. upper_excess(fee, c) = high[exit_turn(goes_on)]
  BY DEF upper_excess
<1> HIDE DEF high
<1>5. \A k \in Nat : high[k] \in Nat /\ k < high[k]
  <2> DEFINE P == {k \in Nat : high[k] \in Nat /\ k < high[k]}
  <2>1. 0 \in P
    BY <1>3
  <2>2. ASSUME NEW k \in Nat, k \in P
        PROVE  k + 1 \in P
    <3>1. k + 1 \in Nat \ {0} /\ (k + 1) - 1 = k
      OBVIOUS
    <3>2. high[k + 1] = 2 * high[k]
      BY <1>3, <3>1
    <3> QED BY <2>2, <3>2
  <2> HIDE DEF P
  <2>3. Nat \subseteq P
    BY <2>1, <2>2, SetInduction
  <2> QED BY <2>3 DEF P
<1>6. goes_on \in [Nat -> BOOLEAN]
  OBVIOUS
<1>7. \A k \in Nat : goes_on[k] <=> compute_base_fee(high[k], c) < fee
  OBVIOUS
<1> HIDE DEF goes_on
<1>8. \E k \in Nat : ~goes_on[k]
  <2> DEFINE k == c.update_fraction * fee
  <2>1. k \in Nat
    BY DEF IsCurve
  <2>2. fee <= compute_base_fee(k, c)
    BY FeeReaches
  <2> HIDE DEF k
  <2>3. high[k] \in Nat /\ k <= high[k]
    BY <1>5, <2>1
  <2>4. compute_base_fee(k, c) <= compute_base_fee(high[k], c)
    BY <2>1, <2>3, FeeMono
  <2>5. compute_base_fee(k, c) \in Nat /\ compute_base_fee(high[k], c) \in Nat
    BY <2>1, <2>3, FeeType
  <2>6. ~ (compute_base_fee(high[k], c) < fee)
    BY <2>2, <2>4, <2>5
  <2> QED BY <1>7, <2>1, <2>6
<1> DEFINE e == exit_turn(goes_on)
<1>9. e \in Nat /\ ~goes_on[e]
  BY <1>6, <1>8, ExitTurn
<1> HIDE DEF e
<1>10. high[e] \in Nat /\ ~ (compute_base_fee(high[e], c) < fee)
  BY <1>5, <1>7, <1>9
<1>11. fee <= compute_base_fee(high[e], c)
  BY <1>10, FeeType
<1> QED BY <1>4, <1>10, <1>11 DEF e

Interval == [low: Nat, high: Nat]

\* The invariant of the bisection after k turns: the answer lies between low
\* and high, and the interval has lost at least k points or is one point.
IsInterval(s, fee, c, upper, k) ==
  /\ s \in Interval
  /\ s.low <= s.high
  /\ s.high - s.low + k <= upper \/ s.low = s.high
  /\ fee <= compute_base_fee(s.high, c)
  /\ s.low = 0 \/ compute_base_fee(s.low - 1, c) < fee

halved(s, fee, c) ==
  LET mid == (s.low + s.high) \div 2
  IN  IF s.low >= s.high THEN s
      ELSE IF compute_base_fee(mid, c) < fee
      THEN [s EXCEPT !.low = mid + 1]
      ELSE [s EXCEPT !.high = mid]

\* One turn of the bisection keeps the wanted excess in the interval, and
\* shortens an interval that is not a point yet.
LEMMA Halving ==
  ASSUME NEW c, IsCurve(c), NEW fee \in Nat, NEW upper \in Nat, NEW k \in Nat,
         NEW s, IsInterval(s, fee, c, upper, k)
  PROVE  IsInterval(halved(s, fee, c), fee, c, upper, k + 1)
<1> DEFINE mid == (s.low + s.high) \div 2
<1>1. s.low \in Nat /\ s.high \in Nat /\ s \in Interval
  BY DEF IsInterval, Interval
<1>2. CASE s.low >= s.high
  <2>1. halved(s, fee, c) = s /\ s.low = s.high
    BY <1>1, <1>2 DEF halved, IsInterval
  <2> QED BY <2>1 DEF IsInterval
<1>3. CASE s.low < s.high
  <2>1. mid \in Nat /\ s.low <= mid /\ mid < s.high
    BY <1>1, <1>3
  <2>2. compute_base_fee(mid, c) \in Nat
    BY <2>1, FeeType
  <2>3. ~ (s.low >= s.high)
    BY <1>1, <1>3
  <2>4. s.high - s.low + k <= upper
    BY <1>1, <1>3 DEF IsInterval
  <2>5. CASE compute_base_fee(mid, c) < fee
    <3>1. halved(s, fee, c) = [s EXCEPT !.low = mid + 1]
      BY <2>3, <2>5 DEF halved
    <3> DEFINE t == [s EXCEPT !.low = mid + 1]
    <3>2. t.low = mid + 1 /\ t.high = s.high /\ t \in Interval
      BY <1>1, <2>1 DEF Interval
    <3> HIDE DEF t, mid
    <3>3. t.low - 1 = mid /\ t.low <= t.high /\ t.high - t.low + (k + 1) <= upper
      BY <1>1, <2>1, <2>4, <3>2
    <3>4. IsInterval(t, fee, c, upper, k + 1)
      BY <2>5, <3>2, <3>3 DEF IsInterval
    <3> QED BY <3>1, <3>4 DEF t
  <2>6. CASE ~ (compute_base_fee(mid, c) < fee)
    <3>1. halved(s, fee, c) = [s EXCEPT !.high = mid]
      BY <2>3, <2>6 DEF halved
    <3> DEFINE t == [s EXCEPT !.high = mid]
    <3>2. t.low = s.low /\ t.high = mid /\ t \in Interval
      BY <1>1, <2>1 DEF Interval
    <3> HIDE DEF t, mid
    <3>3. t.low <= t.high /\ t.high - t.low + (k + 1) <= upper
      BY <1>1, <2>1, <2>4, <3>2
    <3>4. fee <= compute_base_fee(mid, c)
      BY <2>2, <2>6
    <3>5. IsInterval(t, fee, c, upper, k + 1)
      BY <3>2, <3>3, <3>4 DEF IsInterval
    <3> QED BY <3>1, <3>5 DEF t
  <2> QED BY <2>5, <2>6
<1> QED BY <1>1, <1>2, <1>3

\* Every turn of the bisection satisfies the invariant.
LEMMA BisectionTurns ==
  ASSUME NEW c, IsCurve(c), NEW fee \in Nat, NEW k \in Nat
  PROVE  IsInterval(bisection(fee, c)[k], fee, c, upper_excess(fee, c), k)
<1> DEFINE upper == upper_excess(fee, c)
           start == [low |-> 0, high |-> upper]
           IsBisection(g) == g = [i \in Nat |-> IF i = 0 THEN start
                                               ELSE halved(g[i - 1], fee, c)]
           turns == CHOOSE g : IsBisection(g)
           Steps == {s \in Interval :
                       \E i \in Nat : IsInterval(s, fee, c, upper, i)}
           step == [i \in Nat |-> [s \in Steps |-> halved(s, fee, c)]]
<1>1. upper \in Nat /\ fee <= compute_base_fee(upper, c)
  BY UpperExcess
<1>2. bisection(fee, c) = turns
  BY DEF bisection, halved
<1> HIDE DEF upper
<1>3. IsInterval(start, fee, c, upper, 0)
  BY <1>1 DEF IsInterval, Interval
<1>4. start \in Steps
  <2>1. start \in Interval
    BY <1>1 DEF Interval
  <2> HIDE DEF start
  <2> QED BY <1>3, <2>1
<1>5. step \in [Nat -> [Steps -> Steps]]
  <2>1. ASSUME NEW s \in Steps
        PROVE  halved(s, fee, c) \in Steps
    <3>1. PICK i \in Nat : IsInterval(s, fee, c, upper, i)
      OBVIOUS
    <3>2. IsInterval(halved(s, fee, c), fee, c, upper, i + 1)
      BY <1>1, <3>1, Halving
    <3>3. halved(s, fee, c) \in Interval
      BY <3>2 DEF IsInterval
    <3> QED BY <3>2, <3>3
  <2> HIDE DEF Steps
  <2> QED BY <2>1
<1> HIDE DEF start, Steps
<1>6. PICK g : IsRecursive(g, Steps, start, step)
  <2> HIDE DEF step
  <2> QED BY <1>4, <1>5, Recursion
<1>7. IsBisection(g)
  <2>1. ASSUME NEW i \in Nat \ {0}
        PROVE  g[i] = halved(g[i - 1], fee, c)
    <3>1. g[i] = step[i][g[i - 1]] /\ g[i - 1] \in Steps
      BY <1>6 DEF IsRecursive
    <3> QED BY <3>1
  <2> QED BY <1>6, <2>1 DEF IsRecursive
<1>8. IsBisection(turns)
  BY <1>7
<1> HIDE DEF turns
<1> DEFINE P == {i \in Nat : IsInterval(turns[i], fee, c, upper, i)}
<1>9. 0 \in P
  BY <1>3, <1>8
<1>10. ASSUME NEW i \in Nat, i \in P
       PROVE  i + 1 \in P
  <2>1. i + 1 \in Nat \ {0} /\ (i + 1) - 1 = i
    OBVIOUS
  <2>2. turns[i + 1] = halved(turns[i], fee, c)
    BY <1>8, <2>1
  <2>3. IsInterval(halved(turns[i], fee, c), fee, c, upper, i + 1)
    BY <1>1, <1>10, Halving
  <2> QED BY <2>2, <2>3
<1> HIDE DEF P
<1>11. Nat \subseteq P
  BY <1>9, <1>10, SetInduction
<1>12. IsInterval(turns[k], fee, c, upper, k)
  BY <1>11 DEF P
<1> QED BY <1>2, <1>12 DEF upper

\* excess_gas_for_base_fee returns the smallest excess whose fee reaches the
\* one asked for: its fee is at least that, and one less would not be enough.
THEOREM WarmStartExcess ==
  ASSUME NEW c, IsCurve(c), NEW fee \in Nat, c.min_base_fee <= fee
  PROVE  LET excess == excess_gas_for_base_fee(fee, c)
         IN  /\ excess \in Nat
             /\ fee <= compute_base_fee(excess, c)
             /\ excess = 0 \/ compute_base_fee(excess - 1, c) < fee
<1> DEFINE excess == excess_gas_for_base_fee(fee, c)
           upper == upper_excess(fee, c)
           last == bisection(fee, c)[upper]
<1>1. CASE fee <= c.min_base_fee
  <2>1. excess = 0
    BY <1>1 DEF excess_gas_for_base_fee
  <2>2. c.min_base_fee <= compute_base_fee(0, c)
    BY FeeFloor
  <2>3. fee = c.min_base_fee
    BY <1>1 DEF IsCurve
  <2> QED BY <2>1, <2>2, <2>3
<1>2. CASE ~ (fee <= c.min_base_fee)
  <2>1. excess = last.low
    BY <1>2 DEF excess_gas_for_base_fee
  <2>2. upper \in Nat
    BY UpperExcess
  <2>3. IsInterval(last, fee, c, upper, upper)
    BY <2>2, BisectionTurns
  <2> HIDE DEF excess, upper, last
  <2>4. last.low \in Nat /\ last.high \in Nat
    BY <2>3 DEF IsInterval, Interval
  <2>5. last.low = last.high
    BY <2>2, <2>3, <2>4 DEF IsInterval
  <2>6. /\ excess \in Nat
        /\ fee <= compute_base_fee(excess, c)
        /\ excess = 0 \/ compute_base_fee(excess - 1, c) < fee
    BY <2>1, <2>3, <2>4, <2>5 DEF IsInterval
  <2> QED BY <2>6 DEF excess
<1> QED BY <1>1, <1>2

(***************************************************************************)
(* One resource, one block.                                                *)
(***************************************************************************)
\* A configuration the mechanisms build: the reserve needs a limit.
IsConfig(c) ==
  /\ IsCurve(c)
  /\ c.gas_target \in Nat
  /\ c.gas_normalization_factor \in Nat \ {0}
  /\ c.reserve_factor \in Nat
  /\ normalization_denominator_value(c) \in Nat \ {0}
  /\ has_reserve_price(c) =>
       c.gas_limit \in Nat \ {0} /\ c.gas_target <= c.gas_limit

\* One with a hard limit, which is then also what it normalises by.
IsLimited(c) ==
  /\ IsConfig(c)
  /\ c.gas_limit \in Nat \ {0}
  /\ c.gas_target <= c.gas_limit
  /\ normalization_denominator_value(c) = c.gas_limit

\* A normalised change of the excess is a natural number.
LEMMA NormalizedType ==
  ASSUME NEW c, IsConfig(c), NEW delta \in Nat, NEW d \in Nat \ {0}
  PROVE  normalized(delta, d, c) \in Nat
<1>1. c.gas_normalization_factor \in Nat
  BY DEF IsConfig
<1>2. delta * c.gas_normalization_factor \in Nat
  BY <1>1
<1> QED BY <1>2, DivFacts DEF normalized

\* A larger change of gas is a larger normalised change of the excess.
LEMMA NormalizedMono ==
  ASSUME NEW c, IsConfig(c), NEW small \in Nat, NEW large \in Nat,
         small <= large, NEW d \in Nat \ {0}
  PROVE  normalized(small, d, c) <= normalized(large, d, c)
<1> DEFINE g == c.gas_normalization_factor
<1>1. g \in Nat
  BY DEF IsConfig
<1>2. small * g \in Nat /\ large * g \in Nat /\ small * g <= large * g
  BY <1>1, ProductMono
<1> QED BY <1>2, DivMono DEF normalized

\* The raise under the reserve, before it is normalised: the gas used, scaled
\* by the part of the limit above the target.
LEMMA ReserveRaise ==
  ASSUME NEW limit \in Nat \ {0}, NEW target \in Nat, target <= limit,
         NEW x \in Nat, NEW y \in Nat, x <= y
  PROVE  /\ (x * (limit - target)) \div limit \in Nat
         /\ (x * (limit - target)) \div limit <= (y * (limit - target)) \div limit
         /\ y <= limit => (y * (limit - target)) \div limit <= limit - target
<1> DEFINE room == limit - target
<1>1. room \in Nat
  OBVIOUS
<1> HIDE DEF room
<1>2. x * room \in Nat /\ y * room \in Nat /\ x * room <= y * room
  BY <1>1, ProductMono
<1>3. (x * room) \div limit \in Nat
  BY <1>2, DivFacts
<1>4. (x * room) \div limit <= (y * room) \div limit
  BY <1>2, DivMono
<1>5. ASSUME y <= limit
      PROVE  (y * room) \div limit <= room
  <2>1. y * room <= limit * room
    BY <1>1, <1>5, ProductMono
  <2> QED BY <1>1, <1>2, <2>1, DivBound
<1> QED BY <1>3, <1>4, <1>5 DEF room

\* The three cases of update_normalized_excess_gas.
LEMMA UpdateCases ==
  ASSUME NEW c, IsConfig(c), NEW excess \in Nat, NEW used \in Nat,
         NEW fee, NEW anchor
  PROVE  LET next == update_normalized_excess_gas(excess, used, c, fee, anchor)
             d    == normalization_denominator_value(c)
         IN  /\ reserve_price_active(fee, anchor, c) =>
                  /\ (used * (c.gas_limit - c.gas_target)) \div c.gas_limit \in Nat
                  /\ c.gas_limit \in Nat \ {0}
                  /\ next = excess + normalized((used * (c.gas_limit - c.gas_target))
                                                 \div c.gas_limit, c.gas_limit, c)
             /\ ~reserve_price_active(fee, anchor, c) /\ used >= c.gas_target =>
                  /\ used - c.gas_target \in Nat
                  /\ next = excess + normalized(used - c.gas_target, d, c)
             /\ ~reserve_price_active(fee, anchor, c) /\ used < c.gas_target =>
                  /\ c.gas_target - used \in Nat
                  /\ next = Larger(0, excess - normalized(c.gas_target - used, d, c))
<1> DEFINE next == update_normalized_excess_gas(excess, used, c, fee, anchor)
<1>1. c.gas_target \in Nat
  BY DEF IsConfig
<1>2. CASE reserve_price_active(fee, anchor, c)
  <2>1. c.gas_limit \in Nat \ {0} /\ c.gas_target <= c.gas_limit
    BY <1>2 DEF reserve_price_active, IsConfig
  <2>2. (used * (c.gas_limit - c.gas_target)) \div c.gas_limit \in Nat
    BY <1>1, <2>1, ReserveRaise
  <2>3. next = excess + normalized((used * (c.gas_limit - c.gas_target))
                                      \div c.gas_limit, c.gas_limit, c)
    BY <1>2 DEF update_normalized_excess_gas
  <2> QED BY <1>2, <2>1, <2>2, <2>3
<1>3. CASE ~reserve_price_active(fee, anchor, c) /\ used >= c.gas_target
  <2>1. used - c.gas_target \in Nat
    BY <1>1, <1>3
  <2>2. ~ (used < c.gas_target)
    BY <1>1, <1>3
  <2> QED BY <1>3, <2>1, <2>2 DEF update_normalized_excess_gas
<1>4. CASE ~reserve_price_active(fee, anchor, c) /\ used < c.gas_target
  <2>1. c.gas_target - used \in Nat
    BY <1>1, <1>4
  <2>2. ~ (used >= c.gas_target)
    BY <1>1, <1>4
  <2> QED BY <1>4, <2>1, <2>2 DEF update_normalized_excess_gas
<1> QED BY <1>1, <1>2, <1>3, <1>4

\* The new excess is a natural number; it does not fall at or over target, nor
\* while the reserve is on, and does not rise otherwise.
LEMMA UpdateDirection ==
  ASSUME NEW c, IsConfig(c), NEW excess \in Nat, NEW used \in Nat,
         NEW fee, NEW anchor
  PROVE  LET next == update_normalized_excess_gas(excess, used, c, fee, anchor)
         IN  /\ next \in Nat
             /\ reserve_price_active(fee, anchor, c) \/ used >= c.gas_target
                  => next >= excess
             /\ ~reserve_price_active(fee, anchor, c) /\ used <= c.gas_target
                  => next <= excess
<1> DEFINE next == update_normalized_excess_gas(excess, used, c, fee, anchor)
           d == normalization_denominator_value(c)
<1>1. c.gas_target \in Nat /\ d \in Nat \ {0}
  BY DEF IsConfig
<1>2. CASE reserve_price_active(fee, anchor, c)
  <2> DEFINE raise == (used * (c.gas_limit - c.gas_target)) \div c.gas_limit
  <2>1. /\ raise \in Nat
        /\ c.gas_limit \in Nat \ {0}
        /\ next = excess + normalized(raise, c.gas_limit, c)
    BY <1>2, UpdateCases
  <2> HIDE DEF raise, next
  <2>2. normalized(raise, c.gas_limit, c) \in Nat
    BY <2>1, NormalizedType
  <2>3. next \in Nat /\ next >= excess
    BY <2>1, <2>2
  <2> QED BY <1>2, <2>3 DEF next
<1>3. CASE ~reserve_price_active(fee, anchor, c) /\ used >= c.gas_target
  <2>1. /\ used - c.gas_target \in Nat
        /\ next = excess + normalized(used - c.gas_target, d, c)
    BY <1>3, UpdateCases
  <2> HIDE DEF next, d
  <2>2. normalized(used - c.gas_target, d, c) \in Nat
    BY <1>1, <2>1, NormalizedType
  <2>3. next \in Nat /\ next >= excess
    BY <2>1, <2>2
  <2>4. ASSUME used <= c.gas_target
        PROVE  next = excess
    <3>1. used - c.gas_target = 0
      BY <1>1, <1>3, <2>4
    <3>2. c.gas_normalization_factor \in Nat
      BY DEF IsConfig
    <3>3. normalized(0, d, c) = 0
      BY <1>1, <3>2 DEF normalized
    <3> QED BY <2>1, <3>1, <3>3
  <2> QED BY <1>3, <2>3, <2>4 DEF next
<1>4. CASE ~reserve_price_active(fee, anchor, c) /\ used < c.gas_target
  <2>1. /\ c.gas_target - used \in Nat
        /\ next = Larger(0, excess - normalized(c.gas_target - used, d, c))
    BY <1>4, UpdateCases
  <2> HIDE DEF next, d
  <2>2. normalized(c.gas_target - used, d, c) \in Nat
    BY <1>1, <2>1, NormalizedType
  <2>3. next \in Nat /\ next <= excess /\ ~ (used >= c.gas_target)
    BY <1>1, <1>4, <2>1, <2>2 DEF Larger
  <2> QED BY <1>4, <2>3 DEF next
<1> QED BY <1>1, <1>2, <1>3, <1>4

\* From one parent, a block of more gas never leaves less excess.
LEMMA UpdateMono ==
  ASSUME NEW c, IsConfig(c), NEW excess \in Nat, NEW fee, NEW anchor,
         NEW x \in Nat, NEW y \in Nat, x <= y
  PROVE  update_normalized_excess_gas(excess, x, c, fee, anchor)
           <= update_normalized_excess_gas(excess, y, c, fee, anchor)
<1> DEFINE nx == update_normalized_excess_gas(excess, x, c, fee, anchor)
           ny == update_normalized_excess_gas(excess, y, c, fee, anchor)
           d == normalization_denominator_value(c)
           active == reserve_price_active(fee, anchor, c)
<1>1. c.gas_target \in Nat /\ d \in Nat \ {0}
  BY DEF IsConfig
<1>2. nx \in Nat /\ ny \in Nat
  BY UpdateDirection
<1>3. CASE active
  <2> DEFINE rx == (x * (c.gas_limit - c.gas_target)) \div c.gas_limit
             ry == (y * (c.gas_limit - c.gas_target)) \div c.gas_limit
  <2>1. /\ rx \in Nat /\ ry \in Nat /\ c.gas_limit \in Nat \ {0}
        /\ nx = excess + normalized(rx, c.gas_limit, c)
        /\ ny = excess + normalized(ry, c.gas_limit, c)
    BY <1>3, UpdateCases
  <2>2. rx <= ry
    <3>1. c.gas_limit \in Nat \ {0} /\ c.gas_target <= c.gas_limit
      BY <1>3 DEF reserve_price_active, IsConfig
    <3> QED BY <1>1, <3>1, ReserveRaise
  <2> HIDE DEF rx, ry, nx, ny
  <2>3. normalized(rx, c.gas_limit, c) <= normalized(ry, c.gas_limit, c)
    BY <2>1, <2>2, NormalizedMono
  <2>4. normalized(rx, c.gas_limit, c) \in Nat /\ normalized(ry, c.gas_limit, c) \in Nat
    BY <2>1, NormalizedType
  <2>5. nx <= ny
    BY <2>1, <2>3, <2>4
  <2> QED BY <2>5 DEF nx, ny
<1>4. CASE ~active /\ x >= c.gas_target
  <2>1. y >= c.gas_target
    BY <1>1, <1>4
  <2>2. /\ x - c.gas_target \in Nat /\ y - c.gas_target \in Nat
        /\ nx = excess + normalized(x - c.gas_target, d, c)
        /\ ny = excess + normalized(y - c.gas_target, d, c)
    BY <1>4, <2>1, UpdateCases
  <2>3. x - c.gas_target <= y - c.gas_target
    BY <1>1
  <2> HIDE DEF nx, ny, d
  <2>4. normalized(x - c.gas_target, d, c) <= normalized(y - c.gas_target, d, c)
    BY <1>1, <2>2, <2>3, NormalizedMono
  <2>5. normalized(x - c.gas_target, d, c) \in Nat
        /\ normalized(y - c.gas_target, d, c) \in Nat
    BY <1>1, <2>2, NormalizedType
  <2>6. nx <= ny
    BY <2>2, <2>4, <2>5
  <2> QED BY <2>6 DEF nx, ny
<1>5. CASE ~active /\ y < c.gas_target
  <2>1. x < c.gas_target
    BY <1>1, <1>5
  <2>2. /\ c.gas_target - x \in Nat /\ c.gas_target - y \in Nat
        /\ nx = Larger(0, excess - normalized(c.gas_target - x, d, c))
        /\ ny = Larger(0, excess - normalized(c.gas_target - y, d, c))
    BY <1>5, <2>1, UpdateCases
  <2>3. c.gas_target - y <= c.gas_target - x
    BY <1>1
  <2> HIDE DEF nx, ny, d
  <2>4. normalized(c.gas_target - y, d, c) <= normalized(c.gas_target - x, d, c)
    BY <1>1, <2>2, <2>3, NormalizedMono
  <2>5. normalized(c.gas_target - x, d, c) \in Nat
        /\ normalized(c.gas_target - y, d, c) \in Nat
    BY <1>1, <2>2, NormalizedType
  <2>6. nx <= ny
    BY <2>2, <2>4, <2>5 DEF Larger
  <2> QED BY <2>6 DEF nx, ny
<1>6. CASE ~active /\ x < c.gas_target /\ y >= c.gas_target
  <2>1. nx <= excess
    <3>1. x <= c.gas_target
      BY <1>1, <1>6
    <3> QED BY <1>6, <3>1, UpdateDirection
  <2>3. ny >= excess
    BY <1>6, UpdateDirection
  <2> HIDE DEF nx, ny
  <2>2. nx <= ny
    BY <1>2, <2>1, <2>3
  <2> QED BY <2>2 DEF nx, ny
<1> QED BY <1>1, <1>3, <1>4, <1>5, <1>6

\* A limited resource moves by no more than a full block raises it and an
\* empty block lowers it, once usage is capped, with or without the reserve.
LEMMA UpdateBounded ==
  ASSUME NEW c, IsLimited(c), NEW excess \in Nat, NEW fee, NEW anchor,
         NEW used \in Nat, used <= c.gas_limit
  PROVE  LET next == update_normalized_excess_gas(excess, used, c, fee, anchor)
         IN  /\ next <= excess + normalized(c.gas_limit - c.gas_target, c.gas_limit, c)
             /\ next >= excess - normalized(c.gas_target, c.gas_limit, c)
<1> DEFINE next == update_normalized_excess_gas(excess, used, c, fee, anchor)
           d == normalization_denominator_value(c)
           limit == c.gas_limit
           target == c.gas_target
           rise == normalized(limit - target, limit, c)
           fall == normalized(target, limit, c)
           active == reserve_price_active(fee, anchor, c)
<1>1. /\ IsConfig(c) /\ d = limit /\ limit \in Nat \ {0} /\ target \in Nat
      /\ target <= limit /\ limit - target \in Nat
  BY DEF IsLimited, IsConfig
<1>2. rise \in Nat /\ fall \in Nat
  BY <1>1, NormalizedType
<1>3. CASE active
  <2> DEFINE raise == (used * (limit - target)) \div limit
  <2>1. raise \in Nat /\ next = excess + normalized(raise, limit, c)
    BY <1>1, <1>3, UpdateCases
  <2>2. raise <= limit - target
    BY <1>1, ReserveRaise
  <2> HIDE DEF raise, next, limit, target, rise, fall
  <2>3. normalized(raise, limit, c) <= rise
    BY <1>1, <2>1, <2>2, NormalizedMono DEF rise
  <2>4. normalized(raise, limit, c) \in Nat
    BY <1>1, <2>1, NormalizedType
  <2>5. next <= excess + rise /\ next >= excess - fall
    BY <1>2, <2>1, <2>3, <2>4
  <2> QED BY <2>5 DEF next, rise, fall, limit, target
<1>4. CASE ~active /\ used >= target
  <2>1. used - target \in Nat /\ next = excess + normalized(used - target, d, c)
    BY <1>1, <1>4, UpdateCases
  <2>2. used - target <= limit - target
    BY <1>1
  <2> HIDE DEF next, limit, target, rise, fall, d
  <2>3. normalized(used - target, d, c) <= rise
    BY <1>1, <2>1, <2>2, NormalizedMono DEF rise
  <2>4. normalized(used - target, d, c) \in Nat
    BY <1>1, <2>1, NormalizedType
  <2>5. next <= excess + rise /\ next >= excess - fall
    BY <1>2, <2>1, <2>3, <2>4
  <2> QED BY <2>5 DEF next, rise, fall, limit, target
<1>5. CASE ~active /\ used < target
  <2>1. /\ target - used \in Nat
        /\ next = Larger(0, excess - normalized(target - used, d, c))
    BY <1>1, <1>5, UpdateCases
  <2>2. target - used <= target
    BY <1>1
  <2> HIDE DEF next, limit, target, rise, fall, d
  <2>3. normalized(target - used, d, c) <= fall
    BY <1>1, <2>1, <2>2, NormalizedMono DEF fall
  <2>4. normalized(target - used, d, c) \in Nat
    BY <1>1, <2>1, NormalizedType
  <2>5. next <= excess + rise /\ next >= excess - fall
    BY <1>2, <2>1, <2>3, <2>4 DEF Larger
  <2> QED BY <2>5 DEF next, rise, fall, limit, target
<1> QED BY <1>1, <1>3, <1>4, <1>5

\* The reserve condition and its reported threshold, a product and a division
\* rounded up, say the same of every fee and anchor.
THEOREM ReserveThreshold ==
  ASSUME NEW c, c.reserve_factor \in Nat \ {0},
         NEW fee \in Nat, NEW anchor \in Nat
  PROVE  reserve_price_active(fee, anchor, c) <=>
           fee < reserve_anchor_threshold_base_fee(anchor, c)
<1> DEFINE factor == c.reserve_factor
<1>1. factor \in Nat \ {0}
  OBVIOUS
<1> HIDE DEF factor
<1>2. fee * factor < anchor <=> fee < (anchor + factor - 1) \div factor
  BY <1>1
<1>3. factor > 0
  BY <1>1
<1> QED BY <1>2, <1>3
     DEF reserve_price_active, reserve_anchor_threshold_base_fee,
         has_reserve_price, factor

(***************************************************************************)
(* What update_eip1559_base_fee (basefee/eip1559.py) does to a fee, for    *)
(* every target, usage and minimum.                                        *)
(***************************************************************************)
\* The change of a fee for a gap between usage and target.
change(parent, gap, target) ==
  ((parent * gap) \div target) \div BASE_FEE_MAX_CHANGE_DENOMINATOR

\* The change EIP-1559 makes to a fee is a natural number.
LEMMA ChangeType ==
  ASSUME NEW parent \in Nat, NEW gap \in Nat, NEW target \in Nat \ {0}
  PROVE  change(parent, gap, target) \in Nat
<1>1. parent * gap \in Nat
  OBVIOUS
<1>2. (parent * gap) \div target \in Nat
  BY <1>1, DivFacts
<1> QED BY <1>2, DivFacts DEF change, BASE_FEE_MAX_CHANGE_DENOMINATOR

\* A larger gap between usage and target is a larger change.
LEMMA ChangeMono ==
  ASSUME NEW parent \in Nat, NEW target \in Nat \ {0},
         NEW small \in Nat, NEW large \in Nat, small <= large
  PROVE  change(parent, small, target) <= change(parent, large, target)
<1>1. /\ parent * small \in Nat /\ parent * large \in Nat
      /\ parent * small <= parent * large
  BY ProductMono
<1>2. /\ (parent * small) \div target \in Nat
      /\ (parent * large) \div target \in Nat
      /\ (parent * small) \div target <= (parent * large) \div target
  BY <1>1, DivFacts, DivMono
<1> QED BY <1>2, DivMono DEF change, BASE_FEE_MAX_CHANGE_DENOMINATOR

\* Under target a fee loses at most an eighth, rounded down.
LEMMA ChangeAtMostAnEighth ==
  ASSUME NEW parent \in Nat, NEW gap \in Nat, NEW target \in Nat \ {0},
         gap <= target
  PROVE  8 * change(parent, gap, target) <= parent
<1>1. parent * gap \in Nat /\ parent * gap <= target * parent
  <2>1. parent * gap <= parent * target
    BY ProductMono
  <2> QED BY <2>1
<1>2. (parent * gap) \div target \in Nat /\ (parent * gap) \div target <= parent
  BY <1>1, DivFacts, DivBound
<1> DEFINE q == (parent * gap) \div target
<1> HIDE DEF q
<1>3. 8 * (q \div 8) <= parent
  BY <1>2 DEF q
<1> QED BY <1>3 DEF q, change, BASE_FEE_MAX_CHANGE_DENOMINATOR

\* The three cases of update_eip1559_base_fee for a fee at or over its minimum.
LEMMA UpdateCases1559 ==
  ASSUME NEW parent \in Nat, NEW used \in Nat, NEW target \in Nat \ {0},
         NEW minimum \in Nat, minimum <= parent
  PROVE  LET next == update_eip1559_base_fee(parent, used, target, minimum)
         IN  /\ used = target => next = parent
             /\ used > target =>
                  next = parent + Larger(change(parent, used - target, target), 1)
             /\ used < target =>
                  next = Larger(parent - change(parent, target - used, target),
                                minimum)
<1>1. Larger(parent, minimum) = parent
  BY DEF Larger
<1>2. CASE used = target
  BY <1>1, <1>2 DEF update_eip1559_base_fee
<1>3. CASE used > target
  <2>1. used >= target /\ used # target
    BY <1>3
  <2>2. ~ (used < target)
    BY <1>3
  <2> QED BY <1>1, <1>3, <2>1, <2>2 DEF update_eip1559_base_fee, change
<1>4. CASE used < target
  <2>1. ~ (used >= target) /\ used # target /\ ~ (used > target)
    BY <1>4
  <2> QED BY <1>1, <1>4, <2>1 DEF update_eip1559_base_fee, change
<1> QED BY <1>2, <1>3, <1>4

\* What the rule does to a fee at or over its minimum.
LEMMA Update1559 ==
  ASSUME NEW parent \in Nat, NEW used \in Nat, NEW target \in Nat \ {0},
         NEW minimum \in Nat, minimum <= parent
  PROVE  LET next == update_eip1559_base_fee(parent, used, target, minimum)
         IN  /\ next \in Nat
             /\ next >= minimum
             /\ next >= Smaller(parent, 7)
             /\ used > target => next > parent
             /\ used <= target => next <= parent
             /\ \A limit \in Nat : target <= limit /\ used <= limit =>
                  next <= parent + Larger(change(parent, limit - target, target), 1)
<1> DEFINE next == update_eip1559_base_fee(parent, used, target, minimum)
<1>1. CASE used = target
  <2>1. next = parent
    BY <1>1, UpdateCases1559
  <2> HIDE DEF next
  <2>2. ASSUME NEW limit \in Nat, target <= limit
        PROVE  next <= parent + Larger(change(parent, limit - target, target), 1)
    <3>1. limit - target \in Nat
      BY <2>2
    <3>2. change(parent, limit - target, target) \in Nat
      BY <3>1, ChangeType
    <3> QED BY <2>1, <3>2 DEF Larger
  <2>3. next >= Smaller(parent, 7)
    BY <2>1 DEF Smaller
  <2> QED BY <1>1, <2>1, <2>2, <2>3 DEF next
<1>2. CASE used > target
  <2> DEFINE rise == change(parent, used - target, target)
  <2>1. used - target \in Nat
    BY <1>2
  <2>2. rise \in Nat
    BY <2>1, ChangeType
  <2>3. next = parent + Larger(rise, 1)
    BY <1>2, UpdateCases1559
  <2> HIDE DEF next
  <2>4. ASSUME NEW limit \in Nat, target <= limit, used <= limit
        PROVE  next <= parent + Larger(change(parent, limit - target, target), 1)
    <3>1. limit - target \in Nat /\ used - target <= limit - target
      BY <2>4
    <3>2. rise <= change(parent, limit - target, target)
      BY <2>1, <3>1, ChangeMono
    <3>3. change(parent, limit - target, target) \in Nat
      BY <3>1, ChangeType
    <3> HIDE DEF rise
    <3> QED BY <2>2, <2>3, <3>2, <3>3 DEF Larger
  <2> HIDE DEF rise
  <2>5. next \in Nat /\ next > parent
    BY <2>2, <2>3 DEF Larger
  <2>6. next >= minimum /\ next >= Smaller(parent, 7)
    BY <2>5 DEF Smaller
  <2>7. ~ (used <= target)
    BY <1>2
  <2> QED BY <2>4, <2>5, <2>6, <2>7 DEF next
<1>3. CASE used < target
  <2> DEFINE fall == change(parent, target - used, target)
  <2>1. target - used \in Nat /\ target - used <= target
    BY <1>3
  <2>2. fall \in Nat
    BY <2>1, ChangeType
  <2>3. 8 * fall <= parent
    BY <2>1, ChangeAtMostAnEighth
  <2>4. next = Larger(parent - fall, minimum)
    BY <1>3, UpdateCases1559
  <2> HIDE DEF next, fall
  <2>5. next \in Nat /\ next >= minimum /\ next <= parent
    BY <2>2, <2>3, <2>4 DEF Larger
  <2>6. next >= Smaller(parent, 7)
    BY <2>2, <2>3, <2>4 DEF Larger, Smaller
  <2>7. ASSUME NEW limit \in Nat, target <= limit
        PROVE  next <= parent + Larger(change(parent, limit - target, target), 1)
    <3>1. limit - target \in Nat
      BY <2>7
    <3>2. change(parent, limit - target, target) \in Nat
      BY <3>1, ChangeType
    <3> QED BY <2>5, <3>2 DEF Larger
  <2>8. ~ (used > target)
    BY <1>3
  <2> QED BY <2>5, <2>6, <2>7, <2>8 DEF next
<1> QED BY <1>1, <1>2, <1>3

\* More gas never leaves a smaller fee.
LEMMA Mono1559 ==
  ASSUME NEW parent \in Nat, NEW target \in Nat \ {0},
         NEW minimum \in Nat, minimum <= parent,
         NEW x \in Nat, NEW y \in Nat, x <= y
  PROVE  update_eip1559_base_fee(parent, x, target, minimum)
           <= update_eip1559_base_fee(parent, y, target, minimum)
<1> DEFINE nx == update_eip1559_base_fee(parent, x, target, minimum)
           ny == update_eip1559_base_fee(parent, y, target, minimum)
<1>1. nx \in Nat /\ ny \in Nat
  BY Update1559
<1>2. CASE x > target
  <2>1. /\ x - target \in Nat /\ y - target \in Nat
        /\ x - target <= y - target /\ y > target
    BY <1>2
  <2>2. /\ nx = parent + Larger(change(parent, x - target, target), 1)
        /\ ny = parent + Larger(change(parent, y - target, target), 1)
    BY <1>2, <2>1, UpdateCases1559
  <2> HIDE DEF nx, ny
  <2>3. /\ change(parent, x - target, target) \in Nat
        /\ change(parent, y - target, target) \in Nat
        /\ change(parent, x - target, target) <= change(parent, y - target, target)
    BY <2>1, ChangeType, ChangeMono
  <2>4. nx <= ny
    BY <2>2, <2>3 DEF Larger
  <2> QED BY <2>4 DEF nx, ny
<1>3. CASE y < target
  <2>1. /\ target - x \in Nat /\ target - y \in Nat
        /\ target - y <= target - x /\ x < target
    BY <1>3
  <2>2. /\ nx = Larger(parent - change(parent, target - x, target), minimum)
        /\ ny = Larger(parent - change(parent, target - y, target), minimum)
    BY <1>3, <2>1, UpdateCases1559
  <2> HIDE DEF nx, ny
  <2>3. /\ change(parent, target - x, target) \in Nat
        /\ change(parent, target - y, target) \in Nat
        /\ change(parent, target - y, target) <= change(parent, target - x, target)
    BY <2>1, ChangeType, ChangeMono
  <2>4. nx <= ny
    BY <2>2, <2>3 DEF Larger
  <2> QED BY <2>4 DEF nx, ny
<1>4. CASE x <= target /\ y >= target
  <2>1. nx <= parent
    BY <1>4, Update1559
  <2>2. ny >= parent
    <3>1. CASE y > target
      <4>1. ny > parent
        BY <3>1, Update1559
      <4> HIDE DEF ny
      <4> QED BY <1>1, <4>1
    <3>2. CASE y = target
      <4>1. ny = parent
        BY <3>2, UpdateCases1559
      <4> HIDE DEF ny
      <4> QED BY <4>1
    <3> QED BY <1>4, <3>1, <3>2
  <2> HIDE DEF nx, ny
  <2>3. nx <= ny
    BY <1>1, <2>1, <2>2
  <2> QED BY <2>3 DEF nx, ny
<1> QED BY <1>2, <1>3, <1>4

(***************************************************************************)
(* A quotient that is rounded before it is floored: p \div d, wrong by x   *)
(* parts in u, of at most e either way.                                    *)
(***************************************************************************)
\* Of what is left of a whole quotient, and an error added to it, none or one is
\* carried over.
LEMMA CarryBounds ==
  ASSUME NEW whole \in Int, NEW rest \in Nat, NEW gap \in Nat \ {0}, NEW error \in Int,
         NEW bound \in Nat, - bound <= error, error <= bound
  PROVE  LET w == rest + gap
             a == whole + rest + error
         IN  /\ bound <= rest /\ bound < gap => whole <= a /\ a < whole + w
             /\ bound <= w => whole - w <= a /\ a < whole + w + w
OBVIOUS

quotient(p, d, u, x) == (p * (u + x)) \div (d * u)

\* Flooring the rounded quotient is a whole number off at most while the
\* rounding is under one, and nothing off where the exact quotient is clear of
\* a whole number.
IsNearly(rounded, p, d, u, e) ==
  /\ rounded \in Nat
  /\ p * e <= d * u => rounded \in (p \div d) - 1 .. (p \div d) + 1
  /\ p * e <= (p % d) * u /\ p * e < (d - (p % d)) * u => rounded = p \div d

LEMMA RoundedQuotient ==
  ASSUME NEW p \in Nat, NEW d \in Nat \ {0}, NEW u \in Nat \ {0},
         NEW e \in Nat, e < u, NEW x \in - e .. e
  PROVE  IsNearly(quotient(p, d, u, x), p, d, u, e)
<1> DEFINE q == p \div d
           m == p % d
           w == d * u
           a == p * (u + x)
           rounded == a \div w
<1>1. /\ q \in Nat /\ m \in Nat /\ m < d /\ p = d * q + m
  OBVIOUS
<1> HIDE DEF q, m
<1>2. u + x \in Nat /\ w \in Nat \ {0} /\ m * u \in Nat /\ p * e \in Nat /\ p * x \in Int
  BY <1>1
<1>3. a = w * q + m * u + p * x
  <2>1. a = p * u + p * x
    OBVIOUS
  <2>2. p * u = (d * q + m) * u
    BY <1>1
  <2>3. (d * q + m) * u = (d * u) * q + m * u
    BY <1>1
  <2> QED BY <2>1, <2>2, <2>3
<1>4. - (p * e) <= p * x /\ p * x <= p * e
  <2>1. p * (e - x) \in Nat /\ p * (e + x) \in Nat
    BY <1>2
  <2>2. p * (e - x) = p * e - p * x /\ p * (e + x) = p * e + p * x
    OBVIOUS
  <2> QED BY <1>2, <2>1, <2>2
<1>5. m * u + (d - m) * u = w /\ (d - m) * u \in Nat \ {0}
  <2>1. d - m \in Nat \ {0}
    BY <1>1
  <2>2. (d - m) * u \in Nat \ {0}
    BY <2>1
  <2>3. (d - m) * u = d * u - m * u
    BY <1>1
  <2> QED BY <1>2, <2>2, <2>3
<1>6. a \in Nat
  BY <1>2
<1>7. rounded \in Nat /\ w * rounded <= a /\ a < w * rounded + w
  BY <1>2, <1>6, DivFacts
<1>8. ASSUME p * e <= m * u, p * e < (d - m) * u
      PROVE  rounded = q
  <2>1. w * q \in Int
    BY <1>1, <1>2
  <2> HIDE DEF w, a
  <2>2. w * q <= a /\ a < w * q + w
    BY <1>2, <1>3, <1>4, <1>5, <1>8, <2>1, CarryBounds
  <2> QED BY <1>1, <1>2, <1>6, <2>2, QuotientIs
<1>9. ASSUME p * e <= w
      PROVE  rounded \in q - 1 .. q + 1
  <2>1. w * q \in Int
    BY <1>1, <1>2
  <2> HIDE DEF w, a, rounded
  <2>2. w * q - w <= a /\ a < w * q + w + w
    BY <1>2, <1>3, <1>4, <1>5, <1>9, <2>1, CarryBounds
  <2>3. ~ (rounded < q - 1)
    <3> SUFFICES ASSUME rounded + 2 <= q PROVE FALSE
      BY <1>1, <1>7
    <3>1. w * (rounded + 2) <= w * q
      BY <1>1, <1>2, <1>7, ProductMono
    <3>2. w * (rounded + 2) = w * rounded + w + w /\ w * rounded \in Int
      BY <1>2, <1>7
    <3> QED BY <1>2, <1>6, <1>7, <2>1, <2>2, <3>1, <3>2
  <2>4. ~ (rounded > q + 1)
    <3> SUFFICES ASSUME q + 2 <= rounded PROVE FALSE
      BY <1>1, <1>7
    <3>1. w * (q + 2) <= w * rounded
      BY <1>1, <1>2, <1>7, ProductMono
    <3>2. w * (q + 2) = w * q + w + w /\ w * rounded \in Int
      BY <1>1, <1>2, <1>7
    <3> QED BY <1>2, <1>6, <1>7, <2>1, <2>2, <3>1, <3>2
  <2> QED BY <1>1, <1>7, <2>3, <2>4
<1>10. IsNearly(rounded, p, d, u, e)
  <2> HIDE DEF rounded
  <2> QED BY <1>7, <1>8, <1>9 DEF IsNearly, q, m
<1> QED BY <1>10 DEF quotient

\* The step of a fee, rounded: under target it takes less than the fee.
LEMMA RoundedStepBelow ==
  ASSUME NEW f \in Nat \ {0}, NEW g \in Nat, NEW t \in Nat \ {0}, g <= t,
         NEW u \in Nat \ {0}, NEW e \in Nat, e < u, NEW x \in - e .. e
  PROVE  (f * g * (u + x)) \div (t * 8 * u) < f
<1>1. f * g \in Nat /\ f * g <= f * t /\ f * t \in Nat
  BY ProductMono
<1>2. u + x \in Nat /\ u + x <= 2 * u
  OBVIOUS
<1>3. (f * g) * (u + x) \in Nat /\ (f * g) * (u + x) <= (f * t) * (2 * u)
  BY <1>1, <1>2, ProductMono
<1>4. t * 8 * u \in Nat \ {0}
  OBVIOUS
<1>5. (f * t) * (2 * u) < (t * 8 * u) * f
  <2>1. (f * t) * u \in Nat \ {0}
    OBVIOUS
  <2>2. (f * t) * (2 * u) = 2 * ((f * t) * u) /\ (t * 8 * u) * f = 8 * ((f * t) * u)
    OBVIOUS
  <2> QED BY <2>1, <2>2
<1>6. f * g * (u + x) < (t * 8 * u) * f
  BY <1>3, <1>5
<1> QED BY <1>3, <1>4, <1>6, DivBelow

\* EIP-1559's rule with a rounded step, against the rule itself.
LEMMA RoundedUpdate1559 ==
  ASSUME NEW f \in Nat \ {0}, NEW used \in Nat, NEW target \in Nat \ {0},
         NEW u \in Nat \ {0}, NEW e \in Nat, e < u, NEW x \in - e .. e
  PROVE  LET p == f * Larger(used - target, target - used)
             d == target * 8
             step == (p * (u + x)) \div (d * u)
             next == IF used > target THEN f + Larger(step, 1)
                     ELSE IF used < target THEN f - step
                     ELSE f
             reference == update_eip1559_base_fee(f, used, target, 1)
         IN  /\ next \in Nat \ {0}
             /\ used > target => next > f
             /\ used < target => next <= f
             /\ used = target => next = f
             /\ p * e <= d * u => next \in reference - 1 .. reference + 1
             /\ /\ p * e <= (p % d) * u
                /\ p * e < (d - (p % d)) * u
                => next = reference
<1> DEFINE g == Larger(used - target, target - used)
           p == f * g
           d == target * 8
           step == (p * (u + x)) \div (d * u)
           next == IF used > target THEN f + Larger(step, 1)
                   ELSE IF used < target THEN f - step
                   ELSE f
           reference == update_eip1559_base_fee(f, used, target, 1)
           delta == change(f, g, target)
<1>1. /\ g \in Nat /\ d \in Nat \ {0}
      /\ used > target => g = used - target
      /\ used < target => g = target - used /\ g <= target
  BY DEF Larger
<1> HIDE DEF g
<1>2. p \in Nat
  BY <1>1
<1>3. p \div d = delta /\ delta \in Nat
  BY <1>1, <1>2, NestedFloor, ChangeType DEF change, BASE_FEE_MAX_CHANGE_DENOMINATOR
<1>4. /\ step \in Nat
      /\ p * e <= d * u => step \in delta - 1 .. delta + 1
      /\ p * e <= (p % d) * u /\ p * e < (d - (p % d)) * u => step = delta
  <2> HIDE DEF p, d
  <2>1. d \in Nat \ {0}
    BY <1>1
  <2>2. IsNearly(quotient(p, d, u, x), p, d, u, e)
    BY <1>2, <2>1, RoundedQuotient
  <2>3. IsNearly(step, p, d, u, e)
    BY <2>2 DEF quotient
  <2> HIDE DEF step, delta
  <2> QED BY <1>3, <2>3 DEF IsNearly
<1>5. used < target => step < f /\ 8 * delta <= f
  BY <1>1, RoundedStepBelow, ChangeAtMostAnEighth
<1>6. /\ used = target => reference = f
      /\ used > target => reference = f + Larger(delta, 1)
      /\ used < target => reference = Larger(f - delta, 1)
  BY <1>1, UpdateCases1559
<1>7. used < target => reference = f - delta
  BY <1>3, <1>5, <1>6 DEF Larger
<1> HIDE DEF delta, step, reference, p, d
<1>8. next \in Nat \ {0}
  BY <1>4, <1>5 DEF Larger
<1>9. (used > target => next > f) /\ (used < target => next <= f) /\ (used = target => next = f)
  BY <1>4 DEF Larger
<1>10. ASSUME step \in delta - 1 .. delta + 1
       PROVE  next \in reference - 1 .. reference + 1
  BY <1>3, <1>4, <1>6, <1>7, <1>10 DEF Larger
<1>11. ASSUME step = delta
       PROVE  next = reference
  BY <1>6, <1>7, <1>11
<1> QED BY <1>4, <1>8, <1>9, <1>10, <1>11 DEF g, p, d, step, reference

=============================================================================
