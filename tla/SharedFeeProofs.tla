---------------------------- MODULE SharedFeeProofs ----------------------------
(***************************************************************************)
(* Proofs about the shared fee's replays, for any replays, limits, offers  *)
(* and windows: the thresholds that the replays of one denominator share   *)
(* give each its exact fee, the measured window adds up, and the kernels   *)
(* move the fee as the EIP-1559 rule does.                                 *)
(***************************************************************************)
EXTENDS SharedFee, FeeMathProofs, FiniteSetTheorems

-----------------------------------------------------------------------------
(* The curve.                                                              *)

\* The parameters of the curve of a denominator, as those of a mechanism.
curve(d) == [min_base_fee |-> 1, update_fraction |-> d]

LEMMA CurveFacts ==
  ASSUME NEW d \in Nat \ {0}
  PROVE  /\ IsCurve(curve(d))
         /\ \A x : compute_base_fee(x, curve(d)) = exact_fee(x, d)
  BY DEF IsCurve, curve, compute_base_fee, exact_fee

\* The fee is a positive number, grows with the excess, and is 1 at none.
LEMMA ExactFeeFacts ==
  ASSUME NEW d \in Nat \ {0}
  PROVE  /\ \A x \in Nat : exact_fee(x, d) \in Nat /\ 1 <= exact_fee(x, d)
         /\ \A x, y \in Nat : x <= y => exact_fee(x, d) <= exact_fee(y, d)
         /\ exact_fee(0, d) = 1
<1>1. ASSUME NEW x \in Nat
      PROVE  exact_fee(x, d) \in Nat /\ 1 <= exact_fee(x, d)
  <2>1. exact_fee(x, d) \in Nat
    BY FakeExponentialType DEF exact_fee
  <2>2. d * 1 <= 1 * d + 1 * x
    OBVIOUS
  <2> QED BY <2>1, <2>2, FakeExponentialBelow DEF exact_fee
<1>2. ASSUME NEW x \in Nat, NEW y \in Nat, x <= y
      PROVE  exact_fee(x, d) <= exact_fee(y, d)
  BY <1>2, FakeExponentialMono DEF exact_fee
<1>3. exact_fee(0, d) = 1
  <2> DEFINE loop == fake_exponential_loop(1, 0, d)
  <2>1. IsTurn(loop, 1, 0, d, 0)
    BY LoopFields
  <2>2. loop[0].output = 0 /\ loop[0].accum = 1 * d
        /\ loop[0 + 1].output = loop[0].output + loop[0].accum
        /\ loop[0 + 1].accum = (loop[0].accum * 0) \div (d * (0 + 1))
    BY <2>1 DEF IsTurn
  <2>3. (loop[0].accum * 0) \div (d * (0 + 1)) = 0
    BY <2>2
  <2>4. loop[1].output = d /\ loop[1].accum = 0
    <3> HIDE DEF loop
    <3>1. 0 + 1 = 1 /\ 1 * d = d /\ 0 + d = d
      OBVIOUS
    <3> QED BY <2>2, <2>3, <3>1
  <2>5. PICK k \in Nat : SettledAt(1, 0, d, k)
    BY FakeExponentialLimit
  <2>6. loop[k + 1].output = d
    <3>1. loop[k + 1].output = loop[1].output
      <4>1. k + 1 \in Nat /\ 1 <= k + 1
        OBVIOUS
      <4> HIDE DEF loop
      <4> QED BY <2>4, <4>1, LoopStays DEF loop
    <3> QED BY <2>4, <3>1
  <2>7. fake_exponential(1, 0, d) = d \div d
    <3>1. k + 1 \in Nat /\ k + 1 >= k
      OBVIOUS
    <3>2. fake_exponential(1, 0, d) = loop[k + 1].output \div d
      BY <2>5, <3>1 DEF SettledAt
    <3> QED BY <2>6, <3>2
  <2>8. d \div d = 1
    <3>1. d \div d \in Nat /\ d * (d \div d) <= d /\ d < d * (d \div d) + d
      BY DivFacts
    <3>2. d \div d <= 1
      BY DivBound
    <3>3. d \div d # 0
      BY <3>1
    <3> QED BY <3>1, <3>2, <3>3
  <2> QED BY <2>7, <2>8 DEF exact_fee
<1> QED BY <1>1, <1>2, <1>3

-----------------------------------------------------------------------------
(* The search for a threshold.                                             *)

\* The least excess whose fee is at least i.
IsThreshold(e, i, d) ==
  /\ e \in Nat
  /\ \A x \in Nat : e <= x <=> i <= exact_fee(x, d)

\* The bounds of the search after k turns: the answer is over low and at most
\* high, and they have come together by k or are next to each other.
IsBracket(s, fee_wanted, d, first, k) ==
  /\ s \in Interval
  /\ s.low < s.high
  /\ exact_fee(s.low, d) < fee_wanted
  /\ fee_wanted <= exact_fee(s.high, d)
  /\ s.high - s.low + k <= first \/ s.low + 1 = s.high

\* One turn of the search.
narrowed(s, fee_wanted, d) ==
  LET middle == (s.low + s.high) \div 2
  IN  IF exact_fee(middle, d) >= fee_wanted
      THEN [s EXCEPT !.high = middle]
      ELSE [s EXCEPT !.low = middle]

LEMMA Narrowing ==
  ASSUME NEW d \in Nat \ {0}, NEW f \in Nat, NEW first \in Nat, NEW k \in Nat,
         NEW s, IsBracket(s, f, d, first, k)
  PROVE  IsBracket(narrowed(s, f, d), f, d, first, k + 1)
<1> DEFINE middle == (s.low + s.high) \div 2
           low == s.low
           high == s.high
<1>1. /\ s \in Interval /\ low \in Nat /\ high \in Nat /\ low < high
      /\ exact_fee(low, d) < f /\ f <= exact_fee(high, d)
      /\ high - low + k <= first \/ low + 1 = high
  BY DEF IsBracket, Interval
<1>2. /\ middle \in Nat /\ low <= middle /\ middle < high
      /\ low + 1 # high => low < middle
      /\ low + 1 = high => middle = low
  BY <1>1
<1> HIDE DEF middle, low, high
<1>3. exact_fee(middle, d) \in Nat
  BY <1>2, ExactFeeFacts
<1>4. CASE exact_fee(middle, d) >= f
  <2>1. narrowed(s, f, d) = [s EXCEPT !.high = middle]
    BY <1>4 DEF narrowed, middle
  <2>2. [s EXCEPT !.high = middle] = [low |-> low, high |-> middle]
    BY <1>1 DEF Interval, low
  <2>3. low # middle
    BY <1>1, <1>3, <1>4, ExactFeeFacts
  <2>4. low < middle /\ low + 1 # high
    BY <1>1, <1>2, <2>3
  <2>5. middle - low + (k + 1) <= first
    BY <1>1, <1>2, <2>4
  <2> QED BY <1>1, <1>2, <1>3, <1>4, <2>1, <2>2, <2>4, <2>5 DEF IsBracket, Interval
<1>5. CASE ~ (exact_fee(middle, d) >= f)
  <2>1. narrowed(s, f, d) = [s EXCEPT !.low = middle]
    BY <1>5 DEF narrowed, middle
  <2>2. [s EXCEPT !.low = middle] = [low |-> middle, high |-> high]
    BY <1>1 DEF Interval, high
  <2>3. exact_fee(middle, d) < f
    BY <1>3, <1>5
  <2>4. high - middle + (k + 1) <= first \/ middle + 1 = high
    BY <1>1, <1>2
  <2> QED BY <1>1, <1>2, <2>1, <2>2, <2>3, <2>4 DEF IsBracket, Interval
<1> QED BY <1>4, <1>5

\* Every turn of the search satisfies the invariant.
LEMMA SearchTurns ==
  ASSUME NEW d \in Nat \ {0}, NEW f \in Nat \ {0, 1}
  PROVE  \A k \in Nat : IsBracket(excess_search(f, d)[k], f, d,
                                  upper_excess(f, curve(d)), k)
<1> DEFINE first == upper_excess(f, curve(d))
           opening == [low |-> 0, high |-> first]
           IsSearch(g) == g = [i \in Nat |-> IF i = 0 THEN opening
                                            ELSE narrowed(g[i - 1], f, d)]
           turns == CHOOSE g : IsSearch(g)
           Steps == {s \in Interval : \E i \in Nat : IsBracket(s, f, d, first, i)}
           step == [i \in Nat |-> [s \in Steps |-> narrowed(s, f, d)]]
<1>1. first \in Nat /\ f <= exact_fee(first, d)
  BY CurveFacts, UpperExcess
<1>2. excess_search(f, d) = turns
  <2> DEFINE IsHigh(h) == h = [k \in Nat |-> IF k = 0 THEN 1 ELSE 2 * h[k - 1]]
             high == CHOOSE h : IsHigh(h)
             by_curve == [k \in Nat |-> compute_base_fee(high[k], curve(d)) < f]
             by_fee == [k \in Nat |-> exact_fee(high[k], d) < f]
  <2>1. first = high[exit_turn(by_curve)]
    BY DEF upper_excess
  <2>2. by_curve = by_fee
    <3>1. \A k \in Nat : by_curve[k] = by_fee[k]
      BY CurveFacts
    <3> QED BY <3>1
  <2>3. first = high[exit_turn(by_fee)]
    BY <2>1, <2>2
  <2> QED BY <2>3 DEF excess_search, narrowed
<1> HIDE DEF first
<1>3. IsBracket(opening, f, d, first, 0)
  <2>1. exact_fee(0, d) = 1 /\ 1 < f
    BY ExactFeeFacts
  <2>2. first # 0
    BY <1>1, <2>1
  <2> QED BY <1>1, <2>1, <2>2 DEF IsBracket, Interval
<1>4. opening \in Steps
  <2>1. opening \in Interval
    BY <1>1 DEF Interval
  <2> HIDE DEF opening
  <2> QED BY <1>3, <2>1
<1>5. step \in [Nat -> [Steps -> Steps]]
  <2>1. ASSUME NEW s \in Steps
        PROVE  narrowed(s, f, d) \in Steps
    <3>1. PICK i \in Nat : IsBracket(s, f, d, first, i)
      OBVIOUS
    <3>2. IsBracket(narrowed(s, f, d), f, d, first, i + 1)
      BY <1>1, <3>1, Narrowing
    <3>3. narrowed(s, f, d) \in Interval
      BY <3>2 DEF IsBracket
    <3> QED BY <3>2, <3>3
  <2> HIDE DEF Steps
  <2> QED BY <2>1
<1> HIDE DEF opening, Steps
<1>6. PICK g : IsRecursive(g, Steps, opening, step)
  <2> HIDE DEF step
  <2> QED BY <1>4, <1>5, Recursion
<1>7. IsSearch(g)
  <2>1. ASSUME NEW i \in Nat \ {0}
        PROVE  g[i] = narrowed(g[i - 1], f, d)
    <3>1. g[i] = step[i][g[i - 1]] /\ g[i - 1] \in Steps
      BY <1>6 DEF IsRecursive
    <3> QED BY <3>1
  <2> QED BY <1>6, <2>1 DEF IsRecursive
<1>8. IsSearch(turns)
  BY <1>7
<1> HIDE DEF turns
<1> DEFINE P == {i \in Nat : IsBracket(turns[i], f, d, first, i)}
<1>9. 0 \in P
  BY <1>3, <1>8
<1>10. ASSUME NEW i \in Nat, i \in P
       PROVE  i + 1 \in P
  <2>1. i + 1 \in Nat \ {0} /\ (i + 1) - 1 = i
    OBVIOUS
  <2>2. turns[i + 1] = narrowed(turns[i], f, d)
    BY <1>8, <2>1
  <2>3. IsBracket(narrowed(turns[i], f, d), f, d, first, i + 1)
    BY <1>1, <1>10, Narrowing
  <2> QED BY <2>2, <2>3
<1> HIDE DEF P
<1>11. Nat \subseteq P
  BY <1>9, <1>10, SetInduction
<1>12. \A k \in Nat : IsBracket(turns[k], f, d, first, k)
  BY <1>11 DEF P
<1> QED BY <1>2, <1>12 DEF first

\* excess_for_fee returns the least excess whose fee reaches the one asked for.
LEMMA SearchFinds ==
  ASSUME NEW d \in Nat \ {0}, NEW f \in Nat \ {0}
  PROVE  IsThreshold(excess_for_fee(f, d), f, d)
<1>1. CASE f = 1
  <2>1. excess_for_fee(f, d) = 0
    BY <1>1 DEF excess_for_fee
  <2>2. \A x \in Nat : 0 <= x /\ 1 <= exact_fee(x, d)
    BY ExactFeeFacts
  <2> QED BY <1>1, <2>1, <2>2 DEF IsThreshold
<1>2. CASE f # 1
  <2> DEFINE bounds == excess_search(f, d)
             first == upper_excess(f, curve(d))
             goes_on == [k \in Nat |-> bounds[k].low + 1 < bounds[k].high]
             e == exit_turn(goes_on)
  <2>1. excess_for_fee(f, d) = bounds[e].high
    BY <1>2 DEF excess_for_fee
  <2>2. \A k \in Nat : IsBracket(bounds[k], f, d, first, k)
    <3>1. f \in Nat \ {0, 1}
      BY <1>2
    <3> QED BY <3>1, SearchTurns
  <2>3. first \in Nat
    BY CurveFacts, UpperExcess
  <2> HIDE DEF bounds, first
  <2>4. goes_on \in [Nat -> BOOLEAN]
    OBVIOUS
  <2>5. \A k \in Nat : goes_on[k] <=> bounds[k].low + 1 < bounds[k].high
    OBVIOUS
  <2> HIDE DEF goes_on
  <2>6. ~goes_on[first]
    <3>1. IsBracket(bounds[first], f, d, first, first)
      BY <2>2, <2>3
    <3>2. /\ bounds[first].low \in Nat /\ bounds[first].high \in Nat
          /\ bounds[first].low < bounds[first].high
          /\ bounds[first].high - bounds[first].low + first <= first
               \/ bounds[first].low + 1 = bounds[first].high
      BY <3>1 DEF IsBracket, Interval
    <3> QED BY <2>3, <2>5, <3>2
  <2>7. e \in Nat /\ ~goes_on[e]
    BY <2>3, <2>4, <2>6, ExitTurn
  <2> HIDE DEF e
  <2> DEFINE low == bounds[e].low
             high == bounds[e].high
  <2>8. /\ low \in Nat /\ high \in Nat /\ low < high /\ ~ (low + 1 < high)
        /\ exact_fee(low, d) < f /\ f <= exact_fee(high, d)
    BY <2>2, <2>5, <2>7 DEF IsBracket, Interval
  <2> HIDE DEF low, high
  <2>9. ASSUME NEW x \in Nat
        PROVE  high <= x <=> f <= exact_fee(x, d)
    <3>1. /\ exact_fee(x, d) \in Nat /\ exact_fee(low, d) \in Nat
          /\ exact_fee(high, d) \in Nat
      BY <2>8, ExactFeeFacts
    <3>2. CASE high <= x
      <4>1. exact_fee(high, d) <= exact_fee(x, d)
        BY <2>8, <3>2, ExactFeeFacts
      <4> QED BY <2>8, <3>1, <3>2, <4>1
    <3>3. CASE ~ (high <= x)
      <4>1. x <= low
        BY <2>8, <3>3
      <4>2. exact_fee(x, d) <= exact_fee(low, d)
        BY <2>8, <4>1, ExactFeeFacts
      <4> QED BY <2>8, <3>1, <3>3, <4>2
    <3> QED BY <3>2, <3>3
  <2>10. IsThreshold(high, f, d)
    BY <2>8, <2>9 DEF IsThreshold
  <2> QED BY <2>1, <2>10 DEF high
<1> QED BY <1>1, <1>2

-----------------------------------------------------------------------------
(* The cache.                                                              *)

\* The thresholds of the first fees.
IsCache(cache, d) ==
  /\ cache \in Seq(Nat)
  /\ Len(cache) >= 2
  /\ \A i \in 1 .. Len(cache) : IsThreshold(cache[i], i, d)

\* Of the first fees, those that an excess reaches are the ones up to its own.
LEMMA EntriesUpTo ==
  ASSUME NEW d \in Nat \ {0}, NEW cache, IsCache(cache, d), NEW x \in Nat
  PROVE  entries_up_to(cache, x) = Smaller(Len(cache), exact_fee(x, d))
<1> DEFINE m == Smaller(Len(cache), exact_fee(x, d))
<1>1. exact_fee(x, d) \in Nat /\ Len(cache) \in Nat
  <2>1. exact_fee(x, d) \in Nat
    BY ExactFeeFacts
  <2>2. Len(cache) \in Nat
    BY DEF IsCache
  <2> QED BY <2>1, <2>2
<1>2. m \in Nat /\ \A i \in 1 .. Len(cache) : i <= exact_fee(x, d) <=> i <= m
  BY <1>1 DEF Smaller
<1>3. m <= Len(cache)
  BY <1>1 DEF Smaller
<1>4. {i \in 1 .. Len(cache) : cache[i] <= x} = 1 .. m
  <2>1. \A i \in 1 .. Len(cache) : cache[i] <= x <=> i <= exact_fee(x, d)
    BY DEF IsCache, IsThreshold
  <2>2. \A i \in 1 .. Len(cache) : cache[i] <= x <=> i <= m
    BY <1>2, <2>1
  <2> HIDE DEF m
  <2> QED BY <1>1, <1>2, <1>3, <2>2
<1>5. Cardinality(1 .. m) = m
  <2> HIDE DEF m
  <2>1. Cardinality(1 .. m) = IF 1 > m THEN 0 ELSE m - 1 + 1
    BY <1>2, FS_Interval
  <2> QED BY <1>2, <2>1
<1> QED BY <1>4, <1>5 DEF entries_up_to

\* The lookup gives the fee of the curve, on either side of the cache's end.
LEMMA LookupIsExact ==
  ASSUME NEW d \in Nat \ {0}, NEW cache, IsCache(cache, d), NEW x \in Nat
  PROVE  cached_fee(cache, x, d) = exact_fee(x, d)
<1>1. exact_fee(x, d) \in Nat /\ Len(cache) \in Nat \ {0}
  <2>1. exact_fee(x, d) \in Nat
    BY ExactFeeFacts
  <2>2. Len(cache) \in Nat \ {0}
    BY DEF IsCache
  <2> QED BY <2>1, <2>2
<1>2. CASE x < cache[Len(cache)]
  <2>1. cache[Len(cache)] \in Nat
        /\ (cache[Len(cache)] <= x <=> Len(cache) <= exact_fee(x, d))
    BY <1>1 DEF IsCache, IsThreshold
  <2>2. exact_fee(x, d) < Len(cache)
    BY <1>1, <1>2, <2>1
  <2>3. entries_up_to(cache, x) = exact_fee(x, d)
    BY <1>1, <2>2, EntriesUpTo DEF Smaller
  <2> QED BY <1>2, <2>3 DEF cached_fee
<1>3. CASE ~ (x < cache[Len(cache)])
  BY <1>3 DEF cached_fee
<1> QED BY <1>2, <1>3

\* The cache a batch starts with.
LEMMA InitialCache ==
  ASSUME NEW d \in Denominators, d \in Nat \ {0}
  PROVE  IsCache(initial_thresholds[d], d) /\ Len(initial_thresholds[d]) <= MAX_CACHED_FEE
<1>1. IsThreshold(excess_for_fee(2, d), 2, d)
  BY SearchFinds
<1>2. IsThreshold(0, 1, d)
  BY ExactFeeFacts DEF IsThreshold
<1>3. initial_thresholds[d] = <<0, excess_for_fee(2, d)>>
  BY DEF initial_thresholds
<1>4. excess_for_fee(2, d) \in Nat
  BY <1>1 DEF IsThreshold
<1> QED BY <1>1, <1>2, <1>3, <1>4, CacheAssumption DEF IsCache

\* Extending the cache adds thresholds until it is as long as it may be.
LEMMA Extending ==
  ASSUME NEW d \in Nat \ {0}, NEW cache, IsCache(cache, d), Len(cache) <= MAX_CACHED_FEE
  PROVE  /\ IsCache(extended(cache, d), d)
         /\ Len(extended(cache, d)) <= MAX_CACHED_FEE
         /\ Len(cache) < MAX_CACHED_FEE => Len(cache) < Len(extended(cache, d))
         /\ Len(cache) <= Len(extended(cache, d))
<1> DEFINE n == Len(cache)
           end == Smaller(MAX_CACHED_FEE, Larger(MIN_CACHED_FEE, 2 * n))
           more == [i \in 1 .. (end - n) |-> excess_for_fee(n + i, d)]
<1>1. n \in Nat /\ n >= 2 /\ cache \in Seq(Nat)
  BY DEF IsCache
<1>2. /\ end \in Nat /\ n <= end /\ end <= MAX_CACHED_FEE
      /\ n < MAX_CACHED_FEE => n < end
  BY <1>1, CacheAssumption DEF Smaller, Larger
<1>3. extended(cache, d) = cache \o more
  BY DEF extended
<1> HIDE DEF end
<1>4. \A i \in 1 .. (end - n) : IsThreshold(excess_for_fee(n + i, d), n + i, d)
  BY <1>1, <1>2, SearchFinds
<1>5. more \in Seq(Nat) /\ Len(more) = end - n
  <2>1. \A i \in 1 .. (end - n) : excess_for_fee(n + i, d) \in Nat
    BY <1>4 DEF IsThreshold
  <2>2. end - n \in Nat
    BY <1>1, <1>2
  <2> QED BY <2>1, <2>2
<1>6. \A i \in 1 .. (end - n) : more[i] = excess_for_fee(n + i, d)
  OBVIOUS
<1> HIDE DEF more
<1>7. /\ cache \o more \in Seq(Nat)
      /\ Len(cache \o more) = end
      /\ \A i \in 1 .. end :
           (cache \o more)[i] = IF i <= n THEN cache[i] ELSE more[i - n]
  BY <1>1, <1>2, <1>5
<1>8. ASSUME NEW i \in 1 .. end
      PROVE  IsThreshold((cache \o more)[i], i, d)
  <2>1. CASE i <= n
    BY <1>7, <2>1 DEF IsCache
  <2>2. CASE ~ (i <= n)
    <3>1. i - n \in 1 .. (end - n) /\ n + (i - n) = i
      BY <1>1, <1>2, <2>2
    <3>2. (cache \o more)[i] = excess_for_fee(n + (i - n), d)
      BY <1>6, <1>7, <2>2, <3>1
    <3> QED BY <1>4, <3>1, <3>2
  <2> QED BY <2>1, <2>2
<1>9. IsCache(cache \o more, d)
  BY <1>1, <1>2, <1>7, <1>8 DEF IsCache
<1> QED BY <1>2, <1>3, <1>7, <1>9

\* However far the cache has to grow, it grows by thresholds, and stops.
LEMMA Growing ==
  ASSUME NEW d \in Nat \ {0}, NEW cache, IsCache(cache, d), Len(cache) <= MAX_CACHED_FEE,
         NEW maximum
  PROVE  IsCache(grown(cache, maximum, d), d) /\ Len(grown(cache, maximum, d)) <= MAX_CACHED_FEE
<1> DEFINE Caches == {s \in Seq(Nat) : IsCache(s, d) /\ Len(s) <= MAX_CACHED_FEE}
           step == [i \in Nat |-> [s \in Caches |-> extended(s, d)]]
           AreGrown(g) == g = [k \in Nat |-> IF k = 0 THEN cache ELSE extended(g[k - 1], d)]
           caches == CHOOSE g : AreGrown(g)
           goes_on == [k \in Nat |-> /\ maximum >= caches[k][Len(caches[k])]
                                     /\ Len(caches[k]) < MAX_CACHED_FEE]
           e == exit_turn(goes_on)
<1>1. grown(cache, maximum, d) = caches[e]
  BY DEF grown
<1>2. cache \in Caches
  BY DEF IsCache
<1>3. step \in [Nat -> [Caches -> Caches]]
  <2>1. ASSUME NEW s \in Caches
        PROVE  extended(s, d) \in Caches
    <3>1. IsCache(extended(s, d), d) /\ Len(extended(s, d)) <= MAX_CACHED_FEE
      BY Extending
    <3> QED BY <3>1 DEF IsCache
  <2> HIDE DEF Caches
  <2> QED BY <2>1
<1>4. PICK g : IsRecursive(g, Caches, cache, step)
  <2> HIDE DEF step, Caches
  <2> QED BY <1>2, <1>3, Recursion
<1>5. AreGrown(g)
  <2>1. ASSUME NEW i \in Nat \ {0}
        PROVE  g[i] = extended(g[i - 1], d)
    <3> HIDE DEF Caches
    <3>1. g[i] = step[i][g[i - 1]] /\ g[i - 1] \in Caches
      BY <1>4 DEF IsRecursive
    <3> QED BY <3>1
  <2> QED BY <1>4, <2>1 DEF IsRecursive
<1>6. AreGrown(caches)
  BY <1>5
<1> HIDE DEF caches
<1> DEFINE P == {k \in Nat : /\ IsCache(caches[k], d) /\ Len(caches[k]) <= MAX_CACHED_FEE
                             /\ k <= Len(caches[k]) \/ Len(caches[k]) = MAX_CACHED_FEE}
<1>7. 0 \in P
  BY <1>6 DEF IsCache
<1>8. ASSUME NEW k \in Nat, k \in P
      PROVE  k + 1 \in P
  <2>1. k + 1 \in Nat \ {0} /\ (k + 1) - 1 = k
    OBVIOUS
  <2>2. caches[k + 1] = extended(caches[k], d)
    BY <1>6, <2>1
  <2> DEFINE s == caches[k]
             next == extended(s, d)
  <2>3. /\ IsCache(s, d) /\ Len(s) <= MAX_CACHED_FEE
        /\ k <= Len(s) \/ Len(s) = MAX_CACHED_FEE
    BY <1>8
  <2>4. /\ IsCache(next, d) /\ Len(next) <= MAX_CACHED_FEE
        /\ Len(s) < MAX_CACHED_FEE => Len(s) < Len(next)
        /\ Len(s) <= Len(next)
    BY <2>3, Extending
  <2>5. Len(s) \in Nat /\ Len(next) \in Nat
    BY <2>3, <2>4 DEF IsCache
  <2> HIDE DEF s, next
  <2>6. k + 1 <= Len(next) \/ Len(next) = MAX_CACHED_FEE
    BY <2>3, <2>4, <2>5, CacheAssumption
  <2>7. caches[k + 1] = next
    BY <2>2 DEF s, next
  <2> QED BY <2>1, <2>4, <2>6, <2>7
<1> HIDE DEF P
<1>9. Nat \subseteq P
  BY <1>7, <1>8, SetInduction
<1>10. \A k \in Nat : /\ IsCache(caches[k], d) /\ Len(caches[k]) <= MAX_CACHED_FEE
                      /\ k <= Len(caches[k]) \/ Len(caches[k]) = MAX_CACHED_FEE
  BY <1>9 DEF P
<1>11. goes_on \in [Nat -> BOOLEAN]
  OBVIOUS
<1>12. \A k \in Nat : goes_on[k] => Len(caches[k]) < MAX_CACHED_FEE
  OBVIOUS
<1> HIDE DEF goes_on
<1>13. ~goes_on[MAX_CACHED_FEE]
  <2> DEFINE s == caches[MAX_CACHED_FEE]
  <2>1. /\ IsCache(s, d) /\ Len(s) <= MAX_CACHED_FEE
        /\ MAX_CACHED_FEE <= Len(s) \/ Len(s) = MAX_CACHED_FEE
    BY <1>10, CacheAssumption
  <2>2. Len(s) \in Nat
    BY <2>1 DEF IsCache
  <2>3. ~ (Len(s) < MAX_CACHED_FEE)
    BY <2>1, <2>2, CacheAssumption
  <2> QED BY <1>12, <2>3, CacheAssumption
<1>14. e \in Nat
  BY <1>11, <1>13, CacheAssumption, ExitTurn
<1> QED BY <1>1, <1>10, <1>14

-----------------------------------------------------------------------------
(* Inclusion.                                                              *)

\* Every replay has a positive denominator, one of those cached.
LEMMA DenominatorFacts ==
  /\ \A r \in Replays : /\ denominator(r) \in Denominators
                        /\ gas_target[r] \in Nat \ {0} /\ gas_limit[r] \in Nat \ {0}
                        /\ gas_target[r] < gas_limit[r]
                        /\ state_gas_limit_scale[r] \in Nat \ {0}
  /\ \A d \in Denominators : d \in Nat \ {0}
<1>1. ASSUME NEW r \in Replays
      PROVE  /\ gas_target[r] \in Nat \ {0} /\ gas_limit[r] \in Nat \ {0}
             /\ gas_target[r] < gas_limit[r]
             /\ state_gas_limit_scale[r] \in Nat \ {0}
  BY ReplayAssumption
<1>2. \A r \in Replays : denominator(r) \in Nat \ {0}
  BY <1>1 DEF denominator
<1> QED BY <1>1, <1>2 DEF Denominators

LEMMA ScaledFloorType ==
  ASSUME NEW gas \in Nat, NEW limit \in Nat, NEW offered \in Nat \ {0}, NEW loses
  PROVE  scaled_floor(gas, limit, offered, loses) \in Nat
<1> DEFINE exact == (gas * limit) \div offered
<1>1. gas * limit \in Nat
  OBVIOUS
<1>2. exact \in Nat
  BY <1>1, DivFacts
<1>3. scaled_floor(gas, limit, offered, loses) \in {exact, exact - 1}
      /\ (exact = 0 => scaled_floor(gas, limit, offered, loses) = exact)
  <2> HIDE DEF exact
  <2> QED BY <1>2 DEF scaled_floor, exact
<1> HIDE DEF exact
<1> QED BY <1>2, <1>3

\* What a block uses is a natural number of gas.
LEMMA UsedType ==
  ASSUME NEW offer \in Offers, NEW r \in Replays, NEW loses
  PROVE  used_shared(included(offer, r, loses), r) \in Nat
<1> DEFINE limit == gas_limit[r]
           raw == raw_limit(r)
           scale == state_gas_limit_scale[r]
           reg == regular_offered(offer)
<1>1. offer.state \in Nat /\ reg \in Nat
  <2>1. offer \in [execution : Nat, data : Nat, state : Nat]
    BY WorkloadAssumption
  <2> QED BY <2>1 DEF regular_offered
<1>2. limit \in Nat \ {0} /\ scale \in Nat \ {0}
  BY DenominatorFacts
<1>3. raw \in Nat
  <2>1. limit * scale \in Nat /\ SCALE_DENOMINATOR \in Nat \ {0}
    BY <1>2 DEF SCALE_DENOMINATOR
  <2> QED BY <2>1, DivFacts DEF raw_limit
<1> HIDE DEF limit, raw, scale, reg
<1>4. ASSUME NEW gas \in Nat
      PROVE  scaled(gas, offer, r, loses) \in Nat
  <2>1. CASE regular_active(offer, r)
    <3>1. reg \in Nat \ {0}
      BY <1>1, <1>2, <2>1 DEF regular_active, reg, limit
    <3>2. scaled(gas, offer, r, loses) = scaled_floor(gas, limit, reg, loses)
      BY <2>1 DEF scaled, limit, reg
    <3> QED BY <1>2, <3>1, <3>2, ScaledFloorType
  <2>2. CASE ~regular_active(offer, r) /\ state_active(offer, r)
    <3>1. Larger(offer.state, 1) \in Nat \ {0}
      BY <1>1 DEF Larger
    <3>2. scaled(gas, offer, r, loses) = scaled_floor(gas, raw, Larger(offer.state, 1), loses)
      BY <2>2 DEF scaled, raw
    <3> QED BY <1>3, <3>1, <3>2, ScaledFloorType
  <2>3. CASE ~regular_active(offer, r) /\ ~state_active(offer, r)
    BY <2>3 DEF scaled
  <2> QED BY <2>1, <2>2, <2>3
<1> DEFINE counters == included(offer, r, loses)
<1>5. counters.regular \in Nat /\ counters.raw \in Nat
  <2>1. scaled(reg, offer, r, loses) \in Nat /\ scaled(offer.state, offer, r, loses) \in Nat
    BY <1>1, <1>4
  <2>2. /\ counters.regular \in {limit, Smaller(limit, scaled(reg, offer, r, loses))}
        /\ counters.raw \in {raw, Smaller(raw, scaled(offer.state, offer, r, loses))}
    BY DEF included, limit, raw, reg
  <2> HIDE DEF counters
  <2> QED BY <1>2, <1>3, <2>1, <2>2 DEF Smaller
<1> HIDE DEF counters
<1>6. normalized_state_gas(counters.raw, r) \in Nat
  <2>1. counters.raw * SCALE_DENOMINATOR \in Nat
    BY <1>5 DEF SCALE_DENOMINATOR
  <2> QED BY <1>2, <2>1, DivFacts DEF normalized_state_gas, scale
<1>7. used_shared(counters, r) \in Nat
  BY <1>5, <1>6 DEF used_shared, Larger
<1> QED BY <1>7 DEF counters

LEMMA SharedUsageType ==
  ASSUME NEW offer \in Offers, NEW r \in Replays
  PROVE  shared_usage(offer, r) \in Nat
<1>1. offer.state \in Nat /\ regular_offered(offer) \in Nat
  <2>1. offer \in [execution : Nat, data : Nat, state : Nat]
    BY WorkloadAssumption
  <2> QED BY <2>1 DEF regular_offered
<1> QED BY <1>1, DenominatorFacts DEF shared_usage, Smaller, Larger

-----------------------------------------------------------------------------
(* The updaters.                                                           *)

\* A register that does not overflow holds the number.
LEMMA NotWrapped ==
  ASSUME NEW x \in Nat, x <= INT_MAX
  PROVE  wrapped(x) = x
<1> DEFINE m == INT_MAX + 1
<1>1. m \in Nat \ {0} /\ INT_MAX \in Nat
  BY WidthAssumption
<1>2. x + INT_MAX + 1 = x + m /\ x < m
  BY <1>1
<1> HIDE DEF m
<1>3. (x + m) % (2 * m) = x + m
  BY <1>1, <1>2
<1>4. (x + m) - m = x
  BY <1>1
<1> QED BY <1>2, <1>3, <1>4 DEF wrapped, m

LEMMA WrappedType ==
  ASSUME NEW x \in Int
  PROVE  wrapped(x) \in Int
<1>1. INT_MAX \in Nat /\ x + INT_MAX + 1 \in Int /\ 2 * (INT_MAX + 1) \in Nat \ {0}
  BY WidthAssumption
<1>2. (x + INT_MAX + 1) % (2 * (INT_MAX + 1)) \in Int
  BY <1>1
<1> QED BY <1>1, <1>2 DEF wrapped

\* The distance to the target, over and under it.
LEMMA DistanceFacts ==
  ASSUME NEW used \in Nat, NEW target \in Nat \ {0}
  PROVE  /\ distance(used, target) \in Nat
         /\ used > target => distance(used, target) = used - target
         /\ used < target => distance(used, target) = target - used
  BY DEF distance

\* The kernel over unrounded gas follows the rule of EIP-1559 but for its
\* rounding.
LEMMA SharedUpdate ==
  ASSUME NEW parent \in Nat \ {0}, NEW used \in Nat, NEW target \in Nat \ {0},
         NEW error \in Roundings
  PROVE  LET next == update_base_fee_1559(parent, used, target, error)
         IN  /\ next \in Nat \ {0}
             /\ FollowsReference(parent, next, used, target)
<1> DEFINE p == parent * Larger(used - target, target - used)
           d == target * 8
           step == (p * (FLOAT_UNIT + error)) \div (d * FLOAT_UNIT)
           next == update_base_fee_1559(parent, used, target, error)
           moved == IF used > target THEN parent + Larger(step, 1)
                    ELSE IF used < target THEN parent - step
                    ELSE parent
           reference == update_eip1559_base_fee(parent, used, target, 1)
<1>1. next = moved
  BY DEF update_base_fee_1559, rounded_step, abs_gap
<1>2. /\ moved \in Nat \ {0}
      /\ used > target => moved > parent
      /\ used < target => moved <= parent
      /\ used = target => moved = parent
      /\ p * FLOAT_ERROR <= d * FLOAT_UNIT => moved \in reference - 1 .. reference + 1
      /\ /\ p * FLOAT_ERROR <= (p % d) * FLOAT_UNIT
         /\ p * FLOAT_ERROR < (d - (p % d)) * FLOAT_UNIT
         => moved = reference
  <2>1. /\ FLOAT_UNIT \in Nat \ {0} /\ FLOAT_ERROR \in Nat /\ FLOAT_ERROR < FLOAT_UNIT
        /\ error \in - FLOAT_ERROR .. FLOAT_ERROR
    BY FloatAssumption DEF Roundings
  <2> QED BY <2>1, RoundedUpdate1559, ZenonT(60)
<1> HIDE DEF moved
<1>3. /\ IsUnderOneWei(parent, used, target) => p * FLOAT_ERROR <= d * FLOAT_UNIT
      /\ IsClearOfRounding(parent, used, target) =>
           /\ p * FLOAT_ERROR <= (p % d) * FLOAT_UNIT
           /\ p * FLOAT_ERROR < (d - (p % d)) * FLOAT_UNIT
  BY DEF IsUnderOneWei, IsClearOfRounding, abs_gap
<1> HIDE DEF next, p, d
<1>4. FollowsReference(parent, next, used, target)
  BY <1>1, <1>2, <1>3 DEF FollowsReference
<1> QED BY <1>1, <1>2, <1>4 DEF next

\* The kernel over int64 counters is the rule of EIP-1559 as long as the fee
\* fits the register.
LEMMA IntegerUpdate ==
  ASSUME NEW parent \in Nat \ {0}, NEW used \in Nat, NEW target \in Nat \ {0}
  PROVE  /\ integer_fee_update(parent, used, target) \in Int
         /\ update_eip1559_base_fee(parent, used, target, 1) <= INT_MAX =>
              integer_fee_update(parent, used, target)
                = update_eip1559_base_fee(parent, used, target, 1)
<1> DEFINE gap == distance(used, target)
           delta == change(parent, gap, target)
           moved == integer_fee_update(parent, used, target)
           next == update_eip1559_base_fee(parent, used, target, 1)
<1>1. gap \in Nat
  BY DistanceFacts
<1>2. delta \in Nat
  BY <1>1, ChangeType
<1>3. moved = IF used > target THEN wrapped(parent + Larger(delta, 1))
              ELSE IF used < target THEN parent - delta
              ELSE parent
  BY DEF integer_fee_update, change, BASE_FEE_MAX_CHANGE_DENOMINATOR
<1>4. next \in Nat
  BY Update1559
<1>5. CASE used = target
  <2>1. next = parent
    BY <1>5, UpdateCases1559
  <2>2. moved = parent
    BY <1>3, <1>5
  <2> QED BY <2>1, <2>2
<1>6. CASE used > target
  <2>1. gap = used - target
    BY <1>6, DistanceFacts
  <2>2. next = parent + Larger(delta, 1)
    BY <1>6, <2>1, UpdateCases1559
  <2>3. moved = wrapped(next)
    BY <1>3, <1>6, <2>2
  <2> HIDE DEF next, moved
  <2>4. moved \in Int /\ (next <= INT_MAX => moved = next)
    BY <1>4, <2>3, WrappedType, NotWrapped
  <2> QED BY <2>4 DEF next, moved
<1>7. CASE used < target
  <2>1. gap = target - used /\ gap <= target
    BY <1>7, DistanceFacts
  <2>2. next = Larger(parent - delta, 1)
    BY <1>7, <2>1, UpdateCases1559
  <2>3. moved = parent - delta
    <3>1. ~ (used > target)
      BY <1>7
    <3> HIDE DEF moved, delta
    <3> QED BY <1>3, <1>7, <3>1
  <2>4. 8 * delta <= parent
    BY <1>1, <2>1, ChangeAtMostAnEighth
  <2> HIDE DEF next, moved, delta
  <2>5. moved \in Int /\ moved = next
    BY <1>2, <2>2, <2>3, <2>4 DEF Larger
  <2> QED BY <2>5 DEF next, moved
<1> QED BY <1>5, <1>6, <1>7

-----------------------------------------------------------------------------
(* The inductive invariant.                                                *)

Sums == [shared : Int, below_target : Int, zero_decrease : Int,
         regular_limit : Int, state_limit : Int, regular_scale : Int, state_scale : Int,
         reflection : Int, price_return : Int, minimum_fee : Int]

TypeOK ==
  /\ kernel \in {"integer", "excess_matched", "shared"}
  /\ t \in Nat
  /\ fee \in [Replays -> Int] /\ previous_price \in [Replays -> Int]
  /\ excess \in [Replays -> Nat]
  /\ start \in [excess : [Replays -> Int], price : [Replays -> Int]]
  /\ sums \in [Replays -> Sums]

\* The caches hold thresholds, and the fees are those of the excesses.
CachesInv ==
  kernel = "excess_matched" =>
    /\ \A d \in Denominators :
         IsCache(thresholds[d], d) /\ Len(thresholds[d]) <= MAX_CACHED_FEE
    /\ \A r \in Replays : fee[r] = exact_fee(excess[r], denominator(r))

\* The next return of the shared fee starts from the fee in force.
PriceInv ==
  kernel = "shared" =>
    /\ \A r \in Replays : fee[r] > 0
    /\ previous_price = fee

\* Nothing is summed before the window.
WindowInv ==
  /\ t <= burn_in => \A r \in Replays :
       sums[r].shared = 0 /\ sums[r].reflection = 0 /\ sums[r].price_return = 0
  /\ MeasuredWindowAddsUp

IInv == TypeOK /\ CachesInv /\ PriceInv /\ WindowInv

\* The start of the excess controller's replays: the fee of each is on the
\* curve, for the run asserts it.
LEMMA InitInv == Init => IInv
<1> SUFFICES ASSUME Init PROVE IInv
  OBVIOUS
<1>1. /\ kernel \in Kernels /\ fee \in [Replays -> InitialFees]
      /\ t = 0 /\ previous_price = fee
      /\ start = [excess |-> excess, price |-> fee]
      /\ sums = [r \in Replays |-> Zero]
  BY DEF Init
<1>2. fee \in [Replays -> Nat \ {0}]
  BY <1>1, WorkloadAssumption
<1>3. excess \in [Replays -> Nat]
  <2>1. \A r \in Replays : denominator(r) \in Nat \ {0}
    BY DenominatorFacts
  <2>2. \A r \in Replays : excess_for_fee(fee[r], denominator(r)) \in Nat
    BY <1>2, <2>1, SearchFinds DEF IsThreshold
  <2>3. excess = [r \in Replays |->
                    IF kernel = "excess_matched"
                    THEN excess_for_fee(fee[r], denominator(r)) ELSE 0]
    BY DEF Init
  <2> QED BY <2>2, <2>3
<1>4. TypeOK
  <2>1. sums \in [Replays -> Sums]
    BY <1>1, WidthAssumption DEF Zero, Sums
  <2> QED BY <1>1, <1>2, <1>3, <2>1, WorkloadAssumption DEF TypeOK
<1>5. CachesInv
  <2> SUFFICES ASSUME kernel = "excess_matched" PROVE CachesInv
    BY DEF CachesInv
  <2>1. ASSUME NEW d \in Denominators
        PROVE  IsCache(thresholds[d], d) /\ Len(thresholds[d]) <= MAX_CACHED_FEE
    <3>1. d \in Nat \ {0}
      BY DenominatorFacts
    <3>2. thresholds[d] = grown(initial_thresholds[d], largest(excess, d), d)
      BY DEF Init
    <3>3. IsCache(initial_thresholds[d], d) /\ Len(initial_thresholds[d]) <= MAX_CACHED_FEE
      BY <3>1, InitialCache
    <3> QED BY <3>1, <3>2, <3>3, Growing
  <2>2. ASSUME NEW r \in Replays
        PROVE  fee[r] = exact_fee(excess[r], denominator(r))
    <3>1. cached_fee(thresholds[denominator(r)], excess[r], denominator(r)) = fee[r]
      BY DEF Init
    <3>2. denominator(r) \in Denominators /\ denominator(r) \in Nat \ {0} /\ excess[r] \in Nat
      BY <1>3, DenominatorFacts
    <3> QED BY <2>1, <3>1, <3>2, LookupIsExact
  <2> QED BY <2>1, <2>2 DEF CachesInv
<1>6. PriceInv
  BY <1>1, <1>2 DEF PriceInv
<1>7. WindowInv
  BY <1>1, WorkloadAssumption DEF WindowInv, MeasuredWindowAddsUp, Zero
<1> QED BY <1>4, <1>5, <1>6, <1>7 DEF IInv

\* What a block adds to the sums.
LEMMA AddedFacts ==
  ASSUME NEW s \in Sums, NEW offer, NEW counters, NEW before \in Int, NEW after, NEW r,
         used_shared(counters, r) \in Nat
  PROVE  /\ added(s, offer, counters, before, after, r) \in Sums
         /\ added(s, offer, counters, before, after, r).shared
              = s.shared + used_shared(counters, r)
         /\ added(s, offer, counters, before, after, r).reflection = s.reflection
         /\ added(s, offer, counters, before, after, r).price_return = s.price_return
<1> DEFINE used == used_shared(counters, r)
<1>1. \A condition : one(condition) \in Int
  BY DEF one
<1> HIDE DEF used
<1>2. /\ s.shared + used \in Int
      /\ Smaller(s.minimum_fee, before) \in Int
  BY DEF Sums, Smaller, used
<1>3. \A condition : /\ s.below_target + one(condition) \in Int
                     /\ s.zero_decrease + one(condition) \in Int
                     /\ s.regular_limit + one(condition) \in Int
                     /\ s.state_limit + one(condition) \in Int
                     /\ s.regular_scale + one(condition) \in Int
                     /\ s.state_scale + one(condition) \in Int
  BY <1>1 DEF Sums
<1> QED BY <1>2, <1>3 DEF added, used, Sums

-----------------------------------------------------------------------------
(* The steps.                                                              *)

\* A block is replayed by the integer kernel only with fees and products that
\* fit.
LEMMA IntegerStep ==
  ASSUME TypeOK, NEW offer \in [Replays -> Offers], NEW loses \in BOOLEAN,
         IntegerBlock(offer, loses), outcome' = "running"
  PROVE  /\ \A r \in Replays :
              /\ fee[r] \in Nat \ {0}
              /\ block'.counters[r] = included(offer[r], r, loses)
              /\ used_shared(block'.counters[r], r) \in Nat
              /\ fee'[r] = integer_fee_update(fee[r], used_shared(block'.counters[r], r),
                                             gas_target[r])
         /\ t' = t + 1 /\ fee' \in [Replays -> Int] /\ sums' \in [Replays -> Sums]
         /\ t < burn_in => sums' = sums
<1> DEFINE counters == Counters(offer, loses)
           next == [r \in Replays |->
                      integer_fee_update(fee[r], used_shared(counters[r], r), gas_target[r])]
<1>1. /\ raised(counters) = "running" /\ t' = t + 1 /\ fee' = next
      /\ block' = [offer |-> offer, counters |-> counters]
      /\ sums' = IF t < burn_in THEN sums
                 ELSE [r \in Replays |->
                         added(sums[r], offer[r], counters[r], fee[r], next[r], r)]
  BY DEF IntegerBlock
<1>2. block'.counters = counters
  BY <1>1
<1>3. ASSUME NEW r \in Replays
      PROVE  /\ counters[r] = included(offer[r], r, loses)
             /\ used_shared(counters[r], r) \in Nat
  <2>1. counters[r] = included(offer[r], r, loses)
    BY DEF Counters
  <2> HIDE DEF counters
  <2>2. offer[r] \in Offers
    OBVIOUS
  <2> QED BY <2>1, <2>2, UsedType
<1>4. \A r \in Replays : fee[r] \in Nat \ {0}
  <2>1. ~ (\E r \in Replays : fee[r] <= 0)
    BY <1>1 DEF raised
  <2>2. \A r \in Replays : fee[r] \in Int
    BY DEF TypeOK
  <2> QED BY <2>1, <2>2
<1> HIDE DEF counters
<1>5. \A r \in Replays : next[r] \in Int
  <2> SUFFICES ASSUME NEW r \in Replays PROVE next[r] \in Int
    OBVIOUS
  <2>1. gas_target[r] \in Nat \ {0}
    BY DenominatorFacts
  <2>2. integer_fee_update(fee[r], used_shared(counters[r], r), gas_target[r]) \in Int
    BY <1>3, <1>4, <2>1, IntegerUpdate
  <2> QED BY <2>2
<1>6. fee' \in [Replays -> Int]
  BY <1>1, <1>5
<1>7. sums' \in [Replays -> Sums]
  <2>1. sums \in [Replays -> Sums] /\ fee \in [Replays -> Int]
    BY DEF TypeOK
  <2> HIDE DEF next, Sums
  <2>2. \A r \in Replays : added(sums[r], offer[r], counters[r], fee[r], next[r], r) \in Sums
    BY <1>3, <2>1, AddedFacts
  <2> QED BY <1>1, <2>1, <2>2
<1> QED BY <1>1, <1>2, <1>3, <1>4, <1>6, <1>7

LEMMA IntegerBlockInv ==
  ASSUME IInv, NEW offer \in [Replays -> Offers], NEW loses \in BOOLEAN,
         IntegerBlock(offer, loses)
  PROVE  IInv'
<1>1. kernel = "integer" /\ UNCHANGED <<kernel, excess, thresholds, previous_price, start>>
  BY DEF IntegerBlock, Begin
<1>2. t \in Nat /\ burn_in \in Nat
  BY WorkloadAssumption DEF IInv, TypeOK
<1>3. CASE outcome' = "running"
  <2>1. /\ t' = t + 1 /\ fee' \in [Replays -> Int] /\ sums' \in [Replays -> Sums]
        /\ t < burn_in => sums' = sums
    BY <1>3, IntegerStep DEF IInv
  <2>2. TypeOK'
    BY <1>1, <1>2, <2>1 DEF IInv, TypeOK
  <2>3. WindowInv'
    <3>1. MeasuredWindowAddsUp'
      BY <1>1 DEF MeasuredWindowAddsUp
    <3>2. t' <= burn_in => t < burn_in /\ t <= burn_in
      BY <1>2, <2>1
    <3> QED BY <2>1, <3>1, <3>2 DEF IInv, WindowInv
  <2> QED BY <1>1, <2>2, <2>3 DEF IInv, CachesInv, PriceInv
<1>4. CASE outcome' # "running"
  <2>1. UNCHANGED <<t, fee, sums>>
    BY <1>4 DEF IntegerBlock
  <2> QED BY <1>1, <2>1 DEF IInv, TypeOK, CachesInv, PriceInv, WindowInv, MeasuredWindowAddsUp
<1> QED BY <1>3, <1>4

LEMMA SharedBlockInv ==
  ASSUME IInv, NEW offer \in [Replays -> Offers], NEW errors \in [Replays -> Roundings],
         SharedBlock(offer, errors)
  PROVE  IInv'
<1> DEFINE next == [r \in Replays |->
                      update_base_fee_1559(fee[r], shared_usage(offer[r], r), gas_target[r],
                                           errors[r])]
<1>1. /\ kernel = "shared" /\ UNCHANGED <<kernel, excess, thresholds>>
      /\ t' = t + 1 /\ fee' = next /\ previous_price' = next
      /\ start' = IF t = burn_in THEN [start EXCEPT !.price = fee] ELSE start
      /\ sums' = IF t < burn_in THEN sums
                 ELSE [r \in Replays |->
                         [sums[r] EXCEPT !.price_return = @ + (next[r] - previous_price[r])]]
  BY DEF SharedBlock, Begin, next_previous_price
<1>2. /\ t \in Nat /\ burn_in \in Nat /\ fee \in [Replays -> Int]
      /\ start \in [excess : [Replays -> Int], price : [Replays -> Int]]
      /\ sums \in [Replays -> Sums] /\ previous_price = fee
      /\ \A r \in Replays : fee[r] \in Nat \ {0}
  BY <1>1, WorkloadAssumption DEF IInv, TypeOK, PriceInv
<1>3. ASSUME NEW r \in Replays
      PROVE  next[r] \in Nat \ {0}
  <2>1. gas_target[r] \in Nat \ {0} /\ shared_usage(offer[r], r) \in Nat
    BY DenominatorFacts, SharedUsageType
  <2>2. update_base_fee_1559(fee[r], shared_usage(offer[r], r), gas_target[r], errors[r])
          \in Nat \ {0}
    BY <1>2, <2>1, SharedUpdate
  <2> QED BY <2>2
<1>4. next \in [Replays -> Int] /\ \A r \in Replays : next[r] > 0
  BY <1>3
<1> HIDE DEF next
<1>5. start' \in [excess : [Replays -> Int], price : [Replays -> Int]]
  BY <1>1, <1>2
<1>6. ASSUME NEW r \in Replays, ~ (t < burn_in)
      PROVE  /\ sums'[r] \in Sums
             /\ sums'[r].price_return = sums[r].price_return + (next[r] - fee[r])
  <2>1. sums'[r] = [sums[r] EXCEPT !.price_return = @ + (next[r] - fee[r])]
    BY <1>1, <1>2, <1>6
  <2>2. sums[r] \in Sums /\ sums[r].price_return + (next[r] - fee[r]) \in Int
    BY <1>2, <1>4 DEF Sums
  <2> QED BY <2>1, <2>2 DEF Sums
<1>7. sums' \in [Replays -> Sums]
  <2> HIDE DEF Sums
  <2>1. CASE t < burn_in
    BY <1>1, <1>2, <2>1
  <2>2. CASE ~ (t < burn_in)
    <3>1. \A r \in Replays : sums'[r] \in Sums
      BY <1>6, <2>2
    <3> QED BY <1>1, <2>2, <3>1
  <2> QED BY <2>1, <2>2
<1>8. TypeOK'
  BY <1>1, <1>2, <1>4, <1>5, <1>7 DEF IInv, TypeOK
<1>9. CachesInv' /\ PriceInv'
  BY <1>1, <1>4 DEF CachesInv, PriceInv
<1>10. WindowInv'
  <2>1. t' <= burn_in => t < burn_in /\ t <= burn_in
    BY <1>1, <1>2
  <2>2. t' <= burn_in => \A r \in Replays :
          sums'[r].shared = 0 /\ sums'[r].reflection = 0 /\ sums'[r].price_return = 0
    BY <1>1, <2>1 DEF IInv, WindowInv
  <2>3. ASSUME t' > burn_in, NEW r \in Replays
        PROVE  sums'[r].price_return = fee'[r] - start'.price[r]
    <3>1. ~ (t < burn_in) /\ fee[r] \in Int /\ next[r] \in Int /\ fee'[r] = next[r]
      BY <1>1, <1>2, <1>4, <2>3
    <3>2. sums'[r].price_return = sums[r].price_return + (next[r] - fee[r])
      BY <1>6, <3>1
    <3>3. CASE t = burn_in
      <4>1. sums[r].price_return = 0
        BY <1>2, <3>3 DEF IInv, WindowInv
      <4>2. start'.price = fee
        BY <1>1, <1>2, <3>3
      <4> QED BY <3>1, <3>2, <4>1, <4>2
    <3>4. CASE t > burn_in
      <4>1. sums[r].price_return = fee[r] - start.price[r]
        BY <1>1, <3>4 DEF IInv, WindowInv, MeasuredWindowAddsUp
      <4>2. start' = start /\ start.price[r] \in Int
        BY <1>1, <1>2, <3>4
      <4> QED BY <3>1, <3>2, <4>1, <4>2
    <3> QED BY <1>2, <3>1, <3>3, <3>4
  <2>4. MeasuredWindowAddsUp'
    BY <1>1, <2>3 DEF MeasuredWindowAddsUp
  <2> QED BY <2>2, <2>4 DEF WindowInv
<1> QED BY <1>8, <1>9, <1>10 DEF IInv

LEMMA ExcessBlockInv ==
  ASSUME IInv, NEW offer \in [Replays -> Offers], NEW loses \in BOOLEAN,
         ExcessBlock(offer, loses)
  PROVE  IInv'
<1> DEFINE counters == Counters(offer, loses)
           used == [r \in Replays |-> used_shared(counters[r], r)]
           candidate == [r \in Replays |->
                           excess[r] + used_shared(counters[r], r) - gas_target[r]]
           next == [r \in Replays |-> floored(candidate[r])]
           caches == [d \in Denominators |-> grown(thresholds[d], largest(next, d), d)]
           fees == [r \in Replays |->
                      cached_fee(caches[denominator(r)], next[r], denominator(r))]
           Floored(s, r) == [s EXCEPT !.reflection = @ + Larger(0, -candidate[r])]
           Counted(r) == added(sums[r], offer[r], counters[r], fee[r], fees[r], r)
<1>1. /\ kernel = "excess_matched" /\ kernel' = kernel /\ t' = t + 1
      /\ excess' = next /\ thresholds' = caches /\ fee' = fees
      /\ previous_price' = previous_price
      /\ start' = measured_start(candidate)
      /\ sums' = IF t < burn_in THEN sums
                 ELSE [r \in Replays |-> Floored(Counted(r), r)]
  BY DEF ExcessBlock, Begin
<1>2. /\ t \in Nat /\ burn_in \in Nat /\ fee \in [Replays -> Int]
      /\ excess \in [Replays -> Nat]
      /\ start \in [excess : [Replays -> Int], price : [Replays -> Int]]
      /\ sums \in [Replays -> Sums] /\ previous_price \in [Replays -> Int]
  BY WorkloadAssumption DEF IInv, TypeOK
<1>3. ASSUME NEW r \in Replays
      PROVE  used[r] \in Nat /\ used[r] = used_shared(counters[r], r)
  <2>1. counters[r] = included(offer[r], r, loses)
    BY DEF Counters
  <2>2. offer[r] \in Offers
    OBVIOUS
  <2> HIDE DEF counters
  <2> QED BY <2>1, <2>2, UsedType
<1> HIDE DEF counters
<1>4. ASSUME NEW r \in Replays
      PROVE  /\ candidate[r] \in Int /\ gas_target[r] \in Nat
             /\ candidate[r] = excess[r] + used[r] - gas_target[r]
             /\ next[r] \in Nat
             /\ next[r] - Larger(0, -candidate[r]) = candidate[r]
             /\ Larger(0, -candidate[r]) \in Nat
  <2>1. excess[r] \in Nat /\ gas_target[r] \in Nat /\ used[r] \in Nat
    BY <1>2, <1>3, DenominatorFacts
  <2>2. candidate[r] = excess[r] + used[r] - gas_target[r]
    BY <1>3
  <2>3. next[r] = Larger(0, candidate[r])
    BY DEF floored
  <2> HIDE DEF used, candidate, next
  <2> QED BY <2>1, <2>2, <2>3 DEF Larger
<1>5. next \in [Replays -> Nat]
  BY <1>4
<1>6. ASSUME NEW d \in Denominators
      PROVE  IsCache(caches[d], d) /\ Len(caches[d]) <= MAX_CACHED_FEE
  <2>1. d \in Nat \ {0}
    BY DenominatorFacts
  <2>2. IsCache(thresholds[d], d) /\ Len(thresholds[d]) <= MAX_CACHED_FEE
    BY <1>1 DEF IInv, CachesInv
  <2>3. caches[d] = grown(thresholds[d], largest(next, d), d)
    OBVIOUS
  <2> HIDE DEF caches
  <2> QED BY <2>1, <2>2, <2>3, Growing
<1> HIDE DEF caches, next, candidate, used
<1>7. ASSUME NEW r \in Replays
      PROVE  fees[r] = exact_fee(next[r], denominator(r)) /\ fees[r] \in Int
  <2>1. denominator(r) \in Denominators /\ denominator(r) \in Nat \ {0} /\ next[r] \in Nat
    BY <1>5, DenominatorFacts
  <2>2. fees[r] = exact_fee(next[r], denominator(r))
    BY <1>6, <2>1, LookupIsExact
  <2> HIDE DEF fees
  <2>3. exact_fee(next[r], denominator(r)) \in Int
    <3> DEFINE d == denominator(r)
    <3>1. d \in Nat \ {0}
      BY <2>1
    <3> HIDE DEF d
    <3>2. exact_fee(next[r], d) \in Nat
      BY <2>1, <3>1, ExactFeeFacts
    <3> QED BY <3>2 DEF d
  <2> QED BY <2>2, <2>3
<1>8. fees \in [Replays -> Int]
  BY <1>7
<1> HIDE DEF fees
<1>9. start' = IF t = burn_in THEN [start EXCEPT !.excess = excess] ELSE start
  BY <1>1 DEF measured_start
<1>10. start' \in [excess : [Replays -> Int], price : [Replays -> Int]]
  BY <1>2, <1>9
<1>11. ASSUME NEW r \in Replays
       PROVE  /\ Counted(r) \in Sums
              /\ Counted(r).shared = sums[r].shared + used[r]
              /\ Counted(r).reflection = sums[r].reflection
  <2>1. sums[r] \in Sums /\ fee[r] \in Int /\ used_shared(counters[r], r) \in Nat
    BY <1>2, <1>3
  <2> HIDE DEF Sums
  <2> QED BY <1>3, <2>1, AddedFacts
<1> HIDE DEF Counted
<1>12. ASSUME NEW r \in Replays, ~ (t < burn_in)
       PROVE  /\ sums'[r] \in Sums
              /\ sums'[r].shared = sums[r].shared + used[r]
              /\ sums'[r].reflection = sums[r].reflection + Larger(0, -candidate[r])
  <2>1. sums'[r] = Floored(Counted(r), r)
    BY <1>1, <1>12
  <2>2. Counted(r).reflection + Larger(0, -candidate[r]) \in Int
    BY <1>4, <1>11 DEF Sums
  <2> QED BY <1>11, <2>1, <2>2 DEF Sums
<1>13. sums' \in [Replays -> Sums]
  <2> HIDE DEF Sums
  <2>1. CASE t < burn_in
    BY <1>1, <1>2, <2>1
  <2>2. CASE ~ (t < burn_in)
    <3>1. \A r \in Replays : sums'[r] \in Sums
      BY <1>12, <2>2
    <3> HIDE DEF Floored
    <3> QED BY <1>1, <2>2, <3>1
  <2> QED BY <2>1, <2>2
<1> HIDE DEF Floored
<1>14. TypeOK'
  BY <1>1, <1>2, <1>5, <1>8, <1>10, <1>13 DEF TypeOK
<1>15. CachesInv' /\ PriceInv'
  BY <1>1, <1>6, <1>7 DEF CachesInv, PriceInv
<1>16. WindowInv'
  <2>1. t' <= burn_in => t < burn_in /\ t <= burn_in
    BY <1>1, <1>2
  <2>2. t' <= burn_in => \A r \in Replays :
          sums'[r].shared = 0 /\ sums'[r].reflection = 0 /\ sums'[r].price_return = 0
    BY <1>1, <2>1 DEF IInv, WindowInv
  <2>3. ASSUME t' > burn_in, NEW r \in Replays
        PROVE  sums'[r].shared - (t' - burn_in) * gas_target[r]
                 = excess'[r] - start'.excess[r] - sums'[r].reflection
    <3> DEFINE g == gas_target[r]
               floor == Larger(0, -candidate[r])
               blocks == t - burn_in
    <3>1. ~ (t < burn_in) /\ excess'[r] = next[r] /\ blocks \in Nat
      BY <1>1, <1>2, <2>3
    <3>2. /\ sums'[r].shared = sums[r].shared + used[r]
          /\ sums'[r].reflection = sums[r].reflection + floor
      BY <1>12, <3>1
    <3>3. /\ g \in Nat /\ floor \in Nat /\ next[r] \in Nat
          /\ excess[r] \in Nat /\ used[r] \in Nat
          /\ next[r] - floor = excess[r] + used[r] - g
      BY <1>2, <1>3, <1>4
    <3>4. sums[r].shared \in Int /\ sums[r].reflection \in Int
      BY <1>2 DEF Sums
    <3>5. t' - burn_in = blocks + 1 /\ (blocks + 1) * g = blocks * g + g
      <4>1. t' - burn_in = blocks + 1
        BY <1>1, <1>2
      <4> HIDE DEF blocks, g
      <4> QED BY <3>1, <3>3, <4>1
    <3>6. blocks * g \in Int
      BY <3>1, <3>3
    <3>7. /\ start'.excess[r] \in Int
          /\ sums[r].shared - blocks * g
               = excess[r] - start'.excess[r] - sums[r].reflection
      <4>1. CASE t = burn_in
        <5>1. sums[r].shared = 0 /\ sums[r].reflection = 0
          BY <1>2, <4>1 DEF IInv, WindowInv
        <5>2. start'.excess = excess
          BY <1>2, <1>9, <4>1
        <5>3. blocks * g = 0
          BY <1>2, <3>3, <4>1
        <5> HIDE DEF blocks, g
        <5> QED BY <3>3, <5>1, <5>2, <5>3
      <4>2. CASE t > burn_in
        <5>1. sums[r].shared - blocks * g = excess[r] - start.excess[r] - sums[r].reflection
          BY <1>1, <4>2 DEF IInv, WindowInv, MeasuredWindowAddsUp
        <5>2. start' = start /\ start.excess[r] \in Int
          BY <1>2, <1>9, <4>2
        <5> QED BY <5>1, <5>2
      <4> QED BY <1>2, <3>1, <4>1, <4>2
    <3> HIDE DEF blocks, floor
    <3>8. (sums[r].shared + used[r]) - (blocks * g + g)
            = next[r] - start'.excess[r] - (sums[r].reflection + floor)
      <4> DEFINE shared == sums[r].shared
                 reflection == sums[r].reflection
                 over == blocks * g
                 first == start'.excess[r]
                 use == used[r]
                 now == excess[r]
                 then == next[r]
      <4>1. /\ shared \in Int /\ reflection \in Int /\ over \in Int /\ first \in Int
            /\ use \in Int /\ now \in Int /\ then \in Int /\ g \in Int /\ floor \in Int
            /\ shared - over = now - first - reflection
            /\ then - floor = now + use - g
        BY <3>3, <3>4, <3>6, <3>7
      <4> HIDE DEF shared, reflection, over, first, use, now, then, g
      <4>2. (shared + use) - (over + g) = then - first - (reflection + floor)
        BY <4>1
      <4> QED BY <4>2 DEF shared, reflection, over, first, use, now, then, g
    <3> QED BY <3>1, <3>2, <3>5, <3>8
  <2>4. MeasuredWindowAddsUp'
    BY <1>1, <2>3 DEF MeasuredWindowAddsUp
  <2> QED BY <2>2, <2>4 DEF WindowInv
<1> QED BY <1>14, <1>15, <1>16 DEF IInv

LEMMA NextInv == IInv /\ [Next]_vars => IInv'
<1> SUFFICES ASSUME IInv, [Next]_vars PROVE IInv'
  OBVIOUS
<1>1. ASSUME NEW offer \in [Replays -> Offers], NEW loses \in BOOLEAN,
             IntegerBlock(offer, loses)
      PROVE  IInv'
  BY <1>1, IntegerBlockInv
<1>2. ASSUME NEW offer \in [Replays -> Offers], NEW loses \in BOOLEAN,
             ExcessBlock(offer, loses)
      PROVE  IInv'
  BY <1>2, ExcessBlockInv
<1>3. ASSUME NEW offer \in [Replays -> Offers], NEW errors \in [Replays -> Roundings],
             SharedBlock(offer, errors)
      PROVE  IInv'
  BY <1>3, SharedBlockInv
<1>4. CASE UNCHANGED vars
  BY <1>4 DEF vars, IInv, TypeOK, CachesInv, PriceInv, WindowInv, MeasuredWindowAddsUp
<1> QED BY <1>1, <1>2, <1>3, <1>4 DEF Next, Ended

-----------------------------------------------------------------------------
(* The results.                                                            *)

\* The inductive invariant of a batch: the caches of run_controller_batch hold
\* thresholds of the curve and nothing is summed before the window.
THEOREM ReplayInvariant == Spec => []IInv
<1>1. Init => IInv
  BY InitInv
<1>2. IInv /\ [Next]_vars => IInv'
  BY NextInv
<1> QED BY <1>1, <1>2, PTL DEF Spec

\* ExactExponentialFees gives every replay the exponential of its own excess,
\* whatever the batch, its limits and the cache's bounds.
THEOREM CachedFeesExact == Spec => []CachedFeesAreExact
<1>1. IInv => CachedFeesAreExact
  BY DEF IInv, CachesInv, CachedFeesAreExact
<1> QED BY <1>1, ReplayInvariant, PTL

\* The identity run_controller_batch asserts after its loop holds of every
\* block after the burn-in, and the returns of the shared fee telescope.
THEOREM WindowAddsUp == Spec => []MeasuredWindowAddsUp
<1>1. IInv => MeasuredWindowAddsUp
  BY DEF IInv, WindowInv
<1> QED BY <1>1, ReplayInvariant, PTL

\* integer_fee_update moves a fee exactly as the EIP-1559 rule it copies does,
\* until the fee leaves the register; update_base_fee_1559, however its
\* quotient is rounded, moves it the right way, by a wei at least over target,
\* and away from what the rule gives by no more than the rounding does.
THEOREM UpdatersMoveAlike == Spec => UpdatersAgree
<1> DEFINE Agree ==
      t' > t =>
        \A r \in Replays :
          /\ kernel = "integer" =>
               LET next == update_eip1559_base_fee(
                             fee[r], used_shared(block'.counters[r], r), gas_target[r], 1)
               IN  next <= INT_MAX => fee'[r] = next
          /\ kernel = "shared" =>
               FollowsReference(fee[r], fee'[r], shared_usage(block'.offer[r], r),
                                gas_target[r])
<1>1. ASSUME IInv, [Next]_vars
      PROVE  Agree
  <2>1. ASSUME NEW offer \in [Replays -> Offers], NEW loses \in BOOLEAN,
               IntegerBlock(offer, loses), t' > t
        PROVE  Agree
    <3>1. kernel = "integer" /\ t \in Nat
      BY <1>1, <2>1 DEF IntegerBlock, Begin, IInv, TypeOK
    <3>2. outcome' = "running"
      <4>1. outcome' # "running" => t' = t
        BY <2>1 DEF IntegerBlock
      <4> QED BY <2>1, <3>1, <4>1
    <3>3. ASSUME NEW r \in Replays
          PROVE  LET next == update_eip1559_base_fee(
                               fee[r], used_shared(block'.counters[r], r), gas_target[r], 1)
                 IN  next <= INT_MAX => fee'[r] = next
      <4>1. /\ fee[r] \in Nat \ {0} /\ used_shared(block'.counters[r], r) \in Nat
            /\ fee'[r] = integer_fee_update(fee[r], used_shared(block'.counters[r], r),
                                           gas_target[r])
        BY <1>1, <2>1, <3>2, IntegerStep DEF IInv
      <4>2. gas_target[r] \in Nat \ {0}
        BY DenominatorFacts
      <4> QED BY <4>1, <4>2, IntegerUpdate
    <3> QED BY <3>1, <3>3
  <2>2. ASSUME NEW offer \in [Replays -> Offers], NEW loses \in BOOLEAN,
               ExcessBlock(offer, loses)
        PROVE  Agree
    BY <2>2 DEF ExcessBlock
  <2>3. ASSUME NEW offer \in [Replays -> Offers], NEW errors \in [Replays -> Roundings],
               SharedBlock(offer, errors)
        PROVE  Agree
    <3>1. /\ kernel = "shared" /\ block'.offer = offer
          /\ \A r \in Replays :
               fee'[r] = update_base_fee_1559(fee[r], shared_usage(offer[r], r), gas_target[r],
                                              errors[r])
      BY <2>3 DEF SharedBlock
    <3>2. ASSUME NEW r \in Replays
          PROVE  FollowsReference(fee[r], fee'[r], shared_usage(block'.offer[r], r),
                                  gas_target[r])
      <4>1. fee[r] \in Nat \ {0} /\ errors[r] \in Roundings
        BY <1>1, <3>1 DEF IInv, TypeOK, PriceInv
      <4>2. gas_target[r] \in Nat \ {0} /\ shared_usage(offer[r], r) \in Nat
        BY DenominatorFacts, SharedUsageType
      <4>3. FollowsReference(fee[r],
                             update_base_fee_1559(fee[r], shared_usage(offer[r], r),
                                                  gas_target[r], errors[r]),
                             shared_usage(offer[r], r), gas_target[r])
        BY <4>1, <4>2, SharedUpdate
      <4> QED BY <3>1, <4>3
    <3> QED BY <3>1, <3>2
  <2>4. CASE UNCHANGED vars
    <3>1. t' = t /\ t \in Nat
      BY <1>1, <2>4 DEF vars, IInv, TypeOK
    <3> QED BY <3>1
  <2>5. ASSUME NEW offer \in [Replays -> Offers], NEW loses \in BOOLEAN,
               IntegerBlock(offer, loses), ~ (t' > t)
        PROVE  Agree
    BY <2>5
  <2> HIDE DEF Agree
  <2> QED BY <1>1, <2>1, <2>2, <2>3, <2>4, <2>5 DEF Next, Ended
<1>2. Spec => [][Agree]_vars
  <2>1. IInv /\ [Next]_vars => [Agree]_vars
    BY <1>1
  <2> HIDE DEF Agree
  <2> QED BY <2>1, ReplayInvariant, PTL DEF Spec
<1> QED BY <1>2 DEF UpdatersAgree

=============================================================================
