-------------------------- MODULE BatchedReplayProofs --------------------------
(***************************************************************************)
(* Proofs about the batched replays, for every configuration, bundle,      *)
(* burn-in and number of blocks: what is kept online is what the history   *)
(* would say, and a block moves fees and bundles as the scalar code does.  *)
(***************************************************************************)
EXTENDS BatchedReplay, FeeMathProofs, FiniteSetTheorems

(***************************************************************************)
(* Counts, sums and runs of a column, one block further.                   *)
(***************************************************************************)
\* Two columns agree as far as the first goes.
IsExtended(last, values, more) == \A i \in 1..last : more[i] = values[i]

\* A count grows by its next flag, after the burn-in.
LEMMA CountsGrow ==
  ASSUME NEW last \in Nat, NEW flags \in [1..last -> BOOLEAN],
         NEW more \in [1..last + 1 -> BOOLEAN], IsExtended(last, flags, more)
  PROVE  /\ Counts(last, flags) \in Nat
         /\ Counts(last + 1, more)
              = Counts(last, flags) + (IF last >= burn_in /\ more[last + 1] THEN 1 ELSE 0)
<1> DEFINE A == {i \in burn_in + 1..last : flags[i]}
           B == {i \in burn_in + 1..last + 1 : more[i]}
<1>1. burn_in \in Nat
  BY BatchAssumption
<1>2. IsFiniteSet(A)
  <2>1. IsFiniteSet(burn_in + 1..last)
    BY <1>1, FS_Interval
  <2> QED BY <2>1, FS_Subset
<1>3. Cardinality(A) \in Nat
  BY <1>2, FS_CardinalityType
<1>4. CASE last >= burn_in /\ more[last + 1]
  <2>1. B = A \cup {last + 1} /\ last + 1 \notin A
    BY <1>1, <1>4 DEF IsExtended
  <2>2. Cardinality(B) = Cardinality(A) + 1
    BY <1>2, <2>1, FS_AddElement
  <2> QED BY <1>3, <1>4, <2>2 DEF Counts
<1>5. CASE ~ (last >= burn_in /\ more[last + 1])
  <2>1. B = A
    BY <1>1, <1>5 DEF IsExtended
  <2>2. Cardinality(B) = Cardinality(A) + 0
    <3> HIDE DEF A, B
    <3> QED BY <1>3, <2>1
  <2>3. Counts(last, flags) = Cardinality(A) /\ Counts(last + 1, more) = Cardinality(B)
    BY DEF Counts
  <2> HIDE DEF A, B
  <2> QED BY <1>3, <1>5, <2>2, <2>3
<1> QED BY <1>4, <1>5

\* The running sum of a column.
IsSum(f, last, values) ==
  /\ f \in [0..last -> Int]
  /\ f[0] = 0
  /\ \A i \in 1..last : f[i] = IF i <= burn_in THEN 0 ELSE f[i - 1] + values[i]

\* A total is the end of the running sum.
LEMMA TotalIs ==
  ASSUME NEW last \in Nat, NEW values \in [1..last -> Int]
  PROVE  \E f : IsSum(f, last, values) /\ Total(last, values) = f[last]
<1> DEFINE value(i) == IF i \in 1..last THEN values[i] ELSE 0
           step == [i \in Nat |-> [x \in Int |-> IF i <= burn_in THEN 0 ELSE x + value(i)]]
           Recurs(f) == f = [i \in 0..last |-> IF i <= burn_in THEN 0
                                               ELSE f[i - 1] + values[i]]
           upto == CHOOSE f : Recurs(f)
<1>1. burn_in \in Nat
  BY BatchAssumption
<1>2. \A i \in Nat : value(i) \in Int
  OBVIOUS
<1>3. step \in [Nat -> [Int -> Int]]
  BY <1>1, <1>2
<1>4. \A i \in 1..last, x \in Int :
        step[i][x] = IF i <= burn_in THEN 0 ELSE x + values[i]
  OBVIOUS
<1> HIDE DEF value, step
<1>5. PICK h : h \in Runs(Int, 0, step, last)
  <2>1. Runs(Int, 0, step, last) # {}
    <3>1. 0 \in Int
      OBVIOUS
    <3> QED BY <1>3, <3>1, RunsExist, Zenon
  <2> QED BY <2>1
<1>6. Recurs(h)
  <2>1. h \in [0..last -> Int] /\ h[0] = 0 /\ \A i \in 1..last : h[i] = step[i][h[i - 1]]
    BY <1>5 DEF Runs
  <2>2. ASSUME NEW i \in 0..last
        PROVE  h[i] = IF i <= burn_in THEN 0 ELSE h[i - 1] + values[i]
    <3>1. CASE i = 0
      BY <1>1, <2>1, <3>1
    <3>2. CASE i \in 1..last
      <4>1. h[i - 1] \in Int
        BY <2>1, <3>2
      <4> QED BY <1>4, <2>1, <3>2, <4>1
    <3> QED BY <3>1, <3>2
  <2> QED BY <2>1, <2>2
<1>7. Recurs(upto)
  BY <1>6
<1>8. Total(last, values) = upto[last]
  BY DEF Total
<1> HIDE DEF upto
<1>9. /\ DOMAIN upto = 0..last
      /\ \A i \in 0..last : upto[i] = IF i <= burn_in THEN 0 ELSE upto[i - 1] + values[i]
  BY <1>7
<1>10. \A i \in 0..last : upto[i] \in Int
  <2> DEFINE P == {k \in Nat : k <= last => upto[k] \in Int}
  <2>1. 0 \in P
    BY <1>1, <1>9
  <2>2. ASSUME NEW k \in Nat, k \in P
        PROVE  k + 1 \in P
    BY <1>9, <2>2
  <2> HIDE DEF P
  <2>3. Nat \subseteq P
    BY <2>1, <2>2, SetInduction
  <2> QED BY <2>3 DEF P
<1>11. IsSum(upto, last, values)
  <2>1. upto = [i \in 0..last |-> upto[i]]
    BY <1>7
  <2>2. upto \in [0..last -> Int]
    BY <1>10, <2>1
  <2>3. upto[0] = 0
    BY <1>1, <1>9
  <2> QED BY <1>9, <2>2, <2>3 DEF IsSum
<1> QED BY <1>8, <1>11

\* Two running sums of columns that agree are equal.
LEMMA SumsAgree ==
  ASSUME NEW last \in Nat, NEW values, NEW more, IsExtended(last, values, more),
         NEW f, IsSum(f, last, values), NEW g, IsSum(g, last + 1, more)
  PROVE  g[last] = f[last]
<1> DEFINE P == {k \in Nat : k <= last => g[k] = f[k]}
<1>1. 0 \in P
  BY DEF IsSum
<1>2. ASSUME NEW k \in Nat, k \in P
      PROVE  k + 1 \in P
  <2> SUFFICES ASSUME k + 1 <= last PROVE g[k + 1] = f[k + 1]
    OBVIOUS
  <2>1. g[k] = f[k] /\ k + 1 \in 1..last /\ k + 1 \in 1..last + 1 /\ (k + 1) - 1 = k
    BY <1>2
  <2>2. more[k + 1] = values[k + 1]
    BY <2>1 DEF IsExtended
  <2>3. f[k + 1] = IF k + 1 <= burn_in THEN 0 ELSE f[k] + values[k + 1]
    BY <2>1 DEF IsSum
  <2>4. g[k + 1] = IF k + 1 <= burn_in THEN 0 ELSE g[k] + more[k + 1]
    BY <2>1 DEF IsSum
  <2> QED BY <2>1, <2>2, <2>3, <2>4
<1> HIDE DEF P
<1>3. Nat \subseteq P
  BY <1>1, <1>2, SetInduction
<1> QED BY <1>3 DEF P

\* A total grows by its next value, after the burn-in.
LEMMA TotalGrows ==
  ASSUME NEW last \in Nat, NEW values \in [1..last -> Int],
         NEW more \in [1..last + 1 -> Int], IsExtended(last, values, more)
  PROVE  /\ Total(last, values) \in Int
         /\ last <= burn_in => Total(last, values) = 0
         /\ Total(last + 1, more)
              = Total(last, values) + (IF last >= burn_in THEN more[last + 1] ELSE 0)
<1>1. burn_in \in Nat /\ last + 1 \in Nat
  BY BatchAssumption
<1>2. PICK f : IsSum(f, last, values) /\ Total(last, values) = f[last]
  BY TotalIs
<1>3. PICK g : IsSum(g, last + 1, more) /\ Total(last + 1, more) = g[last + 1]
  BY <1>1, TotalIs
<1>4. g[last] = f[last]
  BY <1>2, <1>3, SumsAgree
<1>5. f[last] \in Int /\ (last <= burn_in => f[last] = 0)
  BY <1>1, <1>2 DEF IsSum
<1>6. g[last + 1] = IF last + 1 <= burn_in THEN 0 ELSE g[(last + 1) - 1] + more[last + 1]
  <2>1. last + 1 \in 1..last + 1
    OBVIOUS
  <2> QED BY <1>3, <2>1 DEF IsSum
<1>7. (last + 1) - 1 = last
  OBVIOUS
<1> QED BY <1>1, <1>2, <1>3, <1>4, <1>5, <1>6, <1>7

\* The run a column ends with has k blocks.
IsRunning(k, last, flags) ==
  /\ k \in Nat
  /\ k > 0 => last - k >= burn_in
  /\ \A j \in 1..last : j > last - k => flags[j]
  /\ last - k > burn_in => ~ flags[last - k]

\* With the run it ends with and its longest one, a column has those of the
\* column that is a block longer.
LEMMA RunsGrow ==
  ASSUME NEW last \in Nat, NEW flags \in [1..last -> BOOLEAN],
         NEW more \in [1..last + 1 -> BOOLEAN], IsExtended(last, flags, more),
         NEW k \in Nat, NEW n \in Nat, k <= n,
         IsRunning(k, last, flags), IsLongestRun(n, last, flags)
  PROVE  LET length == IF last >= burn_in THEN run(k, more[last + 1]) ELSE k
             longest == IF last >= burn_in THEN Larger(n, length) ELSE n
         IN  /\ length \in Nat /\ longest \in Nat /\ length <= longest
             /\ IsRunning(length, last + 1, more)
             /\ IsLongestRun(longest, last + 1, more)
<1> DEFINE length == IF last >= burn_in THEN run(k, more[last + 1]) ELSE k
           longest == IF last >= burn_in THEN Larger(n, length) ELSE n
           IsRun(i, m, fs) == \A j \in i..i + m - 1 : fs[j]
<1>1. burn_in \in Nat
  BY BatchAssumption
<1>2. /\ \A i \in burn_in + 1..last - (n + 1) + 1 : ~ IsRun(i, n + 1, flags)
      /\ n > 0 => \E i \in burn_in + 1..last - n + 1 : IsRun(i, n, flags)
  BY DEF IsLongestRun
<1>3. \A i \in 1..last : more[i] = flags[i]
  BY DEF IsExtended
<1>4. CASE last < burn_in
  <2>1. k = 0 /\ n = 0
    BY <1>1, <1>2, <1>4 DEF IsRunning
  <2>2. length = 0 /\ longest = 0
    BY <1>1, <1>4, <2>1
  <2>3. IsRunning(0, last + 1, more)
    BY <1>1, <1>4 DEF IsRunning
  <2>4. IsLongestRun(0, last + 1, more)
    BY <1>1, <1>4 DEF IsLongestRun
  <2> QED BY <2>2, <2>3, <2>4
<1>5. CASE last >= burn_in
  <2>1. /\ length = IF more[last + 1] THEN k + 1 ELSE 0
        /\ longest = IF n >= length THEN n ELSE length
    BY <1>5 DEF run, Larger
  <2>2. length \in Nat /\ longest \in Nat /\ length <= longest /\ n <= longest
    BY <2>1
  <2> HIDE DEF length, longest
  <2>3. IsRunning(length, last + 1, more)
    <3>1. CASE more[last + 1]
      <4>1. length = k + 1 /\ (last + 1) - length = last - k
        BY <2>1, <3>1
      <4>2. last - k >= burn_in
        BY <1>1, <1>5 DEF IsRunning
      <4>3. \A j \in 1..last + 1 : j > last - k => more[j]
        BY <1>3, <3>1 DEF IsRunning
      <4>4. last - k > burn_in => ~ more[last - k]
        BY <1>1, <1>3 DEF IsRunning
      <4> QED BY <2>2, <4>1, <4>2, <4>3, <4>4 DEF IsRunning
    <3>2. CASE ~ more[last + 1]
      <4>1. length = 0
        BY <2>1, <3>2
      <4> QED BY <1>1, <3>2, <4>1 DEF IsRunning
    <3> QED BY <3>1, <3>2
  <2>4. ASSUME longest > 0
        PROVE  \E i \in burn_in + 1..(last + 1) - longest + 1 : IsRun(i, longest, more)
    <3>1. CASE longest = n
      <4>1. PICK i \in burn_in + 1..last - n + 1 : IsRun(i, n, flags)
        BY <1>2, <2>4, <3>1
      <4>2. \A j \in i..i + n - 1 : j \in 1..last
        BY <1>1, <4>1
      <4>3. IsRun(i, n, more)
        BY <1>3, <4>1, <4>2
      <4>4. i \in burn_in + 1..(last + 1) - n + 1
        BY <1>1, <4>1
      <4> QED BY <3>1, <4>3, <4>4
    <3>2. CASE longest # n
      <4>1. longest = length /\ length = k + 1 /\ more[last + 1]
        BY <2>1, <2>4, <3>2
      <4>2. last - k >= burn_in
        BY <1>1, <1>5 DEF IsRunning
      <4>3. \A j \in 1..last : j > last - k => more[j]
        BY <1>3 DEF IsRunning
      <4>4. IsRun(last - k + 1, k + 1, more)
        BY <1>1, <4>1, <4>2, <4>3
      <4>5. last - k + 1 \in burn_in + 1..(last + 1) - (k + 1) + 1
        BY <1>1, <4>2
      <4> QED BY <4>1, <4>4, <4>5
    <3> QED BY <3>1, <3>2
  <2>5. ASSUME NEW i \in burn_in + 1..(last + 1) - (longest + 1) + 1,
               IsRun(i, longest + 1, more)
        PROVE  FALSE
    <3>1. i \in Nat /\ i >= 1 /\ i + longest <= last + 1
      BY <1>1, <2>2
    <3>2. CASE i + longest <= last
      <4>1. i \in burn_in + 1..last - (n + 1) + 1
        BY <1>1, <2>2, <3>1, <3>2
      <4>2. \A j \in i..i + (n + 1) - 1 : j \in i..i + (longest + 1) - 1 /\ j \in 1..last
        BY <2>2, <3>1, <3>2
      <4>3. IsRun(i, n + 1, flags)
        BY <1>3, <2>5, <4>2
      <4> QED BY <1>2, <4>1, <4>3
    <3>3. CASE i + longest = last + 1
      <4>1. last + 1 \in i..i + (longest + 1) - 1
        BY <2>2, <3>1, <3>3
      <4>2. more[last + 1]
        BY <2>5, <4>1
      <4>3. length = k + 1
        BY <2>1, <4>2
      <4>4. last - k \in i..i + (longest + 1) - 1 /\ last - k \in 1..last
            /\ last - k > burn_in
        BY <1>1, <2>2, <3>1, <3>3, <4>3
      <4>5. more[last - k]
        BY <2>5, <4>4
      <4>6. ~ flags[last - k]
        BY <4>4 DEF IsRunning
      <4> QED BY <1>3, <4>4, <4>5, <4>6
    <3> QED BY <2>2, <3>1, <3>2, <3>3
  <2>6. IsLongestRun(longest, last + 1, more)
    BY <2>4, <2>5 DEF IsLongestRun
  <2> QED BY <2>2, <2>3, <2>6 DEF length, longest
<1> QED BY <1>1, <1>4, <1>5

(***************************************************************************)
(* What a block adds to the history and to the summary.                    *)
(***************************************************************************)
\* A sequence, one entry longer.
LEMMA Appended ==
  ASSUME NEW h, h \in Seq(Range(h)), NEW e
  PROVE  LET g == Append(h, e)
         IN  /\ Len(h) \in Nat /\ DOMAIN h = 1..Len(h)
             /\ g \in Seq(Range(g))
             /\ Len(g) = Len(h) + 1 /\ DOMAIN g = 1..Len(h) + 1
             /\ \A i \in 1..Len(h) : g[i] = h[i]
             /\ g[Len(h) + 1] = e
<1> DEFINE g == Append(h, e)
           S == Range(h) \cup {e}
<1>1. h \in Seq(S)
  <2>1. \A i \in 1..Len(h) : h[i] \in S
    BY DEF Range
  <2> QED BY <2>1
<1> HIDE DEF S
<1>2. g \in Seq(S \cup {e}) /\ Len(g) = Len(h) + 1
      /\ (\A i \in 1..Len(h) : g[i] = h[i]) /\ g[Len(h) + 1] = e
  BY <1>1
<1> HIDE DEF g
<1>3. g \in Seq(Range(g))
  <2>1. \A i \in 1..Len(g) : g[i] \in Range(g)
    BY <1>2 DEF Range
  <2> QED BY <1>2, <2>1
<1>4. Len(h) \in Nat /\ DOMAIN h = 1..Len(h) /\ DOMAIN g = 1..Len(h) + 1
  BY <1>2
<1> QED BY <1>2, <1>3, <1>4 DEF g

\* The fields of a summary that has seen one more row.
LEMMA Updated ==
  ASSUME NEW s, NEW row, NEW r \in RESOURCES
  PROVE  LET next == update(s, row)
         IN  /\ next.blocks = s.blocks + 1
             /\ next.at_floor[r] = s.at_floor[r] + one(at_floor(row, r))
             /\ next.included_at_limit[r]
                  = s.included_at_limit[r] + one(included_at_limit(row, r))
             /\ next.cap_active[r] = s.cap_active[r] + one(r \in row.cap_active)
             /\ next.floor_run[r] = run(s.floor_run[r], at_floor(row, r))
             /\ next.floor_run_max[r] = Larger(s.floor_run_max[r], next.floor_run[r])
             /\ next.limit_run[r] = run(s.limit_run[r], included_at_limit(row, r))
             /\ next.limit_run_max[r] = Larger(s.limit_run_max[r], next.limit_run[r])
             /\ next.any_limit_run = run(s.any_limit_run, any_limit(row))
             /\ next.any_limit_run_max = Larger(s.any_limit_run_max, next.any_limit_run)
             /\ next.rationed[r] = s.rationed[r] + Larger(row.offered[r] - row.used[r], 0)
             /\ next.used[r] = s.used[r] + row.used[r]
             /\ next.burn_wei[r] = s.burn_wei[r] + paid(row, r)
             /\ next.fee[r] = s.fee[r] + row.fees[r]
             /\ next.fee_return[r]
                  = s.fee_return[r] + (row.fees[r] - row.previous_fees[r])
<1> DEFINE next == update(s, row)
<1>1. next.blocks = s.blocks + 1
  BY DEF update
<1>2. next.at_floor[r] = s.at_floor[r] + one(at_floor(row, r))
  BY DEF update
<1>3. next.included_at_limit[r]
       = s.included_at_limit[r] + one(included_at_limit(row, r))
  BY DEF update
<1>4. next.cap_active[r] = s.cap_active[r] + one(r \in row.cap_active)
  BY DEF update
<1>5. next.floor_run[r] = run(s.floor_run[r], at_floor(row, r))
  BY DEF update
<1>6. next.floor_run_max[r]
       = Larger(s.floor_run_max[r], next.floor_run[r])
  BY DEF update
<1>7. next.limit_run[r] = run(s.limit_run[r], included_at_limit(row, r))
  BY DEF update
<1>8. next.limit_run_max[r]
       = Larger(s.limit_run_max[r], next.limit_run[r])
  BY DEF update
<1>9. next.any_limit_run = run(s.any_limit_run, any_limit(row))
  BY DEF update
<1>10. next.any_limit_run_max
       = Larger(s.any_limit_run_max, next.any_limit_run)
  BY DEF update
<1>11. next.rationed[r]
       = s.rationed[r] + Larger(row.offered[r] - row.used[r], 0)
  BY DEF update
<1>12. next.used[r] = s.used[r] + row.used[r]
  BY DEF update
<1>13. next.burn_wei[r] = s.burn_wei[r] + paid(row, r)
  BY DEF update
<1>14. next.fee[r] = s.fee[r] + row.fees[r]
  BY DEF update
<1>15. next.fee_return[r]
       = s.fee_return[r] + (row.fees[r] - row.previous_fees[r])
  BY DEF update
<1> HIDE DEF next
<1> QED BY <1>1, <1>2, <1>3, <1>4, <1>5, <1>6, <1>7, <1>8, <1>9, <1>10, <1>11,
           <1>12, <1>13, <1>14, <1>15 DEF next

\* A row accounts for what it was offered and names fees that exist.
IsRow(row) ==
  \A r \in RESOURCES :
    /\ row.used[r] \in Nat /\ row.offered[r] \in Nat
    /\ row.used[r] <= row.offered[r]
    /\ row.fees[r] \in Nat /\ row.previous_fees[r] \in Nat

HistoryInv ==
  /\ t \in Nat
  /\ history \in Seq(Range(history)) /\ Len(history) = t
  /\ \A i \in 1..t : IsRow(history[i])

\* A block of any rule: it hands row to the summary and leaves kept, which is
\* row but for the price charged, in the history.  Glamsterdam's own counter
\* looks at the fee that the block produces.
Turned(row, kept) ==
  /\ rule' = rule
  /\ rule = "glamsterdam" =>
       binding'.sub_eight
         = IF t < burn_in THEN binding.sub_eight
           ELSE binding.sub_eight + one(fees'["data"] < 8)
  /\ summary' = summarized(row)
  /\ history' = Append(history, kept)
  /\ t' = t + 1
  /\ /\ row.used = kept.used /\ row.offered = kept.offered
     /\ row.limits = kept.limits /\ row.cap_active = kept.cap_active
     /\ row.fees = kept.fees /\ row.previous_fees = kept.previous_fees
  /\ IsRow(kept)
  /\ kept.fees = fees' /\ kept.previous_fees = fees

LEMMA HistoryGrows ==
  ASSUME HistoryInv, NEW row, NEW kept, Turned(row, kept)
  PROVE  /\ HistoryInv'
         /\ DOMAIN history = 1..t /\ DOMAIN history' = 1..t + 1
         /\ \A i \in 1..t : history'[i] = history[i]
         /\ history'[t + 1] = kept
<1>1. /\ history' \in Seq(Range(history')) /\ Len(history') = t + 1
      /\ DOMAIN history = 1..t /\ DOMAIN history' = 1..t + 1
      /\ \A i \in 1..t : history'[i] = history[i]
      /\ history'[t + 1] = kept
  BY Appended DEF HistoryInv, Turned
<1>2. t' = t + 1 /\ IsRow(kept)
  BY DEF Turned
<1>3. \A i \in 1..t + 1 : IsRow(history'[i])
  BY <1>1, <1>2 DEF HistoryInv
<1>4. HistoryInv'
  BY <1>1, <1>2, <1>3 DEF HistoryInv, IsRow
<1> QED BY <1>1, <1>4

\* A column with the value of one more block.
IsColumn(values, more, S, value) ==
  /\ values \in [1..t -> S] /\ more \in [1..t + 1 -> S]
  /\ IsExtended(t, values, more)
  /\ more[t + 1] = value

\* What a block adds to each column of the history.
LEMMA Columns ==
  ASSUME HistoryInv, NEW row, NEW kept, Turned(row, kept), NEW r \in RESOURCES
  PROVE  /\ IsColumn(floors(r), floors(r)', BOOLEAN, at_floor(row, r))
         /\ IsColumn(full(r), full(r)', BOOLEAN, included_at_limit(row, r))
         /\ IsColumn(full_somewhere, full_somewhere', BOOLEAN, any_limit(row))
         /\ IsColumn(capped_blocks(r), capped_blocks(r)', BOOLEAN, r \in row.cap_active)
         /\ IsColumn(used_gas(r), used_gas(r)', Int, row.used[r])
         /\ IsColumn(rationed_gas(r), rationed_gas(r)', Int,
                     Larger(row.offered[r] - row.used[r], 0))
         /\ IsColumn(fees_charged(r), fees_charged(r)', Int, row.previous_fees[r])
         /\ IsColumn(burns(r), burns(r)', Int, paid(row, r))
         /\ IsColumn(charged_sub_eight, charged_sub_eight', BOOLEAN,
                     row.previous_fees["data"] < 8)
<1>1. /\ t \in Nat /\ DOMAIN history = 1..t /\ DOMAIN history' = 1..t + 1
      /\ \A i \in 1..t : history'[i] = history[i]
      /\ history'[t + 1] = kept
      /\ \A i \in 1..t : IsRow(history[i])
      /\ \A i \in 1..t + 1 : IsRow(history'[i])
  BY HistoryGrows DEF HistoryInv, Turned
<1>2. /\ row.used = kept.used /\ row.offered = kept.offered
      /\ row.limits = kept.limits /\ row.cap_active = kept.cap_active
      /\ row.previous_fees = kept.previous_fees
      /\ IsRow(kept)
  BY DEF Turned
<1>3. IsColumn(floors(r), floors(r)', BOOLEAN, at_floor(row, r))
  BY <1>1, <1>2 DEF IsColumn, IsExtended, floors, at_floor, MIN_BASE_FEE_PER_GAS
<1>4. IsColumn(full(r), full(r)', BOOLEAN, included_at_limit(row, r))
  BY <1>1, <1>2 DEF IsColumn, IsExtended, full, included_at_limit, finite_limit
<1>5. IsColumn(full_somewhere, full_somewhere', BOOLEAN, any_limit(row))
  <2>1. full_somewhere = [i \in 1..t |-> any_limit(history[i])]
    <3>1. \A i \in 1..t, q \in RESOURCES : full(q)[i] = included_at_limit(history[i], q)
      BY <1>1 DEF full, included_at_limit, finite_limit
    <3> QED BY <1>1, <3>1 DEF full_somewhere, any_limit
  <2>2. full_somewhere' = [i \in 1..t + 1 |-> any_limit(history'[i])]
    <3>1. \A i \in 1..t + 1, q \in RESOURCES :
            full(q)'[i] = included_at_limit(history'[i], q)
      BY <1>1 DEF full, included_at_limit, finite_limit
    <3> QED BY <1>1, <3>1 DEF full_somewhere, any_limit
  <2>3. any_limit(kept) = any_limit(row)
    BY <1>2 DEF any_limit, included_at_limit, finite_limit
  <2>4. \A x : any_limit(x) \in BOOLEAN
    BY DEF any_limit
  <2> QED BY <1>1, <2>1, <2>2, <2>3, <2>4 DEF IsColumn, IsExtended
<1>6. IsColumn(capped_blocks(r), capped_blocks(r)', BOOLEAN, r \in row.cap_active)
  BY <1>1, <1>2 DEF IsColumn, IsExtended, capped_blocks
<1>7. IsColumn(used_gas(r), used_gas(r)', Int, row.used[r])
  BY <1>1, <1>2 DEF IsColumn, IsExtended, used_gas, IsRow
<1>8. IsColumn(rationed_gas(r), rationed_gas(r)', Int,
               Larger(row.offered[r] - row.used[r], 0))
  BY <1>1, <1>2 DEF IsColumn, IsExtended, rationed_gas, IsRow, Larger
<1>9. IsColumn(fees_charged(r), fees_charged(r)', Int, row.previous_fees[r])
  BY <1>1, <1>2 DEF IsColumn, IsExtended, fees_charged, IsRow
<1>10. IsColumn(burns(r), burns(r)', Int, paid(row, r))
  BY <1>1, <1>2 DEF IsColumn, IsExtended, burns, IsRow, paid
<1>11. IsColumn(charged_sub_eight, charged_sub_eight', BOOLEAN,
                row.previous_fees["data"] < 8)
  BY <1>1, <1>2 DEF IsColumn, IsExtended, charged_sub_eight
<1> QED BY <1>3, <1>4, <1>5, <1>6, <1>7, <1>8, <1>9, <1>10, <1>11

\* The measured blocks so far are as many as the summary has seen.
LEMMA MeasuredBlocks ==
  ASSUME t \in Nat
  PROVE  /\ Cardinality(burn_in + 1..t) \in Nat
         /\ t <= burn_in => Cardinality(burn_in + 1..t) = 0
         /\ Cardinality(burn_in + 1..t + 1)
              = Cardinality(burn_in + 1..t) + (IF t >= burn_in THEN 1 ELSE 0)
<1>1. burn_in \in Nat
  BY BatchAssumption
<1>2. \A a, b \in Int : Cardinality(a..b) = IF a > b THEN 0 ELSE b - a + 1
  BY FS_Interval
<1>3. /\ Cardinality(burn_in + 1..t) = IF burn_in + 1 > t THEN 0 ELSE t - (burn_in + 1) + 1
      /\ Cardinality(burn_in + 1..t + 1)
           = IF burn_in + 1 > t + 1 THEN 0 ELSE (t + 1) - (burn_in + 1) + 1
  BY <1>1, <1>2
<1> QED BY <1>1, <1>3

LEMMA Counted ==
  ASSUME t \in Nat, NEW flags, NEW more, NEW flag \in BOOLEAN,
         IsColumn(flags, more, BOOLEAN, flag)
  PROVE  /\ Counts(t, flags) \in Nat
         /\ t <= burn_in => Counts(t, flags) = 0
         /\ Counts(t + 1, more)
              = Counts(t, flags) + (IF t >= burn_in THEN one(flag) ELSE 0)
<1>1. /\ Counts(t, flags) \in Nat
      /\ Counts(t + 1, more)
           = Counts(t, flags) + (IF t >= burn_in /\ more[t + 1] THEN 1 ELSE 0)
  BY CountsGrow DEF IsColumn
<1>2. more[t + 1] = flag
  BY DEF IsColumn
<1>3. (IF t >= burn_in /\ more[t + 1] THEN 1 ELSE 0)
        = (IF t >= burn_in THEN one(flag) ELSE 0)
  BY <1>2 DEF one
<1>4. ASSUME t <= burn_in
      PROVE  Counts(t, flags) = 0
  <2>1. {i \in burn_in + 1..t : flags[i]} = {}
    BY <1>4, BatchAssumption
  <2> QED BY <2>1, FS_EmptySet DEF Counts
<1> QED BY <1>1, <1>3, <1>4

LEMMA Summed ==
  ASSUME t \in Nat, NEW values, NEW more, NEW value, IsColumn(values, more, Int, value)
  PROVE  /\ Total(t, values) \in Int /\ value \in Int
         /\ t <= burn_in => Total(t, values) = 0
         /\ Total(t + 1, more) = Total(t, values) + (IF t >= burn_in THEN value ELSE 0)
<1>1. value \in Int
  BY DEF IsColumn
<1> QED BY <1>1, TotalGrows DEF IsColumn

\* length is the run a column ends with, longest its longest run.
AreRuns(length, longest, last, flags) ==
  /\ length \in Nat /\ longest \in Nat /\ length <= longest
  /\ IsRunning(length, last, flags)
  /\ IsLongestRun(longest, last, flags)

LEMMA Ran ==
  ASSUME t \in Nat, NEW flags, NEW more, NEW flag, IsColumn(flags, more, BOOLEAN, flag),
         NEW length, NEW longest, AreRuns(length, longest, t, flags)
  PROVE  /\ t < burn_in => AreRuns(length, longest, t + 1, more)
         /\ t >= burn_in => AreRuns(run(length, flag), Larger(longest, run(length, flag)),
                                    t + 1, more)
<1>1. more[t + 1] = flag
  BY DEF IsColumn
<1>2. LET next == IF t >= burn_in THEN run(length, more[t + 1]) ELSE length
          most == IF t >= burn_in THEN Larger(longest, next) ELSE longest
      IN  AreRuns(next, most, t + 1, more)
  BY RunsGrow DEF IsColumn, AreRuns
<1>3. burn_in \in Nat
  BY BatchAssumption
<1>4. CASE t < burn_in
  <2>1. ~ (t >= burn_in)
    BY <1>3, <1>4
  <2> QED BY <1>2, <1>4, <2>1
<1>5. CASE t >= burn_in
  <2>1. ~ (t < burn_in)
    BY <1>3, <1>5
  <2> QED BY <1>1, <1>2, <1>5, <2>1
<1> QED BY <1>3, <1>4, <1>5

(***************************************************************************)
(* The stream and the history.                                             *)
(***************************************************************************)
\* What the summary of a resource says, with the run under way.
Streamed(r) ==
  /\ summary.at_floor[r] = Counts(t, floors(r))
  /\ summary.included_at_limit[r] = Counts(t, full(r))
  /\ summary.cap_active[r] = Counts(t, capped_blocks(r))
  /\ AreRuns(summary.floor_run[r], summary.floor_run_max[r], t, floors(r))
  /\ AreRuns(summary.limit_run[r], summary.limit_run_max[r], t, full(r))
  /\ summary.rationed[r] = Total(t, rationed_gas(r))
  /\ summary.used[r] = Total(t, used_gas(r))

StreamInv ==
  /\ summary.blocks = Cardinality(burn_in + 1..t)
  /\ \A r \in RESOURCES : Streamed(r)
  /\ AreRuns(summary.any_limit_run, summary.any_limit_run_max, t, full_somewhere)

LEMMA StreamStep ==
  ASSUME HistoryInv, StreamInv, NEW row, NEW kept, Turned(row, kept)
  PROVE  StreamInv'
<1>1. t \in Nat /\ burn_in \in Nat /\ t' = t + 1
  BY BatchAssumption DEF HistoryInv, Turned
<1>2. CASE t < burn_in
  <2>1. summary' = summary
    BY <1>2 DEF Turned, summarized
  <2>2. ASSUME NEW r \in RESOURCES
        PROVE  Streamed(r)'
    <3>1. Streamed(r)
      BY DEF StreamInv
    <3>2. /\ Counts(t + 1, floors(r)') = Counts(t, floors(r))
          /\ Counts(t + 1, full(r)') = Counts(t, full(r))
          /\ Counts(t + 1, capped_blocks(r)') = Counts(t, capped_blocks(r))
      <4>1. at_floor(row, r) \in BOOLEAN /\ included_at_limit(row, r) \in BOOLEAN
            /\ (r \in row.cap_active) \in BOOLEAN
        BY DEF at_floor, included_at_limit
      <4>2. ~ (t >= burn_in)
        BY <1>1, <1>2
      <4>3. /\ Counts(t, floors(r)) \in Nat /\ Counts(t, full(r)) \in Nat
            /\ Counts(t, capped_blocks(r)) \in Nat
        BY <1>1, <4>1, Columns, Counted
      <4>4. /\ Counts(t + 1, floors(r)') = Counts(t, floors(r)) + 0
            /\ Counts(t + 1, full(r)') = Counts(t, full(r)) + 0
            /\ Counts(t + 1, capped_blocks(r)') = Counts(t, capped_blocks(r)) + 0
        BY <1>1, <4>1, <4>2, Columns, Counted
      <4> QED BY <4>3, <4>4
    <3>3. /\ AreRuns(summary.floor_run[r], summary.floor_run_max[r], t + 1, floors(r)')
          /\ AreRuns(summary.limit_run[r], summary.limit_run_max[r], t + 1, full(r)')
      BY <1>1, <1>2, <3>1, Columns, Ran DEF Streamed
    <3>4. /\ Total(t + 1, rationed_gas(r)') = Total(t, rationed_gas(r))
          /\ Total(t + 1, used_gas(r)') = Total(t, used_gas(r))
      BY <1>1, <1>2, Columns, Summed
    <3> QED BY <1>1, <2>1, <3>1, <3>2, <3>3, <3>4 DEF Streamed
  <2>3. AreRuns(summary.any_limit_run, summary.any_limit_run_max, t + 1, full_somewhere')
    <3>1. "data" \in RESOURCES
      BY DEF RESOURCES
    <3> QED BY <1>1, <1>2, <3>1, Columns, Ran DEF StreamInv
  <2>4. Cardinality(burn_in + 1..t + 1) = Cardinality(burn_in + 1..t)
    BY <1>1, <1>2, MeasuredBlocks
  <2> QED BY <1>1, <2>1, <2>2, <2>3, <2>4 DEF StreamInv
<1>3. CASE t >= burn_in
  <2>1. summary' = update(summary, row)
    BY <1>1, <1>3 DEF Turned, summarized
  <2>2. ASSUME NEW r \in RESOURCES
        PROVE  Streamed(r)'
    <3>1. Streamed(r)
      BY DEF StreamInv
    <3>2. /\ Counts(t + 1, floors(r)') = summary'.at_floor[r]
          /\ Counts(t + 1, full(r)') = summary'.included_at_limit[r]
          /\ Counts(t + 1, capped_blocks(r)') = summary'.cap_active[r]
      <4>1. at_floor(row, r) \in BOOLEAN /\ included_at_limit(row, r) \in BOOLEAN
            /\ (r \in row.cap_active) \in BOOLEAN
        BY DEF at_floor, included_at_limit
      <4>2. /\ Counts(t + 1, floors(r)') = Counts(t, floors(r)) + one(at_floor(row, r))
            /\ Counts(t + 1, full(r)')
                 = Counts(t, full(r)) + one(included_at_limit(row, r))
            /\ Counts(t + 1, capped_blocks(r)')
                 = Counts(t, capped_blocks(r)) + one(r \in row.cap_active)
        BY <1>1, <1>3, <4>1, Columns, Counted
      <4> QED BY <2>1, <3>1, <4>2, Updated DEF Streamed
    <3>3. /\ AreRuns(summary'.floor_run[r], summary'.floor_run_max[r], t + 1, floors(r)')
          /\ AreRuns(summary'.limit_run[r], summary'.limit_run_max[r], t + 1, full(r)')
      <4>1. /\ summary'.floor_run[r] = run(summary.floor_run[r], at_floor(row, r))
            /\ summary'.floor_run_max[r]
                 = Larger(summary.floor_run_max[r], summary'.floor_run[r])
            /\ summary'.limit_run[r] = run(summary.limit_run[r], included_at_limit(row, r))
            /\ summary'.limit_run_max[r]
                 = Larger(summary.limit_run_max[r], summary'.limit_run[r])
        BY <2>1, Updated
      <4> QED BY <1>1, <1>3, <3>1, <4>1, Columns, Ran DEF Streamed
    <3>4. /\ Total(t + 1, rationed_gas(r)') = summary'.rationed[r]
          /\ Total(t + 1, used_gas(r)') = summary'.used[r]
      <4>1. /\ Total(t + 1, rationed_gas(r)')
                 = Total(t, rationed_gas(r)) + Larger(row.offered[r] - row.used[r], 0)
            /\ Total(t + 1, used_gas(r)') = Total(t, used_gas(r)) + row.used[r]
        BY <1>1, <1>3, Columns, Summed
      <4> QED BY <2>1, <3>1, <4>1, Updated DEF Streamed
    <3> QED BY <1>1, <3>2, <3>3, <3>4 DEF Streamed
  <2>3. AreRuns(summary'.any_limit_run, summary'.any_limit_run_max, t + 1, full_somewhere')
    <3>1. "data" \in RESOURCES
      BY DEF RESOURCES
    <3>2. /\ summary'.any_limit_run = run(summary.any_limit_run, any_limit(row))
          /\ summary'.any_limit_run_max
               = Larger(summary.any_limit_run_max, summary'.any_limit_run)
      BY <2>1, <3>1, Updated
    <3> QED BY <1>1, <1>3, <3>1, <3>2, Columns, Ran DEF StreamInv
  <2>4. Cardinality(burn_in + 1..t + 1) = summary'.blocks
    <3>1. summary'.blocks = summary.blocks + 1
      <4>1. "data" \in RESOURCES
        BY DEF RESOURCES
      <4> QED BY <2>1, <4>1, Updated
    <3> QED BY <1>1, <1>3, <3>1, MeasuredBlocks DEF StreamInv
  <2> QED BY <1>1, <2>2, <2>3, <2>4 DEF StreamInv
<1> QED BY <1>1, <1>2, <1>3

(***************************************************************************)
(* Fees and excesses.                                                      *)
(***************************************************************************)
\* What an excess and its fee may be.
Excess == [launch : Nat \ {0}, moved : Int]

\* The configuration of each resource.
LEMMA Configured ==
  ASSUME NEW r \in RESOURCES
  PROVE  /\ targets[r] \in Nat \ {0} /\ denominators[r] \in Nat \ {0}
         /\ limits[r] # None => limits[r] \in Nat \ {0}
         /\ denominators[r] = IF limits[r] = None THEN targets[r] ELSE limits[r]
<1>1. {execution_target, execution_limit, data_target, data_limit, state_target}
        \subseteq Nat \ {0}
  BY BatchAssumption
<1>2. CASE r = "execution"
  BY <1>1, <1>2, NoneAssumption DEF RESOURCES, targets, limits, denominators
<1>3. CASE r = "data"
  BY <1>1, <1>3, NoneAssumption DEF RESOURCES, targets, limits, denominators
<1>4. CASE r = "state"
  BY <1>1, <1>4, NoneAssumption DEF RESOURCES, targets, limits, denominators
<1> QED BY <1>2, <1>3, <1>4 DEF RESOURCES

\* The exponential is a whole number of wei, and is under its launch fee of one
\* wei as soon as the excess falls.
LEMMA ExponentialFacts ==
  ASSUME NEW launch \in Nat \ {0}, NEW moved \in Int
  PROVE  /\ exponential(launch, moved) \in Nat
         /\ launch = 1 /\ moved < 0 => exponential(launch, moved) < 1
<1> DEFINE F == BASE_FEE_UPDATE_FRACTION
           P == PRECISION
<1>1. F \in Nat \ {0} /\ P \in Nat \ {0} /\ P >= F
  BY BatchAssumption, PrecisionAssumption
<1> HIDE DEF F, P
<1>2. CASE moved >= 0
  <2>1. P * launch \in Nat /\ moved \in Nat
    BY <1>1, <1>2
  <2>2. fake_exponential(P * launch, moved, F) \in Nat
    BY <1>1, <2>1, FakeExponentialType
  <2>3. exponential(launch, moved) = fake_exponential(P * launch, moved, F) \div P
    BY <1>2 DEF exponential, F, P
  <2> QED BY <1>1, <1>2, <2>2, <2>3, DivFacts
<1>3. CASE moved < 0
  <2> DEFINE fall == - moved
             grown == fake_exponential(P, fall, F)
  <2>1. fall \in Nat /\ fall >= 1
    BY <1>3
  <2> HIDE DEF fall
  <2>2. grown \in Nat
    BY <1>1, <2>1, FakeExponentialType
  <2>3. P + 1 \in Nat /\ F * (P + 1) <= P * F + P * fall
    <3>1. F * (P + 1) = P * F + F
      BY <1>1
    <3>2. P * 1 <= P * fall /\ P * 1 = P
      BY <1>1, <2>1, ProductMono
    <3>3. P * F \in Nat /\ P * fall \in Nat
      BY <1>1, <2>1
    <3> QED BY <1>1, <3>1, <3>2, <3>3
  <2>4. P + 1 <= grown
    BY <1>1, <2>1, <2>3, FakeExponentialBelow
  <2>5. exponential(launch, moved) = (launch * P) \div grown
    <3>1. ~ (moved >= 0)
      BY <1>3
    <3> QED BY <3>1 DEF exponential, F, P, fall
  <2> HIDE DEF grown
  <2>6. grown \in Nat \ {0} /\ launch * P \in Nat
    BY <1>1, <2>2, <2>4
  <2>7. exponential(launch, moved) \in Nat
    BY <2>5, <2>6, DivFacts
  <2>8. ASSUME launch = 1
        PROVE  exponential(launch, moved) < 1
    <3>1. launch * P = P /\ P < grown * 1
      BY <1>1, <2>2, <2>4, <2>8
    <3> QED BY <1>1, <2>5, <2>6, <3>1, DivBelow
  <2> QED BY <2>7, <2>8
<1> QED BY <1>2, <1>3

LEMMA BatchFeeType ==
  ASSUME NEW x \in Excess
  PROVE  compute_batch_fee(x) \in Nat \ {0}
<1>1. x.launch \in Nat \ {0} /\ x.moved \in Int
  BY DEF Excess
<1>2. exponential(x.launch, x.moved) \in Nat
  BY <1>1, ExponentialFacts
<1>3. x.launch - one(x.launch \in RoundTripLoses) \in Int
  BY <1>1 DEF one
<1> DEFINE v == IF x.moved = 0 THEN x.launch - one(x.launch \in RoundTripLoses)
                ELSE exponential(x.launch, x.moved)
<1>4. v \in Int
  BY <1>2, <1>3
<1>5. compute_batch_fee(x) = Larger(1, v)
  BY DEF compute_batch_fee, MIN_BASE_FEE_PER_GAS
<1> HIDE DEF v
<1> QED BY <1>4, <1>5 DEF Larger

\* The distance that a block moves an excess, over and under the target.
LEMMA MagnitudeFacts ==
  ASSUME NEW gas \in Nat, NEW target \in Nat \ {0}, NEW d \in Nat \ {0}
  PROVE  LET G == GAS_NORMALIZATION_FACTOR
         IN  /\ magnitude(gas, target, d) \in Nat
             /\ gas >= target => magnitude(gas, target, d) = ((gas - target) * G) \div d
             /\ gas < target => /\ magnitude(gas, target, d) = ((target - gas) * G) \div d
                                /\ magnitude(gas, target, d) <= G * target
<1> DEFINE G == GAS_NORMALIZATION_FACTOR
           far == Larger(gas - target, target - gas)
<1>1. G \in Nat \ {0}
  BY BatchAssumption
<1> HIDE DEF G
<1>2. /\ far \in Nat
      /\ gas >= target => far = gas - target
      /\ gas < target => far = target - gas /\ far <= target
  BY DEF Larger
<1>3. magnitude(gas, target, d) = (far * G) \div d
  BY DEF magnitude, G
<1> HIDE DEF far
<1>4. far * G \in Nat
  BY <1>1, <1>2
<1>5. magnitude(gas, target, d) \in Nat
  BY <1>3, <1>4, DivFacts
<1>6. ASSUME gas < target
      PROVE  magnitude(gas, target, d) <= G * target
  <2>1. far * G <= target * G /\ target * G = G * target /\ G * target \in Nat
    BY <1>1, <1>2, <1>6, ProductMono
  <2>2. G * target <= d * (G * target)
    <3>1. 1 * (G * target) <= d * (G * target)
      BY <2>1, ProductMono
    <3> QED BY <2>1, <3>1
  <2>3. far * G <= d * (G * target)
    <3>1. d * (G * target) \in Nat
      BY <2>1
    <3> QED BY <1>4, <2>1, <2>2, <3>1
  <2> QED BY <1>3, <1>4, <2>1, <2>3, DivBound
<1> QED BY <1>2, <1>3, <1>5, <1>6 DEF G

\* The cases of an update: the excess moves, or falls to that of one wei.
LEMMA UpdateExcess ==
  ASSUME NEW x \in Excess, x.launch = 1 => x.moved >= 0,
         NEW gas \in Nat, NEW target \in Nat \ {0}, NEW d \in Nat \ {0}
  PROVE  LET next == update_excess_gas(x, gas, target, d)
             distance == magnitude(gas, target, d)
             moved == IF gas >= target THEN x.moved + distance ELSE x.moved - distance
         IN  /\ next \in Excess
             /\ next.launch = 1 => next.moved >= 0
             /\ x.launch # 1 /\ next.launch # 1 => next.moved = moved
             /\ x.launch = 1 => next = [launch |-> 1, moved |-> Larger(0, moved)]
<1> DEFINE next == update_excess_gas(x, gas, target, d)
           distance == magnitude(gas, target, d)
           moved == IF gas >= target THEN x.moved + distance ELSE x.moved - distance
           falls == moved < 0 /\ exponential(x.launch, moved) < 1
<1>1. x.launch \in Nat \ {0} /\ x.moved \in Int
  BY DEF Excess
<1>2. distance \in Nat
  BY MagnitudeFacts
<1> HIDE DEF distance
<1>3. moved \in Int
  BY <1>1, <1>2
<1>4. next = IF falls THEN [launch |-> 1, moved |-> 0]
             ELSE [launch |-> x.launch, moved |-> moved]
  BY DEF update_excess_gas, distance
<1> HIDE DEF moved, next
<1>5. x.launch = 1 => (falls <=> moved < 0)
  BY <1>1, <1>3, ExponentialFacts
<1>6. next \in Excess
  BY <1>1, <1>3, <1>4 DEF Excess
<1>7. next.launch = 1 => next.moved >= 0
  <2>1. CASE falls
    BY <1>4, <2>1
  <2>2. CASE ~ falls
    <3> HIDE DEF falls
    <3>1. next.launch = x.launch /\ next.moved = moved
      BY <1>4, <2>2
    <3> QED BY <1>3, <1>5, <2>2, <3>1
  <2> QED BY <2>1, <2>2
<1>8. x.launch # 1 /\ next.launch # 1 => next.moved = moved
  <2> HIDE DEF falls
  <2> QED BY <1>4
<1>9. x.launch = 1 => next = [launch |-> 1, moved |-> Larger(0, moved)]
  <2> HIDE DEF falls
  <2>1. Larger(0, moved) = IF moved < 0 THEN 0 ELSE moved
    BY <1>3 DEF Larger
  <2> QED BY <1>4, <1>5, <2>1
<1> QED BY <1>6, <1>7, <1>8, <1>9 DEF next, moved, distance

\* The linear update of the batch follows the scalar rule but for its rounding.
LEMMA LinearUpdate ==
  ASSUME NEW fee \in Nat \ {0}, NEW gas \in Nat, NEW target \in Nat \ {0},
         NEW error \in Roundings
  PROVE  LET next == update_base_fee_1559(fee, gas, target, error)
         IN  /\ next \in Nat \ {0}
             /\ FollowsReference(fee, next, gas, target)
<1> DEFINE p == fee * Larger(gas - target, target - gas)
           d == target * 8
           step == (p * (FLOAT_UNIT + error)) \div (d * FLOAT_UNIT)
           next == update_base_fee_1559(fee, gas, target, error)
           moved == IF gas > target THEN fee + Larger(step, 1)
                    ELSE IF gas < target THEN fee - step
                    ELSE fee
           due == update_eip1559_base_fee(fee, gas, target, 1)
<1>1. next = moved
  BY DEF update_base_fee_1559, rounded_step, abs_gap
<1>2. /\ moved \in Nat \ {0}
      /\ gas > target => moved > fee
      /\ gas < target => moved <= fee
      /\ gas = target => moved = fee
      /\ p * FLOAT_ERROR <= d * FLOAT_UNIT => moved \in due - 1 .. due + 1
      /\ /\ p * FLOAT_ERROR <= (p % d) * FLOAT_UNIT
         /\ p * FLOAT_ERROR < (d - (p % d)) * FLOAT_UNIT
         => moved = due
  <2>1. /\ FLOAT_UNIT \in Nat \ {0} /\ FLOAT_ERROR \in Nat /\ FLOAT_ERROR < FLOAT_UNIT
        /\ error \in - FLOAT_ERROR .. FLOAT_ERROR
    BY FloatAssumption DEF Roundings
  <2> QED BY <2>1, RoundedUpdate1559, ZenonT(60)
<1> HIDE DEF moved
<1>3. /\ IsUnderOneWei(fee, gas, target) => p * FLOAT_ERROR <= d * FLOAT_UNIT
      /\ IsClearOfRounding(fee, gas, target) =>
           /\ p * FLOAT_ERROR <= (p % d) * FLOAT_UNIT
           /\ p * FLOAT_ERROR < (d - (p % d)) * FLOAT_UNIT
  BY DEF IsUnderOneWei, IsClearOfRounding, abs_gap
<1> HIDE DEF next, p, d
<1>4. FollowsReference(fee, next, gas, target)
  BY <1>1, <1>2, <1>3 DEF FollowsReference
<1> QED BY <1>1, <1>2, <1>4 DEF next

FeesInv ==
  /\ fees \in [RESOURCES -> Nat \ {0}]
  /\ excess \in [RESOURCES -> Excess]
  /\ \A r \in RESOURCES : excess[r].launch = 1 => excess[r].moved >= 0

(***************************************************************************)
(* What of a bundle is included.                                           *)
(***************************************************************************)
LEMMA BundleFields ==
  ASSUME NEW bundle \in Bundles
  PROVE  /\ bundle.execution \in Nat /\ bundle.static_data \in Nat
         /\ bundle.execution_bal \in Nat /\ bundle.state_bal \in Nat
         /\ bundle.state \in Nat
         /\ bal(bundle) = bundle.execution_bal + bundle.state_bal /\ bal(bundle) \in Nat
<1>1. bundle \in [execution : Nat, static_data : Nat, execution_bal : Nat,
                  state_bal : Nat, state : Nat]
  BY BatchAssumption
<1>2. /\ bundle.execution \in Nat /\ bundle.static_data \in Nat
      /\ bundle.execution_bal \in Nat /\ bundle.state_bal \in Nat
      /\ bundle.state \in Nat
  BY <1>1
<1> QED BY <1>2 DEF bal

\* A part of at most one.
IsFraction(f) == f.of \in Nat \ {0} /\ f.out_of \in Nat \ {0} /\ f.of <= f.out_of

LEMMA FractionIs ==
  ASSUME NEW limit \in Nat \ {0}, NEW offered \in Nat
  PROVE  IsFraction(fraction(limit, offered))
BY DEF fraction, IsFraction

\* A share is whole and no more than the amount it is of.
LEMMA ShareIs ==
  ASSUME NEW gas \in Nat, NEW f, IsFraction(f)
  PROVE  share(gas, f) \in Nat /\ share(gas, f) <= gas
<1> DEFINE a == f.of
           b == f.out_of
<1>1. a \in Nat \ {0} /\ b \in Nat \ {0} /\ a <= b
  BY DEF IsFraction
<1> HIDE DEF a, b
<1>2. gas * a \in Nat /\ gas * a <= gas * b /\ gas * b = b * gas
  BY <1>1, ProductMono
<1>3. (gas * a) \div b \in Nat /\ (gas * a) \div b <= gas
  BY <1>1, <1>2, DivFacts, DivBound
<1> QED BY <1>3 DEF share, a, b

\* The scales of a bundle, and its data once execution is capped.
LEMMA BundleScales ==
  ASSUME NEW bundle \in Bundles
  PROVE  /\ IsFraction(execution_scale(bundle)) /\ IsFraction(data_scale(bundle))
         /\ IsFraction(bundle_scale(bundle))
         /\ data_after_cap(bundle) \in Nat
         /\ data_after_cap(bundle)
              <= bundle.static_data + bundle.execution_bal + bundle.state_bal
<1>1. /\ execution_limit \in Nat \ {0} /\ data_limit \in Nat \ {0}
      /\ gas_limit \in Nat \ {0}
  BY BatchAssumption
<1>2. IsFraction(execution_scale(bundle))
  BY <1>1, BundleFields, FractionIs DEF execution_scale
<1> DEFINE kept == share(bundle.execution_bal, execution_scale(bundle))
<1>3. kept \in Nat /\ kept <= bundle.execution_bal
  BY <1>2, BundleFields, ShareIs
<1>4. data_after_cap(bundle) = bundle.static_data + kept + bundle.state_bal
  BY DEF data_after_cap
<1> HIDE DEF kept
<1>5. /\ data_after_cap(bundle) \in Nat
      /\ data_after_cap(bundle)
           <= bundle.static_data + bundle.execution_bal + bundle.state_bal
  BY <1>3, <1>4, BundleFields
<1>6. IsFraction(data_scale(bundle))
  BY <1>1, <1>5, FractionIs DEF data_scale
<1>7. Larger(regular_gas(bundle), bundle.state) \in Nat
  BY BundleFields DEF regular_gas, Larger
<1>8. IsFraction(bundle_scale(bundle))
  BY <1>1, <1>7, FractionIs DEF bundle_scale
<1> QED BY <1>2, <1>5, <1>6, <1>8

\* What is included is no more than what is offered, whatever the rule.
IsIncluded(used, offered) ==
  \A r \in RESOURCES : used[r] \in Nat /\ offered[r] \in Nat /\ used[r] <= offered[r]

LEMMA OffersAre ==
  ASSUME NEW bundle \in Bundles, NEW r \in RESOURCES
  PROVE  batch_offered(bundle)[r] \in Nat /\ glamsterdam_offered(bundle)[r] \in Nat
<1>1. CASE r = "execution"
  BY <1>1, BundleFields DEF batch_offered, glamsterdam_offered
<1>2. CASE r = "data"
  <2>1. batch_offered(bundle)[r] = bundle.static_data + bal(bundle)
    BY <1>2 DEF batch_offered
  <2>2. glamsterdam_offered(bundle)[r] = Larger(regular_gas(bundle), bundle.state)
    BY <1>2 DEF glamsterdam_offered
  <2> QED BY <2>1, <2>2, BundleFields DEF regular_gas, Larger
<1>3. CASE r = "state"
  BY <1>3, BundleFields DEF batch_offered, glamsterdam_offered
<1> QED BY <1>1, <1>2, <1>3 DEF RESOURCES

LEMMA ConsistentIncludes ==
  ASSUME NEW bundle \in Bundles
  PROVE  IsIncluded(bundle_consistent(bundle).used, batch_offered(bundle))
<1> DEFINE first == execution_scale(bundle)
           second == data_scale(bundle)
           used == bundle_consistent(bundle).used
           offered == batch_offered(bundle)
<1>1. /\ used["execution"] = included(bundle.execution, first, second)
      /\ used["data"] = Smaller(data_after_cap(bundle), data_limit)
      /\ used["state"] = share(bundle.state, second)
  BY DEF bundle_consistent, RESOURCES
<1>2. /\ offered["execution"] = bundle.execution
      /\ offered["data"] = bundle.static_data + bal(bundle)
      /\ offered["state"] = bundle.state
  BY DEF batch_offered, RESOURCES
<1> HIDE DEF used, offered
<1>3. IsFraction(first) /\ IsFraction(second)
  BY BundleScales
<1> HIDE DEF first, second
<1>4. used["execution"] \in Nat /\ used["execution"] <= offered["execution"]
  <2>1. share(bundle.execution, first) \in Nat
        /\ share(bundle.execution, first) <= bundle.execution
    BY <1>3, BundleFields, ShareIs
  <2>2. /\ share(share(bundle.execution, first), second) \in Nat
        /\ share(share(bundle.execution, first), second) <= share(bundle.execution, first)
    BY <1>3, <2>1, ShareIs
  <2> QED BY <1>1, <1>2, <2>1, <2>2, BundleFields DEF included
<1>5. used["data"] \in Nat /\ used["data"] <= offered["data"]
  <2>1. data_limit \in Nat
    BY BatchAssumption
  <2> QED BY <1>1, <1>2, <2>1, BundleScales, BundleFields DEF Smaller
<1>6. used["state"] \in Nat /\ used["state"] <= offered["state"]
  BY <1>1, <1>2, <1>3, BundleFields, ShareIs
<1> QED BY <1>4, <1>5, <1>6, OffersAre DEF IsIncluded, RESOURCES, used, offered

LEMMA CapsInclude ==
  ASSUME NEW bundle \in Bundles
  PROVE  IsIncluded(independent_caps(bundle).used, batch_offered(bundle))
<1> DEFINE offered == batch_offered(bundle)
<1> SUFFICES ASSUME NEW r \in RESOURCES
             PROVE  LET used == independent_caps(bundle).used[r]
                    IN  used \in Nat /\ offered[r] \in Nat /\ used <= offered[r]
  BY DEF IsIncluded
<1>1. independent_caps(bundle).used[r]
        = IF limits[r] = None THEN offered[r] ELSE Smaller(offered[r], limits[r])
  BY DEF independent_caps
<1>2. offered[r] \in Nat
  BY OffersAre
<1> HIDE DEF offered
<1> QED BY <1>1, <1>2, Configured DEF Smaller

LEMMA GlamsterdamIncludes ==
  ASSUME NEW bundle \in Bundles
  PROVE  LET offered == glamsterdam_offered(bundle)
         IN  IsIncluded([r \in RESOURCES |-> share(offered[r], bundle_scale(bundle))],
                        offered)
BY OffersAre, BundleScales, ShareIs DEF IsIncluded

(***************************************************************************)
(* The turns.                                                              *)
(***************************************************************************)
inclusion(bundle) ==
  IF rule = "bundle_consistent" THEN bundle_consistent(bundle) ELSE independent_caps(bundle)

\* A row of run_batch.
IsFullTurn(bundle, row, kept) ==
  /\ Turned(row, kept)
  /\ kept.used = inclusion(bundle).used /\ kept.components = inclusion(bundle).components
  /\ kept.offered = batch_offered(bundle) /\ kept.bundle = bundle

LEMMA FullTurn ==
  ASSUME FeesInv, NEW bundle \in Bundles, FullBlock(bundle)
  PROVE  /\ \E row, kept : IsFullTurn(bundle, row, kept)
         /\ FeesInv'
         /\ rule # "glamsterdam"
         /\ \A r \in RESOURCES :
              /\ inclusion(bundle).used[r] \in Nat
              /\ excess'[r] = update_excess_gas(excess[r], inclusion(bundle).used[r],
                                                targets[r], denominators[r])
<1> DEFINE used == inclusion(bundle).used
           row == [fees |-> fees', previous_fees |-> fees,
                   used |-> used, offered |-> batch_offered(bundle),
                   limits |-> limits, targets |-> targets,
                   cap_active |-> inclusion(bundle).cap_active,
                   scale_determining |-> inclusion(bundle).scale_determining,
                   components |-> inclusion(bundle).components, bundle |-> bundle,
                   prices |-> prices_left(fees'),
                   previous_prices |-> previous_prices, charged |-> None]
           kept == [row EXCEPT !.charged = charged]
<1>1. IsIncluded(used, batch_offered(bundle))
  BY ConsistentIncludes, CapsInclude DEF inclusion
<1>2. /\ rule # "glamsterdam"
      /\ excess' = [r \in RESOURCES |->
                      update_excess_gas(excess[r], used[r], targets[r], denominators[r])]
      /\ fees' = [r \in RESOURCES |-> compute_batch_fee(excess'[r])]
  BY DEF FullBlock, inclusion
<1>3. Retain(row)
  BY DEF FullBlock, inclusion
<1>4. FeesInv'
  <2>1. ASSUME NEW r \in RESOURCES
        PROVE  /\ excess'[r] \in Excess /\ fees'[r] \in Nat \ {0}
               /\ excess'[r].launch = 1 => excess'[r].moved >= 0
    <3>1. /\ used[r] \in Nat /\ excess[r] \in Excess
          /\ excess[r].launch = 1 => excess[r].moved >= 0
      BY <1>1 DEF IsIncluded, FeesInv
    <3>2. targets[r] \in Nat \ {0} /\ denominators[r] \in Nat \ {0}
      BY Configured
    <3>3. excess'[r] = update_excess_gas(excess[r], used[r], targets[r], denominators[r])
          /\ fees'[r] = compute_batch_fee(excess'[r])
      BY <1>2
    <3> HIDE DEF used
    <3>4. /\ excess'[r] \in Excess
          /\ excess'[r].launch = 1 => excess'[r].moved >= 0
      <4> DEFINE moved == update_excess_gas(excess[r], used[r], targets[r],
                                            denominators[r])
      <4>1. moved \in Excess /\ (moved.launch = 1 => moved.moved >= 0)
        BY <3>1, <3>2, UpdateExcess
      <4> HIDE DEF moved
      <4>2. excess'[r] = moved
        BY <3>3 DEF moved
      <4> QED BY <4>1, <4>2
    <3>5. fees'[r] \in Nat \ {0}
      BY <3>3, <3>4, BatchFeeType
    <3> QED BY <3>4, <3>5
  <2> HIDE DEF used
  <2> QED BY <1>2, <2>1 DEF FeesInv
<1>5. /\ summary' = summarized(row) /\ history' = Append(history, kept)
      /\ t' = t + 1 /\ rule' = rule
  BY <1>3 DEF Retain
<1>6. /\ kept.used = used /\ kept.components = inclusion(bundle).components
      /\ kept.offered = batch_offered(bundle) /\ kept.bundle = bundle
      /\ kept.fees = fees' /\ kept.previous_fees = fees
      /\ kept.limits = row.limits /\ kept.cap_active = row.cap_active
      /\ row.used = used /\ row.offered = batch_offered(bundle)
      /\ row.fees = fees' /\ row.previous_fees = fees
  BY DEF row, kept
<1> HIDE DEF row, kept
<1>7. IsRow(kept)
  BY <1>1, <1>4, <1>6 DEF IsRow, IsIncluded, FeesInv
<1>8. Turned(row, kept)
  BY <1>2, <1>5, <1>6, <1>7 DEF Turned
<1>9. IsFullTurn(bundle, row, kept)
  BY <1>6, <1>8 DEF IsFullTurn
<1> QED BY <1>1, <1>2, <1>4, <1>9 DEF IsIncluded

LEMMA GlamsterdamTurn ==
  ASSUME FeesInv, NEW bundle \in Bundles, NEW error \in Roundings, GlamsterdamBlock(bundle, error)
  PROVE  /\ rule = "glamsterdam"
         /\ FeesInv'
         /\ \E row, kept :
              /\ Turned(row, kept)
              /\ \A r \in RESOURCES :
                   fees'[r] = update_base_fee_1559(fees[r], kept.used["data"], gas_target,
                                                   error)
<1> DEFINE offered == glamsterdam_offered(bundle)
           used == [r \in RESOURCES |-> share(offered[r], bundle_scale(bundle))]
           row == [fees |-> fees', previous_fees |-> fees,
                   used |-> used, offered |-> offered,
                   limits |-> glamsterdam_limits, targets |-> None,
                   cap_active |-> {r \in RESOURCES : offered[r] >= gas_limit},
                   scale_determining |-> determining(offered, glamsterdam_limits),
                   components |-> None, bundle |-> bundle,
                   prices |-> prices_left(fees'),
                   previous_prices |-> previous_prices, charged |-> None]
           kept == [row EXCEPT !.charged = charged]
<1>1. IsIncluded(used, offered)
  BY GlamsterdamIncludes
<1>2. /\ rule = "glamsterdam"
      /\ fees' = [r \in RESOURCES |->
                    update_base_fee_1559(fees[r], used["data"], gas_target, error)]
      /\ excess' = excess
      /\ binding'.sub_eight = IF t < burn_in THEN binding.sub_eight
                              ELSE binding.sub_eight + one(fees'["data"] < 8)
  <2>1. binding' = IF t < burn_in THEN binding
                   ELSE [regular |-> binding.regular
                                       + one(regular_gas(bundle) >= bundle.state),
                         sub_eight |-> binding.sub_eight + one(fees'["data"] < 8),
                         data_used |-> binding.data_used
                                         + share(bundle.static_data, bundle_scale(bundle))]
    BY DEF GlamsterdamBlock
  <2> QED BY <2>1 DEF GlamsterdamBlock
<1>3. Retain(row)
  BY DEF GlamsterdamBlock
<1>4. used["data"] \in Nat
  <2> HIDE DEF used
  <2> QED BY <1>1 DEF IsIncluded, RESOURCES
<1>5. FeesInv'
  <2>1. ASSUME NEW r \in RESOURCES
        PROVE  fees'[r] \in Nat \ {0}
    <3>1. fees[r] \in Nat \ {0} /\ gas_target \in Nat \ {0}
      BY BatchAssumption DEF FeesInv
    <3> HIDE DEF used
    <3>2. fees'[r] = update_base_fee_1559(fees[r], used["data"], gas_target, error)
      BY <1>2
    <3> QED BY <1>4, <3>1, <3>2, LinearUpdate
  <2> HIDE DEF used
  <2> QED BY <1>2, <2>1 DEF FeesInv
<1>6. /\ summary' = summarized(row) /\ history' = Append(history, kept)
      /\ t' = t + 1 /\ rule' = rule
  BY <1>3 DEF Retain
<1>7. /\ kept.used = used /\ kept.offered = offered
      /\ kept.fees = fees' /\ kept.previous_fees = fees
      /\ kept.limits = row.limits /\ kept.cap_active = row.cap_active
      /\ row.used = used /\ row.offered = offered
      /\ row.fees = fees' /\ row.previous_fees = fees
  BY DEF row, kept
<1> HIDE DEF row, kept, used, offered
<1>8. IsRow(kept)
  BY <1>1, <1>5, <1>7 DEF IsRow, IsIncluded, FeesInv
<1>9. Turned(row, kept)
  BY <1>2, <1>6, <1>7, <1>8 DEF Turned
<1> QED BY <1>2, <1>5, <1>7, <1>9

(***************************************************************************)
(* A bundle that is cut stays together.                                    *)
(***************************************************************************)
LEMMA SameFactor ==
  ASSUME NEW a \in Nat, NEW b \in Nat, NEW c \in Nat \ {0}, a * c = b * c
  PROVE  a = b
<1>1. a <= b /\ b <= a
  <2>1. a * c <= b * c /\ b * c <= a * c
    OBVIOUS
  <2> QED BY <2>1, Cancelled
<1> QED BY <1>1

\* A fraction may be reduced.
LEMMA Reduced ==
  ASSUME NEW a \in Nat, NEW b \in Nat \ {0}, NEW c \in Nat \ {0}
  PROVE  (a * c) \div (b * c) = a \div b
<1> DEFINE q == a \div b
<1>1. q \in Nat /\ b * q <= a /\ a < b * q + b
  BY DivFacts
<1> HIDE DEF q
<1>2. a * c \in Nat /\ b * c \in Nat \ {0} /\ (b * c) * q = (b * q) * c /\ b * q \in Nat
      /\ (b * q + b) * c = (b * c) * q + b * c
  BY <1>1
<1>3. (b * q) * c <= a * c
  BY <1>1, <1>2, ProductMono
<1>4. (a + 1) * c <= (b * q + b) * c /\ (a + 1) * c = a * c + c
  <2>1. a + 1 \in Nat /\ b * q + b \in Nat /\ a + 1 <= b * q + b
    BY <1>1, <1>2
  <2> QED BY <2>1, ProductMono
<1>5. a * c < (b * c) * q + b * c
  BY <1>2, <1>4
<1>6. (b * c) * q <= a * c
  BY <1>2, <1>3
<1> QED BY <1>1, <1>2, <1>5, <1>6, QuotientIs DEF q

\* A share of a unit is the amount; an exact one loses nothing to its floor.
LEMMA ExactShare ==
  ASSUME NEW gas \in Nat, NEW f, IsFraction(f)
  PROVE  /\ f.of = 1 /\ f.out_of = 1 => share(gas, f) = gas /\ exact(gas, f)
         /\ f.out_of = gas => share(gas, f) = f.of /\ exact(gas, f)
         /\ exact(gas, f) => share(gas, f) * f.out_of = gas * f.of
<1> DEFINE a == f.of
           b == f.out_of
<1>1. a \in Nat \ {0} /\ b \in Nat \ {0} /\ gas * a \in Nat
  BY DEF IsFraction
<1>2. share(gas, f) = (gas * a) \div b /\ (exact(gas, f) <=> (gas * a) % b = 0)
  BY DEF share, exact
<1> HIDE DEF a, b
<1>3. ASSUME a = 1, b = 1
      PROVE  share(gas, f) = gas /\ exact(gas, f)
  BY <1>2, <1>3
<1>4. ASSUME b = gas
      PROVE  share(gas, f) = a /\ exact(gas, f)
  <2>1. (a * b) % b = 0 /\ gas * a = a * b
    BY <1>1, <1>4, Multiples
  <2>2. (a * b) \div b = a
    <3>1. a * b = (a * b) + 0 /\ b * a <= a * b /\ a * b < b * a + b /\ a * b \in Nat
      BY <1>1
    <3> QED BY <1>1, <3>1, QuotientIs
  <2> QED BY <1>2, <2>1, <2>2
<1>5. ASSUME exact(gas, f)
      PROVE  share(gas, f) * b = gas * a
  <2> DEFINE m == gas * a
  <2>1. m \in Nat /\ m % b = 0
    BY <1>1, <1>2, <1>5
  <2>2. m = (m \div b) * b
    BY <1>1, <2>1, Multiples
  <2> QED BY <1>2, <2>2
<1> QED BY <1>3, <1>4, <1>5 DEF a, b

\* What the assumption on the bundles gives.
LEMMA SharesAre ==
  ASSUME NEW bundle \in Bundles
  PROVE  LET first == execution_scale(bundle)
             second == data_scale(bundle)
             after == share(bundle.execution, first)
             kept == share(bundle.execution_bal, first)
         IN  /\ after \in Nat /\ after * first.out_of = bundle.execution * first.of
             /\ kept \in Nat /\ kept * first.out_of = bundle.execution_bal * first.of
             /\ \A gas \in {after, bundle.state, bundle.static_data, bundle.state_bal, kept} :
                  /\ share(gas, second) \in Nat
                  /\ share(gas, second) * second.out_of = gas * second.of
<1> DEFINE first == execution_scale(bundle)
           second == data_scale(bundle)
           after == share(bundle.execution, first)
           kept == share(bundle.execution_bal, first)
<1>1. IsFraction(first) /\ IsFraction(second)
  BY BundleScales
<1>2. /\ exact(bundle.execution_bal, first)
      /\ \A gas \in {after, bundle.state, bundle.static_data, bundle.state_bal, kept} :
           exact(gas, second)
  BY ScalesExactly
<1>3. exact(bundle.execution, first)
  <2>1. (first.of = 1 /\ first.out_of = 1) \/ first.out_of = bundle.execution
    BY DEF execution_scale, fraction
  <2> HIDE DEF first
  <2> QED BY <1>1, <2>1, BundleFields, ExactShare
<1> HIDE DEF first, second
<1>4. after \in Nat /\ kept \in Nat
  BY <1>1, BundleFields, ShareIs
<1>5. /\ after * first.out_of = bundle.execution * first.of
      /\ kept * first.out_of = bundle.execution_bal * first.of
  BY <1>1, <1>2, <1>3, BundleFields, ExactShare
<1> HIDE DEF after, kept
<1>6. ASSUME NEW gas \in {after, bundle.state, bundle.static_data, bundle.state_bal, kept}
      PROVE  /\ share(gas, second) \in Nat
             /\ share(gas, second) * second.out_of = gas * second.of
  <2>1. gas \in Nat /\ exact(gas, second)
    BY <1>2, <1>4, BundleFields
  <2> QED BY <1>1, <2>1, ShareIs, ExactShare
<1> QED BY <1>4, <1>5, <1>6 DEF first, second, after, kept

\* Two parts of fractions of two amounts are to each other as the amounts.
LEMMA InProportion ==
  ASSUME NEW x \in Nat, NEW y \in Nat, NEW n \in Nat, NEW d \in Nat \ {0},
         NEW p \in Nat, NEW q \in Nat, p * d = x * n, q * d = y * n
  PROVE  p * y = x * q
<1>1. (p * y) * d = (x * q) * d
  <2>1. (p * y) * d = (p * d) * y
    OBVIOUS
  <2>2. (x * q) * d = x * (q * d)
    OBVIOUS
  <2>3. (x * n) * y = x * (y * n)
    OBVIOUS
  <2> QED BY <2>1, <2>2, <2>3
<1>2. p * y \in Nat /\ x * q \in Nat
  OBVIOUS
<1> QED BY <1>1, <1>2, SameFactor

\* The parts of the data add up to the data, and go with their parents.
LEMMA PartsKeep ==
  ASSUME NEW bundle \in Bundles
  PROVE  LET row == bundle_consistent(bundle)
             parts == row.components
         IN  /\ parts.static + parts.execution_bal + parts.state_bal = row.used["data"]
             /\ parts.execution_bal * bundle.execution
                  = bundle.execution_bal * row.used["execution"]
             /\ parts.state_bal * bundle.state = bundle.state_bal * row.used["state"]
<1> DEFINE first == execution_scale(bundle)
           second == data_scale(bundle)
           after == share(bundle.execution, first)
           kept == share(bundle.execution_bal, first)
           row == bundle_consistent(bundle)
           whole == data_after_cap(bundle)
           S == share(bundle.static_data, second)
           E == share(kept, second)
           T == share(bundle.state_bal, second)
           X == share(after, second)
           Y == share(bundle.state, second)
           n1 == first.of
           d1 == first.out_of
           n2 == second.of
           d2 == second.out_of
<1>1. /\ row.components.static = S /\ row.components.execution_bal = E
      /\ row.components.state_bal = T
      /\ row.used["execution"] = X /\ row.used["state"] = Y
      /\ row.used["data"] = Smaller(whole, data_limit)
  BY DEF bundle_consistent, included, RESOURCES
<1>2. whole = bundle.static_data + kept + bundle.state_bal
  BY DEF data_after_cap
<1>3. /\ n1 \in Nat /\ d1 \in Nat \ {0} /\ n2 \in Nat /\ d2 \in Nat \ {0}
      /\ whole \in Nat /\ data_limit \in Nat
  BY BatchAssumption, BundleScales DEF IsFraction
<1>4. /\ after \in Nat /\ after * d1 = bundle.execution * n1
      /\ kept \in Nat /\ kept * d1 = bundle.execution_bal * n1
      /\ S \in Nat /\ S * d2 = bundle.static_data * n2
      /\ E \in Nat /\ E * d2 = kept * n2
      /\ T \in Nat /\ T * d2 = bundle.state_bal * n2
      /\ X \in Nat /\ X * d2 = after * n2
      /\ Y \in Nat /\ Y * d2 = bundle.state * n2
  BY SharesAre
<1>5. \/ whole > data_limit /\ n2 = data_limit /\ d2 = whole
      \/ whole <= data_limit /\ n2 = 1 /\ d2 = 1
  <2> HIDE DEF whole
  <2>1. second = IF whole > data_limit THEN [of |-> data_limit, out_of |-> whole]
                 ELSE [of |-> 1, out_of |-> 1]
    BY DEF data_scale, fraction, whole
  <2>2. whole > data_limit \/ whole <= data_limit
    BY <1>3
  <2> HIDE DEF second
  <2> QED BY <1>3, <2>1, <2>2
<1> HIDE DEF row, whole, S, E, T, X, Y, after, kept, n1, d1, n2, d2, first, second
<1>6. S + E + T = Smaller(whole, data_limit)
  <2>1. (S + E + T) * d2 = whole * n2
    <3>1. (S + E + T) * d2 = S * d2 + E * d2 + T * d2
      BY <1>3, <1>4
    <3>2. whole * n2 = bundle.static_data * n2 + kept * n2 + bundle.state_bal * n2
      BY <1>2, <1>3, <1>4, BundleFields
    <3> QED BY <1>4, <3>1, <3>2
  <2>2. S + E + T \in Nat
    BY <1>4
  <2>3. CASE whole > data_limit
    <3>1. n2 = data_limit /\ d2 = whole /\ whole * data_limit = data_limit * whole
      BY <1>3, <1>5, <2>3
    <3>2. S + E + T = data_limit
      BY <1>3, <2>1, <2>2, <3>1, SameFactor
    <3> QED BY <1>3, <2>3, <3>2 DEF Smaller
  <2>4. CASE whole <= data_limit
    <3>1. n2 = 1 /\ d2 = 1
      BY <1>3, <1>5, <2>4
    <3>2. S + E + T = whole
      BY <1>3, <2>1, <2>2, <3>1
    <3> QED BY <2>4, <3>2 DEF Smaller
  <2> QED BY <1>3, <2>3, <2>4
<1>7. E * bundle.execution = bundle.execution_bal * X
  <2>1. E * after = kept * X
    BY <1>3, <1>4, InProportion
  <2>2. kept * bundle.execution = bundle.execution_bal * after
    <3> DEFINE x == bundle.execution_bal
               y == bundle.execution
    <3>1. /\ x \in Nat /\ y \in Nat /\ kept \in Nat /\ after \in Nat
          /\ n1 \in Nat /\ d1 \in Nat \ {0}
      BY <1>3, <1>4, BundleFields
    <3>2. kept * d1 = x * n1 /\ after * d1 = y * n1
      BY <1>4
    <3> HIDE DEF x, y
    <3>3. kept * y = x * after
      BY <3>1, <3>2, InProportion
    <3> QED BY <3>3 DEF x, y
  <2>3. E * (after * d1) = kept * (X * d1) /\ X * (kept * d1) = X * (bundle.execution_bal * n1)
    <3>1. E * (after * d1) = (E * after) * d1 /\ kept * (X * d1) = (kept * X) * d1
      BY <1>3, <1>4
    <3> QED BY <1>4, <2>1, <3>1
  <2>4. (E * bundle.execution) * n1 = (bundle.execution_bal * X) * n1
    <3>1. (E * bundle.execution) * n1 = E * (bundle.execution * n1)
      BY <1>3, <1>4, BundleFields
    <3>2. (bundle.execution_bal * X) * n1 = X * (bundle.execution_bal * n1)
      BY <1>3, <1>4, BundleFields
    <3>3. kept * (X * d1) = X * (kept * d1)
      BY <1>3, <1>4
    <3> QED BY <1>4, <2>3, <3>1, <3>2, <3>3
  <2>5. n1 \in Nat \ {0}
    BY BundleScales DEF IsFraction, n1, first
  <2>6. E * bundle.execution \in Nat /\ bundle.execution_bal * X \in Nat
    BY <1>4, BundleFields
  <2> QED BY <2>4, <2>5, <2>6, SameFactor
<1>8. T * bundle.state = bundle.state_bal * Y
  <2> DEFINE x == bundle.state_bal
             y == bundle.state
  <2>1. /\ x \in Nat /\ y \in Nat /\ T \in Nat /\ Y \in Nat
        /\ n2 \in Nat /\ d2 \in Nat \ {0}
    BY <1>3, <1>4, BundleFields
  <2>2. T * d2 = x * n2 /\ Y * d2 = y * n2
    BY <1>4
  <2> HIDE DEF x, y
  <2>3. T * y = x * Y
    BY <2>1, <2>2, InProportion
  <2> QED BY <2>3 DEF x, y
<1> QED BY <1>1, <1>6, <1>7, <1>8 DEF row

\* In whole gas there is nothing to round to a quantum of one.
LEMMA UnitQuantum ==
  ASSUME NEW gas \in Nat
  PROVE  Inclusion!floor_to_quantum(gas, 1) = gas
BY DEF Inclusion!floor_to_quantum

\* The vectorised inclusion is ParentBALConsistentCaps.
LEMMA ScalarAgrees ==
  ASSUME NEW bundle \in Bundles
  PROVE  LET unit == [r \in RESOURCES |-> 1]
         IN  bundle_consistent(bundle).used
               = Inclusion!ParentBALConsistentCaps(bundle, batch_offered(bundle), limits,
                                                   unit, FALSE).included
<1> DEFINE offered == batch_offered(bundle)
           first == execution_scale(bundle)
           second == data_scale(bundle)
           after == share(bundle.execution, first)
           kept == share(bundle.execution_bal, first)
           whole == data_after_cap(bundle)
           used == bundle_consistent(bundle).used
           unit == [r \in RESOURCES |-> 1]
           scale == Inclusion!execution_cap_scale(offered, limits)
           data == Inclusion!data_after_execution_cap(bundle, scale)
           cut == Inclusion!data_bundle_scale(bundle, scale, limits)
           execution_after_cap ==
             Inclusion!floor_to_quantum(
               Inclusion!scaled_floor(offered["execution"], scale.limit, scale.offered, FALSE),
               unit["execution"])
           data_after ==
             Inclusion!floor_to_quantum(
               Inclusion!scaled_floor(1, data, scale.offered, FALSE), unit["data"])
           included_data == IF cut.limit # cut.offered THEN limits["data"]
                            ELSE IF scale.limit = scale.offered THEN offered["data"]
                            ELSE data_after
           taken(r) == CASE r = "execution" ->
                              Inclusion!included_parent(execution_after_cap, cut,
                                                        unit["execution"], FALSE)
                         [] r = "state" ->
                              Inclusion!included_parent(offered["state"], cut,
                                                        unit["state"], FALSE)
                         [] r = "data" -> included_data
           scalar == Inclusion!ParentBALConsistentCaps(bundle, offered, limits, unit, FALSE)
<1>1. scalar.included = [r \in Inclusion!DEMAND_RESOURCES |-> taken(r)]
  BY DEF Inclusion!ParentBALConsistentCaps, Inclusion!allocation
<1>2. /\ offered["execution"] = bundle.execution /\ offered["state"] = bundle.state
      /\ offered["data"] = bundle.static_data + bal(bundle)
      /\ limits["execution"] = execution_limit /\ limits["data"] = data_limit
      /\ unit["execution"] = 1 /\ unit["data"] = 1 /\ unit["state"] = 1
  BY DEF batch_offered, limits, RESOURCES
<1>3. /\ execution_limit \in Nat \ {0} /\ execution_limit # None
      /\ data_limit \in Nat \ {0} /\ data_limit # None
      /\ bundle.execution \in Nat /\ bundle.static_data \in Nat
      /\ bundle.execution_bal \in Nat /\ bundle.state_bal \in Nat
      /\ bundle.state \in Nat /\ bal(bundle) = bundle.execution_bal + bundle.state_bal
  BY BatchAssumption, NoneAssumption, BundleFields
<1>4. /\ first.of \in Nat \ {0} /\ first.out_of \in Nat \ {0}
      /\ second.of \in Nat \ {0} /\ second.out_of \in Nat \ {0}
      /\ whole \in Nat
  BY BundleScales DEF IsFraction
<1>5. whole = bundle.static_data + kept + bundle.state_bal
  BY DEF data_after_cap
<1>6. /\ after \in Nat /\ kept \in Nat
      /\ kept * first.out_of = bundle.execution_bal * first.of
      /\ share(after, second) \in Nat /\ share(bundle.state, second) \in Nat
  BY SharesAre
<1>7. /\ used["execution"] = share(after, second)
      /\ used["data"] = Smaller(whole, data_limit)
      /\ used["state"] = share(bundle.state, second)
      /\ used = [r \in RESOURCES |-> used[r]]
  BY DEF bundle_consistent, included, RESOURCES
<1>8. /\ scale.limit = first.of /\ scale.offered = first.out_of
      /\ \/ first.of # first.out_of
         \/ first.of = 1 /\ first.out_of = 1
  <2>1. first = IF bundle.execution > execution_limit
                THEN [of |-> execution_limit, out_of |-> bundle.execution]
                ELSE [of |-> 1, out_of |-> 1]
    BY DEF execution_scale, fraction
  <2>2. scale = IF bundle.execution > execution_limit
                THEN [limit |-> execution_limit, offered |-> bundle.execution]
                ELSE [limit |-> 1, offered |-> 1]
    BY <1>2, <1>3 DEF Inclusion!execution_cap_scale
  <2> HIDE DEF first, scale
  <2> QED BY <1>3, <2>1, <2>2
<1>9. second = IF whole > data_limit THEN [of |-> data_limit, out_of |-> whole]
               ELSE [of |-> 1, out_of |-> 1]
  BY DEF data_scale, fraction
<1> DEFINE d == first.out_of
<1>10. data = whole * d
  <2> HIDE DEF scale, first, kept, whole
  <2>1. data = (bundle.static_data + bundle.state_bal) * d + bundle.execution_bal * first.of
    BY <1>8 DEF Inclusion!data_after_execution_cap
  <2>2. whole * d = (bundle.static_data + bundle.state_bal) * d + kept * d
    BY <1>3, <1>4, <1>5, <1>6
  <2> QED BY <1>6, <2>1, <2>2
<1>11. cut = IF whole > data_limit THEN [limit |-> data_limit * d, offered |-> whole * d]
             ELSE [limit |-> 1, offered |-> 1]
  <2>1. cut = IF data > data_limit * d THEN [limit |-> data_limit * d, offered |-> data]
              ELSE [limit |-> 1, offered |-> 1]
    BY <1>2, <1>3, <1>8 DEF Inclusion!data_bundle_scale
  <2> HIDE DEF first, whole, data, cut
  <2>2. data > data_limit * d <=> whole > data_limit
    <3>1. d \in Nat \ {0} /\ whole * d \in Nat /\ data_limit * d \in Nat
      BY <1>3, <1>4
    <3>2. whole <= data_limit => whole * d <= data_limit * d
      BY <1>3, <1>4, ProductMono
    <3>3. whole * d <= data_limit * d => whole <= data_limit
      BY <1>3, <1>4, Cancelled
    <3> QED BY <1>3, <1>4, <1>10, <3>1, <3>2, <3>3
  <2> QED BY <1>10, <2>1, <2>2
<1>12. ASSUME NEW gas \in Nat, share(gas, second) \in Nat
       PROVE  Inclusion!included_parent(gas, cut, 1, FALSE) = share(gas, second)
  <2>1. Inclusion!scaled_floor(gas, cut.limit, cut.offered, FALSE)
          = (gas * cut.limit) \div cut.offered
    BY DEF Inclusion!scaled_floor
  <2>2. (gas * cut.limit) \div cut.offered = share(gas, second)
    <3> HIDE DEF cut, second, whole, first
    <3>1. CASE whole > data_limit
      <4>1. cut.limit = data_limit * d /\ cut.offered = whole * d
            /\ second.of = data_limit /\ second.out_of = whole
        BY <1>9, <1>11, <3>1
      <4>2. gas * (data_limit * d) = (gas * data_limit) * d /\ gas * data_limit \in Nat
            /\ d \in Nat \ {0} /\ whole \in Nat \ {0}
        BY <1>3, <1>4, <1>12, <3>1
      <4>3. ((gas * data_limit) * d) \div (whole * d) = (gas * data_limit) \div whole
        BY <4>2, Reduced
      <4> QED BY <4>1, <4>2, <4>3 DEF share
    <3>2. CASE ~ (whole > data_limit)
      BY <1>9, <1>11, <3>2 DEF share
    <3> QED BY <3>1, <3>2
  <2> HIDE DEF cut, second
  <2> QED BY <1>12, <2>1, <2>2, UnitQuantum DEF Inclusion!included_parent
<1>13. execution_after_cap = after
  <2>1. Inclusion!scaled_floor(offered["execution"], scale.limit, scale.offered, FALSE) = after
    <3> HIDE DEF scale, first, offered
    <3> QED BY <1>2, <1>8 DEF Inclusion!scaled_floor, share
  <2> HIDE DEF scale, after, offered, unit
  <2> QED BY <1>2, <1>6, <2>1, UnitQuantum
<1>14. data_after = whole
  <2>1. Inclusion!scaled_floor(1, data, scale.offered, FALSE) = (1 * data) \div d
    <3> HIDE DEF scale, first, data
    <3> QED BY <1>8 DEF Inclusion!scaled_floor
  <2> HIDE DEF scale, data, first, whole, unit
  <2>2. (1 * data) \div d = whole
    <3>1. whole * d \in Nat /\ d * whole = whole * d /\ whole * d < d * whole + d
          /\ 1 * data = whole * d
      BY <1>4, <1>10
    <3>2. (whole * d) \div d = whole
      BY <1>4, <3>1, QuotientIs
    <3> QED BY <3>1, <3>2
  <2> QED BY <1>2, <1>4, <2>1, <2>2, UnitQuantum
<1>15. included_data = Smaller(whole, data_limit)
  <2> HIDE DEF data_after, cut, scale, first, kept, whole, offered
  <2>1. CASE whole > data_limit
    <3>1. cut.limit # cut.offered
      <4>1. cut.limit = data_limit * d /\ cut.offered = whole * d
        BY <1>11, <2>1
      <4>2. data_limit * d # whole * d
        <5>1. d \in Nat \ {0} /\ data_limit \in Nat /\ whole \in Nat
          BY <1>3, <1>4
        <5> HIDE DEF d
        <5>2. data_limit * d = whole * d => data_limit = whole
          BY <5>1, SameFactor
        <5> QED BY <2>1, <5>1, <5>2
      <4> QED BY <4>1, <4>2
    <3> QED BY <1>2, <1>3, <1>4, <2>1, <3>1 DEF Smaller
  <2>2. CASE ~ (whole > data_limit)
    <3>1. cut.limit = cut.offered /\ Smaller(whole, data_limit) = whole
      BY <1>3, <1>4, <1>11, <2>2 DEF Smaller
    <3>2. CASE scale.limit = scale.offered
      <4>1. first.of = 1 /\ first.out_of = 1
        BY <1>8, <3>2
      <4>2. kept = bundle.execution_bal
        BY <1>3, <1>6, <4>1
      <4>3. whole = offered["data"]
        BY <1>2, <1>3, <1>5, <4>2
      <4> QED BY <3>1, <3>2, <4>3
    <3>3. CASE scale.limit # scale.offered
      BY <1>14, <3>1, <3>3
    <3> QED BY <3>2, <3>3
  <2> QED BY <2>1, <2>2
<1>16. /\ taken("execution") = used["execution"]
       /\ taken("state") = used["state"]
       /\ taken("data") = used["data"]
  <2> HIDE DEF used, execution_after_cap, cut, included_data, after, second, offered, unit
  <2>1. taken("execution") = used["execution"]
    BY <1>2, <1>6, <1>7, <1>12, <1>13
  <2>2. taken("state") = used["state"]
    BY <1>2, <1>3, <1>6, <1>7, <1>12
  <2>3. taken("data") = used["data"]
    BY <1>7, <1>15
  <2> QED BY <2>1, <2>2, <2>3
<1>17. scalar.included = used
  <2> HIDE DEF taken, used, scalar
  <2>1. Inclusion!DEMAND_RESOURCES = RESOURCES
    BY DEF Inclusion!DEMAND_RESOURCES, RESOURCES
  <2>2. \A r \in RESOURCES : taken(r) = used[r]
    BY <1>16 DEF RESOURCES
  <2> QED BY <1>1, <1>7, <2>1, <2>2
<1> QED BY <1>17 DEF used, scalar, offered, unit

\* A block of the rule leaves a row of which this is true.
LEMMA KeptTogether ==
  ASSUME NEW bundle \in Bundles, NEW row,
         row.used = bundle_consistent(bundle).used,
         row.components = bundle_consistent(bundle).components,
         row.offered = batch_offered(bundle), row.bundle = bundle
  PROVE  IsKeptTogether(row)
<1>1. row.used = Inclusion!ParentBALConsistentCaps(row.bundle, row.offered, limits,
                                                   [r \in RESOURCES |-> 1], FALSE).included
  BY ScalarAgrees
<1>2. /\ row.components.static + row.components.execution_bal
           + row.components.state_bal = row.used["data"]
      /\ row.components.execution_bal * row.bundle.execution
           = row.bundle.execution_bal * row.used["execution"]
      /\ row.components.state_bal * row.bundle.state
           = row.bundle.state_bal * row.used["state"]
  BY PartsKeep
<1> QED BY <1>1, <1>2 DEF IsKeptTogether

(***************************************************************************)
(* The fees that are paid.                                                 *)
(***************************************************************************)
\* The fees in force where the measurement starts, or would start now.
measured_from == IF t > burn_in THEN history[burn_in + 1].previous_fees ELSE fees

\* BlocksPayTheFeesInForce from the first block on: before the measurement all
\* of it is zero.
PayInv ==
  /\ \A i \in 2..t : history[i].previous_fees = history[i - 1].fees
  /\ t > 0 => history[t].fees = fees
  /\ \A r \in RESOURCES :
       /\ summary.burn_wei[r] = Total(t, burns(r))
       /\ summary.fee[r] = Total(t, fees_charged(r)) + (fees[r] - measured_from[r])
       /\ summary.fee_return[r] = fees[r] - measured_from[r]
  /\ rule = "glamsterdam" =>
       binding.sub_eight = Counts(t, charged_sub_eight)
                             + (one(fees["data"] < 8) - one(measured_from["data"] < 8))

LEMMA PayStep ==
  ASSUME HistoryInv, FeesInv, FeesInv', PayInv, NEW row, NEW kept, Turned(row, kept)
  PROVE  PayInv'
<1>1. /\ t \in Nat /\ burn_in \in Nat /\ t' = t + 1 /\ rule' = rule
      /\ kept.fees = fees' /\ kept.previous_fees = fees
      /\ row.fees = fees' /\ row.previous_fees = fees
  BY BatchAssumption DEF HistoryInv, Turned
<1>2. /\ DOMAIN history = 1..t /\ DOMAIN history' = 1..t + 1
      /\ \A i \in 1..t : history'[i] = history[i]
      /\ history'[t + 1] = kept
  BY HistoryGrows
<1>3. \A r \in RESOURCES : fees[r] \in Nat /\ fees'[r] \in Nat
  BY DEF FeesInv
<1>4. \A i \in 2..t' : history'[i].previous_fees = history'[i - 1].fees
  <2> SUFFICES ASSUME NEW i \in 2..t + 1
               PROVE  history'[i].previous_fees = history'[i - 1].fees
    BY <1>1
  <2>1. CASE i \in 2..t
    <3>1. i \in 1..t /\ i - 1 \in 1..t
      BY <1>1, <2>1
    <3> QED BY <1>2, <2>1, <3>1 DEF PayInv
  <2>2. CASE i = t + 1
    <3>1. t > 0 /\ i - 1 = t /\ t \in 1..t
      BY <1>1, <2>2
    <3>2. history'[i].previous_fees = fees
      BY <1>1, <1>2, <2>2
    <3>3. history'[i - 1].fees = fees
      BY <1>2, <3>1 DEF PayInv
    <3> QED BY <3>2, <3>3
  <2> QED BY <1>1, <2>1, <2>2
<1>5. history'[t'].fees = fees'
  BY <1>1, <1>2
<1>6. measured_from' = IF t >= burn_in THEN measured_from ELSE fees'
  <2>1. CASE t > burn_in
    <3>1. burn_in + 1 \in 1..t /\ t' > burn_in /\ t >= burn_in
      BY <1>1, <2>1
    <3> QED BY <1>2, <2>1, <3>1 DEF measured_from
  <2>2. CASE t = burn_in
    <3>1. t' > burn_in /\ ~ (t > burn_in) /\ t >= burn_in
      BY <1>1, <2>2
    <3> QED BY <1>1, <1>2, <2>2, <3>1 DEF measured_from
  <2>3. CASE t < burn_in
    <3>1. ~ (t' > burn_in) /\ ~ (t >= burn_in)
      BY <1>1, <2>3
    <3> QED BY <3>1 DEF measured_from
  <2> QED BY <1>1, <2>1, <2>2, <2>3
<1>7. \A r \in RESOURCES : measured_from[r] \in Nat
  <2>1. CASE t > burn_in
    <3>1. IsRow(history[burn_in + 1])
      BY <1>1, <2>1 DEF HistoryInv
    <3> QED BY <2>1, <3>1 DEF IsRow, measured_from
  <2>2. CASE ~ (t > burn_in)
    BY <1>3, <2>2 DEF measured_from
  <2> QED BY <2>1, <2>2
<1>8. ASSUME ~ (t > burn_in)
      PROVE  measured_from = fees
  BY <1>8 DEF measured_from
<1>9. ASSUME NEW r \in RESOURCES
      PROVE  /\ summary'.burn_wei[r] = Total(t + 1, burns(r)')
             /\ summary'.fee[r]
                  = Total(t + 1, fees_charged(r)') + (fees'[r] - measured_from'[r])
             /\ summary'.fee_return[r] = fees'[r] - measured_from'[r]
  <2> DEFINE b == Total(t, burns(r))
             c == Total(t, fees_charged(r))
  <2>1. /\ b \in Int /\ c \in Int
        /\ t <= burn_in => c = 0
        /\ paid(row, r) \in Int
        /\ Total(t + 1, burns(r)') = b + (IF t >= burn_in THEN paid(row, r) ELSE 0)
        /\ Total(t + 1, fees_charged(r)')
             = c + (IF t >= burn_in THEN row.previous_fees[r] ELSE 0)
    BY <1>1, Columns, Summed
  <2>2. /\ summary.burn_wei[r] = b
        /\ summary.fee[r] = c + (fees[r] - measured_from[r])
        /\ summary.fee_return[r] = fees[r] - measured_from[r]
    BY DEF PayInv
  <2>3. fees[r] \in Nat /\ fees'[r] \in Nat /\ measured_from[r] \in Nat
    BY <1>3, <1>7
  <2> HIDE DEF b, c
  <2>4. CASE t < burn_in
    <3>1. summary' = summary
      BY <2>4 DEF Turned, summarized
    <3>2. ~ (t >= burn_in) /\ ~ (t > burn_in) /\ t <= burn_in
      BY <1>1, <2>4
    <3>3. measured_from' = fees' /\ measured_from = fees
      BY <1>6, <1>8, <3>2
    <3> QED BY <2>1, <2>2, <2>3, <3>1, <3>2, <3>3
  <2>5. CASE t >= burn_in
    <3>1. summary' = update(summary, row)
      <4>1. ~ (t < burn_in)
        BY <1>1, <2>5
      <4> QED BY <4>1 DEF Turned, summarized
    <3>2. /\ summary'.burn_wei[r] = summary.burn_wei[r] + paid(row, r)
          /\ summary'.fee[r] = summary.fee[r] + row.fees[r]
          /\ summary'.fee_return[r]
               = summary.fee_return[r] + (row.fees[r] - row.previous_fees[r])
      BY <3>1, Updated
    <3>3. measured_from' = measured_from
      BY <1>6, <2>5
    <3> QED BY <1>1, <2>1, <2>2, <2>3, <2>5, <3>2, <3>3
  <2> QED BY <1>1, <2>4, <2>5
<1>10. ASSUME rule = "glamsterdam"
       PROVE  binding'.sub_eight
                = Counts(t + 1, charged_sub_eight')
                    + (one(fees'["data"] < 8) - one(measured_from'["data"] < 8))
  <2> DEFINE n == Counts(t, charged_sub_eight)
             low == row.previous_fees["data"] < 8
  <2>1. "data" \in RESOURCES
    BY DEF RESOURCES
  <2>2. /\ n \in Nat
        /\ t <= burn_in => n = 0
        /\ Counts(t + 1, charged_sub_eight') = n + (IF t >= burn_in THEN one(low) ELSE 0)
    <3>1. low \in BOOLEAN
      OBVIOUS
    <3>2. IsColumn(charged_sub_eight, charged_sub_eight', BOOLEAN, low)
      BY <2>1, Columns
    <3> HIDE DEF low
    <3> QED BY <1>1, <3>1, <3>2, Counted
  <2>3. one(low) = one(fees["data"] < 8)
    BY <1>1
  <2>4. \A flag : one(flag) \in Int
    BY DEF one
  <2>5. binding.sub_eight = n + (one(fees["data"] < 8) - one(measured_from["data"] < 8))
    BY <1>10 DEF PayInv
  <2>6. binding'.sub_eight = IF t < burn_in THEN binding.sub_eight
                             ELSE binding.sub_eight + one(fees'["data"] < 8)
    BY <1>10 DEF Turned
  <2> DEFINE now == one(fees["data"] < 8)
             next == one(fees'["data"] < 8)
             from == one(measured_from["data"] < 8)
             from_next == one(measured_from'["data"] < 8)
  <2>7. now \in Int /\ next \in Int /\ from \in Int /\ from_next \in Int
    BY <2>4
  <2>8. /\ t < burn_in => from = now /\ from_next = next
        /\ t >= burn_in => from_next = from
    <3>1. t < burn_in => ~ (t >= burn_in) /\ ~ (t > burn_in)
      BY <1>1
    <3> QED BY <1>6, <1>8, <3>1
  <2> HIDE DEF n, low, now, next, from, from_next
  <2>9. Counts(t + 1, charged_sub_eight') = n + (IF t >= burn_in THEN now ELSE 0)
    BY <2>2, <2>3 DEF now
  <2>10. binding'.sub_eight = IF t < burn_in THEN n + (now - from) ELSE n + (now - from) + next
    BY <2>5, <2>6 DEF now, next, from
  <2>11. binding'.sub_eight = Counts(t + 1, charged_sub_eight') + (next - from_next)
    BY <1>1, <2>2, <2>7, <2>8, <2>9, <2>10
  <2> QED BY <2>11 DEF next, from_next
<1> QED BY <1>1, <1>4, <1>5, <1>9, <1>10 DEF PayInv

(***************************************************************************)
(* The reference.                                                          *)
(***************************************************************************)
\* The scalar update, whose reserve is off.
LEMMA ReferenceIs ==
  ASSUME NEW r \in RESOURCES, NEW x \in Nat, NEW gas \in Nat
  PROVE  LET distance == magnitude(gas, targets[r], denominators[r])
         IN  reference(x, gas, r) = IF gas >= targets[r] THEN x + distance
                                    ELSE Larger(0, x - distance)
<1> DEFINE c == reference_config(r)
           target == targets[r]
           d == denominators[r]
<1>1. target \in Nat \ {0} /\ d \in Nat \ {0}
  BY Configured
<1>2. normalization_denominator_value(c) = d
  BY Configured, NoneAssumption DEF reference_config, normalization_denominator_value
<1>3. ~ reserve_price_active(1, 0, c)
  BY DEF reserve_price_active, has_reserve_price, reference_config
<1>4. c.gas_target = target /\ c.gas_normalization_factor = GAS_NORMALIZATION_FACTOR
  BY DEF reference_config
<1> HIDE DEF c
<1>5. reference(x, gas, r)
        = IF gas >= target THEN x + normalized(gas - target, d, c)
          ELSE Larger(0, x - normalized(target - gas, d, c))
  BY <1>2, <1>3, <1>4 DEF reference, update_normalized_excess_gas, c
<1> HIDE DEF target, d
<1>6. CASE gas >= target
  <2>1. magnitude(gas, target, d) = normalized(gas - target, d, c)
    BY <1>1, <1>4, <1>6, MagnitudeFacts DEF normalized
  <2> QED BY <1>5, <1>6, <2>1 DEF target, d
<1>7. CASE ~ (gas >= target)
  <2>1. gas < target
    BY <1>1, <1>7
  <2>2. magnitude(gas, target, d) = normalized(target - gas, d, c)
    BY <1>1, <1>4, <2>1, MagnitudeFacts DEF normalized
  <2> QED BY <1>5, <1>7, <2>2 DEF target, d
<1> QED BY <1>6, <1>7

\* An excess that moves, moves as the reference does.
LEMMA MovedAlike ==
  ASSUME NEW r \in RESOURCES, NEW x \in Excess, x.launch = 1 => x.moved >= 0,
         NEW gas \in Nat
  PROVE  LET next == update_excess_gas(x, gas, targets[r], denominators[r])
         IN  IF x.launch = 1
             THEN next = [launch |-> 1, moved |-> reference(x.moved, gas, r)]
             ELSE next.launch # 1 =>
                    next.moved - x.moved = reference(high(r), gas, r) - high(r)
<1> DEFINE target == targets[r]
           d == denominators[r]
           G == GAS_NORMALIZATION_FACTOR
           distance == magnitude(gas, target, d)
           moved == IF gas >= target THEN x.moved + distance ELSE x.moved - distance
           next == update_excess_gas(x, gas, target, d)
<1>1. /\ target \in Nat \ {0} /\ d \in Nat \ {0} /\ G \in Nat \ {0}
      /\ x.launch \in Nat /\ x.moved \in Int
  BY Configured, BatchAssumption DEF Excess
<1>2. /\ x.launch # 1 /\ next.launch # 1 => next.moved = moved
      /\ x.launch = 1 => next = [launch |-> 1, moved |-> Larger(0, moved)]
  <2> HIDE DEF target, d
  <2> QED BY <1>1, UpdateExcess
<1>3. /\ distance \in Nat
      /\ gas < target => distance <= G * target
  <2> HIDE DEF target, d
  <2> QED BY <1>1, MagnitudeFacts
<1>4. \A y \in Nat : reference(y, gas, r) = IF gas >= target THEN y + distance
                                           ELSE Larger(0, y - distance)
  BY ReferenceIs
<1> HIDE DEF next, distance, target, d, G
<1>5. ASSUME x.launch = 1
      PROVE  next = [launch |-> 1, moved |-> reference(x.moved, gas, r)]
  <2>1. x.moved \in Nat
    BY <1>1, <1>5
  <2>2. reference(x.moved, gas, r) = Larger(0, moved)
    BY <1>3, <1>4, <2>1 DEF Larger
  <2> QED BY <1>2, <1>5, <2>2
<1>6. ASSUME x.launch # 1, next.launch # 1
      PROVE  next.moved - x.moved = reference(high(r), gas, r) - high(r)
  <2>1. high(r) = G * target /\ high(r) \in Nat
    BY <1>1 DEF high, G, target
  <2>2. next.moved = moved
    BY <1>2, <1>6
  <2>3. CASE gas >= target
    BY <1>1, <1>3, <1>4, <2>1, <2>2, <2>3
  <2>4. CASE ~ (gas >= target)
    <3>1. gas < target
      BY <1>1, <2>4
    <3>2. distance <= high(r)
      BY <1>3, <2>1, <3>1
    <3>3. reference(high(r), gas, r) = high(r) - distance
      BY <1>3, <1>4, <2>1, <2>4, <3>2 DEF Larger
    <3> QED BY <1>1, <1>3, <2>1, <2>2, <2>4, <3>3
  <2> QED BY <2>3, <2>4
<1> QED BY <1>5, <1>6 DEF next, target, d

(***************************************************************************)
(* The inductive invariant and the properties.                             *)
(***************************************************************************)
IInv ==
  /\ HistoryInv
  /\ StreamInv
  /\ FeesInv
  /\ PayInv
  /\ BundlesAreKeptTogether

LEMMA InitInv == Init => IInv
<1> SUFFICES ASSUME Init PROVE IInv
  OBVIOUS
<1>1. /\ t = 0 /\ history = <<>> /\ burn_in \in Nat /\ ~ (t > burn_in)
      /\ summary = OnlineSummary /\ binding.sub_eight = 0
  BY BatchAssumption DEF Init
<1>2. HistoryInv
  BY <1>1 DEF HistoryInv, Range
<1>3. FeesInv
  <2>1. PICK launch \in LaunchFees : fees = per_resource(launch)
    BY DEF Init
  <2>2. launch \in Nat \ {0}
    BY BatchAssumption
  <2>3. excess = [r \in RESOURCES |-> [launch |-> fees[r], moved |-> 0]]
    BY DEF Init, excess_gas_for_fee
  <2> QED BY <2>1, <2>2, <2>3 DEF FeesInv, Excess, per_resource
<1>4. \A column \in [1..0 -> Int] : Total(0, column) = 0
  <2> SUFFICES ASSUME NEW column \in [1..0 -> Int] PROVE Total(0, column) = 0
    OBVIOUS
  <2>1. PICK f : IsSum(f, 0, column) /\ Total(0, column) = f[0]
    BY TotalIs
  <2> QED BY <2>1 DEF IsSum
<1>5. \A flags : Counts(0, flags) = 0 /\ AreRuns(0, 0, 0, flags)
  <2> TAKE flags
  <2>1. {i \in burn_in + 1..0 : flags[i]} = {}
    BY <1>1
  <2>2. Counts(0, flags) = 0
    BY <2>1, FS_EmptySet DEF Counts
  <2>3. IsRunning(0, 0, flags)
    BY <1>1 DEF IsRunning
  <2>4. IsLongestRun(0, 0, flags)
    BY <1>1 DEF IsLongestRun
  <2> QED BY <2>2, <2>3, <2>4 DEF AreRuns
<1>6. StreamInv
  <2>1. ASSUME NEW r \in RESOURCES
        PROVE  Streamed(r)
    <3>1. rationed_gas(r) \in [1..0 -> Int] /\ used_gas(r) \in [1..0 -> Int]
      BY <1>1 DEF rationed_gas, used_gas
    <3>2. Total(0, rationed_gas(r)) = 0 /\ Total(0, used_gas(r)) = 0
      BY <1>4, <3>1
    <3>3. /\ summary.at_floor[r] = 0 /\ summary.included_at_limit[r] = 0
          /\ summary.cap_active[r] = 0
          /\ summary.floor_run[r] = 0 /\ summary.floor_run_max[r] = 0
          /\ summary.limit_run[r] = 0 /\ summary.limit_run_max[r] = 0
          /\ summary.rationed[r] = 0 /\ summary.used[r] = 0
      BY <1>1 DEF OnlineSummary, per_resource
    <3> QED BY <1>1, <1>5, <3>2, <3>3 DEF Streamed
  <2>2. summary.blocks = Cardinality(burn_in + 1..t)
    <3>1. summary.blocks = 0
      BY <1>1 DEF OnlineSummary
    <3> QED BY <1>1, <3>1, MeasuredBlocks
  <2>3. summary.any_limit_run = 0 /\ summary.any_limit_run_max = 0
    BY <1>1 DEF OnlineSummary
  <2> QED BY <1>1, <1>5, <2>1, <2>2, <2>3 DEF StreamInv
<1>7. PayInv
  <2>1. measured_from = fees
    BY <1>1 DEF measured_from
  <2>2. ASSUME NEW r \in RESOURCES
        PROVE  /\ summary.burn_wei[r] = Total(t, burns(r))
               /\ summary.fee[r] = Total(t, fees_charged(r)) + (fees[r] - measured_from[r])
               /\ summary.fee_return[r] = fees[r] - measured_from[r]
    <3>1. burns(r) \in [1..0 -> Int] /\ fees_charged(r) \in [1..0 -> Int]
      BY <1>1 DEF burns, fees_charged
    <3>2. Total(0, burns(r)) = 0 /\ Total(0, fees_charged(r)) = 0
      BY <1>4, <3>1
    <3>3. summary.burn_wei[r] = 0 /\ summary.fee[r] = 0 /\ summary.fee_return[r] = 0
      BY <1>1 DEF OnlineSummary, per_resource
    <3>4. fees[r] \in Nat
      BY <1>3 DEF FeesInv
    <3> QED BY <1>1, <2>1, <3>2, <3>3, <3>4
  <2>3. binding.sub_eight = Counts(t, charged_sub_eight)
                              + (one(fees["data"] < 8) - one(measured_from["data"] < 8))
    <3>1. one(fees["data"] < 8) \in Int
      BY DEF one
    <3> QED BY <1>1, <1>5, <2>1, <3>1
  <2> QED BY <1>1, <2>2, <2>3 DEF PayInv
<1>8. BundlesAreKeptTogether
  BY <1>1 DEF BundlesAreKeptTogether
<1> QED BY <1>2, <1>3, <1>6, <1>7, <1>8 DEF IInv

\* A turn keeps what its summary, its fees and its history say.
LEMMA TurnInv ==
  ASSUME IInv, FeesInv', NEW row, NEW kept, Turned(row, kept),
         rule = "bundle_consistent" => IsKeptTogether(kept)
  PROVE  IInv' /\ t' = t + 1 /\ history'[t'] = kept
<1>1. /\ HistoryInv' /\ t' = t + 1 /\ rule' = rule /\ t \in Nat
      /\ DOMAIN history = 1..t /\ DOMAIN history' = 1..t + 1
      /\ \A i \in 1..t : history'[i] = history[i]
      /\ history'[t + 1] = kept
  BY HistoryGrows DEF IInv, Turned, HistoryInv
<1>2. StreamInv'
  BY StreamStep DEF IInv
<1>3. PayInv'
  BY PayStep DEF IInv
<1>4. BundlesAreKeptTogether'
  <2> SUFFICES ASSUME rule = "bundle_consistent", NEW i \in 1..t + 1
               PROVE  IsKeptTogether(history'[i])
    BY <1>1 DEF BundlesAreKeptTogether, IsKeptTogether
  <2>1. CASE i \in 1..t
    BY <1>1, <2>1 DEF IInv, BundlesAreKeptTogether
  <2>2. CASE i = t + 1
    BY <1>1, <2>2
  <2> QED BY <1>1, <2>1, <2>2
<1> QED BY <1>1, <1>2, <1>3, <1>4 DEF IInv

LEMMA FullInv ==
  ASSUME IInv, NEW bundle \in Bundles, FullBlock(bundle)
  PROVE  /\ IInv' /\ t' = t + 1
         /\ history'[t'].used = inclusion(bundle).used
<1>1. PICK row, kept : IsFullTurn(bundle, row, kept)
  BY FullTurn DEF IInv
<1>2. FeesInv'
  BY FullTurn DEF IInv
<1>3. /\ Turned(row, kept) /\ kept.used = inclusion(bundle).used
      /\ kept.components = inclusion(bundle).components
      /\ kept.offered = batch_offered(bundle) /\ kept.bundle = bundle
  BY <1>1 DEF IsFullTurn
<1>4. ASSUME rule = "bundle_consistent"
      PROVE  IsKeptTogether(kept)
  <2>1. inclusion(bundle) = bundle_consistent(bundle)
    BY <1>4 DEF inclusion
  <2> QED BY <1>3, <2>1, KeptTogether
<1>5. IInv' /\ t' = t + 1 /\ history'[t'] = kept
  BY <1>2, <1>3, <1>4, TurnInv
<1> QED BY <1>3, <1>5

LEMMA GlamsterdamInv ==
  ASSUME IInv, NEW bundle \in Bundles, NEW error \in Roundings, GlamsterdamBlock(bundle, error)
  PROVE  /\ IInv' /\ t' = t + 1
         /\ \A r \in RESOURCES :
              /\ history'[t'].used["data"] \in Nat
              /\ fees'[r] = update_base_fee_1559(fees[r], history'[t'].used["data"],
                                                 gas_target, error)
<1>1. rule = "glamsterdam" /\ FeesInv'
  BY GlamsterdamTurn DEF IInv
<1>2. PICK row, kept :
        /\ Turned(row, kept)
        /\ \A r \in RESOURCES :
             fees'[r] = update_base_fee_1559(fees[r], kept.used["data"], gas_target, error)
  BY GlamsterdamTurn DEF IInv
<1>3. IInv' /\ t' = t + 1 /\ history'[t'] = kept
  BY <1>1, <1>2, TurnInv
<1>4. kept.used["data"] \in Nat
  BY <1>2 DEF Turned, IsRow, RESOURCES
<1> QED BY <1>2, <1>3, <1>4

\* Without a turn nothing changes.
LEMMA StutterInv ==
  ASSUME IInv, UNCHANGED vars
  PROVE  IInv' /\ t' = t
<1>1. /\ t' = t /\ rule' = rule /\ history' = history /\ summary' = summary
      /\ fees' = fees /\ excess' = excess /\ binding' = binding
  BY DEF vars
<1>2. HistoryInv'
  BY <1>1 DEF IInv, HistoryInv
<1>3. StreamInv'
  BY <1>1 DEF IInv, StreamInv, Streamed, floors, full, full_somewhere, capped_blocks,
              rationed_gas, used_gas
<1>4. FeesInv'
  BY <1>1 DEF IInv, FeesInv
<1>5. PayInv'
  BY <1>1 DEF IInv, PayInv, measured_from, burns, fees_charged, charged_sub_eight
<1>6. BundlesAreKeptTogether'
  BY <1>1 DEF IInv, BundlesAreKeptTogether
<1> QED BY <1>1, <1>2, <1>3, <1>4, <1>5, <1>6 DEF IInv

LEMMA NextInv == IInv /\ [Next]_vars => IInv'
<1> SUFFICES ASSUME IInv, [Next]_vars PROVE IInv'
  OBVIOUS
<1>1. CASE \E bundle \in Bundles : FullBlock(bundle)
  BY <1>1, FullInv
<1>2. CASE \E bundle \in Bundles, error \in Roundings : GlamsterdamBlock(bundle, error)
  BY <1>2, GlamsterdamInv
<1>3. CASE UNCHANGED vars
  BY <1>3, StutterInv
<1> QED BY <1>1, <1>2, <1>3 DEF Next, Ended

\* What a replay keeps of its past and its fees holds of every state.
THEOREM BatchInvariant == Spec => []IInv
<1>1. Init => IInv
  BY InitInv
<1>2. IInv /\ [Next]_vars => IInv'
  BY NextInv
<1> QED BY <1>1, <1>2, PTL DEF Spec

\* What OnlineSummary keeps of a replay is what all its measured blocks say.
THEOREM StreamHolds == Spec => []StreamIsHistory
<1>1. IInv => StreamIsHistory
  BY DEF IInv, StreamInv, Streamed, AreRuns, StreamIsHistory
<1> QED BY <1>1, BatchInvariant, PTL

\* The burn is at the fees charged, and the fee statistics are those of the
\* block after.
THEOREM FeesInForceHold == Spec => []BlocksPayTheFeesInForce
<1>1. IInv => BlocksPayTheFeesInForce
  <2> SUFFICES ASSUME IInv, t > burn_in PROVE BlocksPayTheFeesInForce
    BY DEF BlocksPayTheFeesInForce
  <2> DEFINE first == history[burn_in + 1].previous_fees
  <2>1. /\ measured_from = first /\ burn_in \in Nat /\ t \in Nat
        /\ IsRow(history[burn_in + 1])
    BY BatchAssumption DEF IInv, HistoryInv, measured_from
  <2>2. ASSUME NEW r \in RESOURCES
        PROVE  /\ summary.burn_wei[r] = Total(t, burns(r))
               /\ summary.fee[r] = Total(t, fees_charged(r)) + fees[r] - first[r]
               /\ summary.fee_return[r] = fees[r] - first[r]
               /\ \A i \in burn_in + 2..t :
                    history[i].previous_fees[r] = history[i - 1].fees[r]
    <3>1. Total(t, fees_charged(r)) \in Int /\ fees[r] \in Int /\ first[r] \in Int
      <4>1. fees_charged(r) \in [1..t -> Int]
        BY DEF IInv, HistoryInv, IsRow, fees_charged
      <4>2. Total(t, fees_charged(r)) \in Int
        BY <2>1, <4>1, TotalIs DEF IsSum
      <4> QED BY <2>1, <4>2 DEF IInv, FeesInv, IsRow
    <3>2. summary.fee[r] = Total(t, fees_charged(r)) + fees[r] - first[r]
      BY <2>1, <3>1 DEF IInv, PayInv
    <3>3. \A i \in burn_in + 2..t : i \in 2..t
      BY <2>1
    <3> QED BY <2>1, <3>2, <3>3 DEF IInv, PayInv
  <2>3. ASSUME rule = "glamsterdam"
        PROVE  binding.sub_eight = Counts(t, charged_sub_eight)
                                     + one(fees["data"] < 8) - one(first["data"] < 8)
    <3>1. IsFiniteSet({i \in burn_in + 1..t : charged_sub_eight[i]})
      <4>1. IsFiniteSet(burn_in + 1..t)
        BY <2>1, FS_Interval
      <4> QED BY <4>1, FS_Subset
    <3>2. Counts(t, charged_sub_eight) \in Int
      BY <3>1, FS_CardinalityType DEF Counts
    <3>3. one(fees["data"] < 8) \in Int /\ one(first["data"] < 8) \in Int
      BY DEF one
    <3>4. binding.sub_eight = Counts(t, charged_sub_eight)
                                + (one(fees["data"] < 8) - one(first["data"] < 8))
      BY <2>1, <2>3 DEF IInv, PayInv
    <3> QED BY <3>2, <3>3, <3>4
  <2> QED BY <2>2, <2>3 DEF BlocksPayTheFeesInForce
<1> QED BY <1>1, BatchInvariant, PTL

\* What the vectorised inclusion takes is what ParentBALConsistentCaps takes.
THEOREM BundlesStayTogether == Spec => []BundlesAreKeptTogether
<1>1. IInv => BundlesAreKeptTogether
  BY DEF IInv
<1> QED BY <1>1, BatchInvariant, PTL

\* The batched normalised updater is the scalar one, and the batched EIP-1559
\* one is but for its rounding.
THEOREM BatchMovesAlike == Spec => MovesAsTheReference
<1> DEFINE used == history'[t'].used
           alike(r) ==
             IF rule = "glamsterdam"
             THEN FollowsReference(fees[r], fees'[r], used["data"], gas_target)
             ELSE IF excess[r].launch = 1
             THEN excess'[r] = [launch |-> 1,
                                moved |-> reference(excess[r].moved, used[r], r)]
             ELSE excess'[r].launch # 1 =>
                    excess'[r].moved - excess[r].moved
                      = reference(high(r), used[r], r) - high(r)
           Alike == t' > t => \A r \in RESOURCES : alike(r)
<1>1. ASSUME IInv, [Next]_vars
      PROVE  Alike
  <2> SUFFICES ASSUME t' > t, NEW r \in RESOURCES PROVE alike(r)
    OBVIOUS
  <2>1. ASSUME NEW bundle \in Bundles, FullBlock(bundle)
        PROVE  alike(r)
    <3>1. /\ rule # "glamsterdam"
          /\ inclusion(bundle).used[r] \in Nat
          /\ excess'[r] = update_excess_gas(excess[r], inclusion(bundle).used[r],
                                            targets[r], denominators[r])
      BY <1>1, <2>1, FullTurn DEF IInv
    <3>2. used = inclusion(bundle).used
      BY <1>1, <2>1, FullInv
    <3>3. /\ excess[r] \in Excess
          /\ excess[r].launch = 1 => excess[r].moved >= 0
      BY <1>1 DEF IInv, FeesInv
    <3> HIDE DEF used
    <3> DEFINE gas == used[r]
               next == update_excess_gas(excess[r], gas, targets[r], denominators[r])
    <3>4. IF excess[r].launch = 1
          THEN next = [launch |-> 1, moved |-> reference(excess[r].moved, gas, r)]
          ELSE next.launch # 1 =>
                 next.moved - excess[r].moved = reference(high(r), gas, r) - high(r)
      <4>1. gas \in Nat
        BY <3>1, <3>2
      <4> HIDE DEF gas
      <4> QED BY <3>3, <4>1, MovedAlike
    <3>5. excess'[r] = next
      BY <3>1, <3>2
    <3> HIDE DEF next
    <3> QED BY <3>1, <3>4, <3>5
  <2>2. ASSUME NEW bundle \in Bundles, NEW error \in Roundings,
               GlamsterdamBlock(bundle, error)
        PROVE  alike(r)
    <3>1. rule = "glamsterdam"
      BY <1>1, <2>2, GlamsterdamTurn DEF IInv
    <3>2. used["data"] \in Nat
          /\ fees'[r] = update_base_fee_1559(fees[r], used["data"], gas_target, error)
      BY <1>1, <2>2, GlamsterdamInv
    <3>3. fees[r] \in Nat \ {0} /\ gas_target \in Nat \ {0}
      BY <1>1, BatchAssumption DEF IInv, FeesInv
    <3> HIDE DEF used
    <3>4. FollowsReference(fees[r], fees'[r], used["data"], gas_target)
      BY <3>2, <3>3, LinearUpdate
    <3> QED BY <3>1, <3>4
  <2>3. ASSUME UNCHANGED vars
        PROVE  FALSE
    <3>1. t' = t /\ t \in Nat
      BY <1>1, <2>3, StutterInv DEF IInv, HistoryInv
    <3> QED BY <3>1
  <2> HIDE DEF alike
  <2> QED BY <1>1, <2>1, <2>2, <2>3 DEF Next, Ended
<1>2. IInv /\ [Next]_vars => [Alike]_vars
  BY <1>1
<1> HIDE DEF Alike
<1>3. Spec => [][Alike]_vars
  BY <1>2, BatchInvariant, PTL DEF Spec
<1> QED BY <1>3 DEF MovesAsTheReference, Alike
=============================================================================
