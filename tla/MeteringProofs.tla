---------------------------- MODULE MeteringProofs ----------------------------
(***************************************************************************)
(* The metering paths.  The arithmetic comes first, for every count: the   *)
(* attribution of runtime bytes is never refused, the query's closed form  *)
(* has the solutions of the enumeration, the gas before a capped refund is *)
(* recovered to one gas, and the accountings of a receipt agree.  Then the *)
(* executions of MeteredBlock, whatever the scenario: sums over finite sets*)
(* do not depend on their order, and the invariant BlockInv keeps a ledger *)
(* of each transaction (its refunds are the resets and the slots cleared,  *)
(* and the gas of its operations covers them), from which the properties of*)
(* its runs on refunds and receipts follow.  Last, the access list: the    *)
(* invariant ChainInv says that every transaction starts in the world the  *)
(* one before it left, leaves alone what it did not touch, and moves only  *)
(* the fee when it fails, and that the withdrawals credit what the last one*)
(* left; by it the entries of a list, replayed over the parent, give every *)
(* field of every account after every transaction.  By it also the counts  *)
(* of a block add up: sums over the transactions are running totals, a     *)
(* union of sets that are apart counts what they count, and the bytes are  *)
(* linear; the invariant GrowthInv says that only a create makes a contract *)
(* and that what is at the address it makes stays there.                   *)
(***************************************************************************)
EXTENDS MeteredBlock, FeeMathProofs, FiniteSetTheorems, SequenceTheorems

-----------------------------------------------------------------------------
(* Runtime bytes.                                                          *)

\* The six counts of a transaction that are compared with its state creation.
LEMMA CountTypes ==
  ASSUME NEW n \in RuntimeCounts, NEW s \in StateCreation
  PROVE  /\ n.cold_account_accesses \in Nat /\ n.cold_storage_accesses \in Nat
         /\ n.storage_value_entries_observed \in Nat /\ n.positive_value_calls \in Nat
         /\ n.positive_value_selfdestructs \in Nat /\ n.internal_creates \in Nat
         /\ n.internal_create_endowments \in Nat
         /\ n.internal_deployed_code_bytes \in Nat
         /\ s.new_storage_slots \in Nat /\ s.new_accounts \in Nat
         /\ s.code_bytes \in Nat /\ s.new_delegation_indicators \in Nat
  BY DEF RuntimeCounts, StateCreation

\* least is the smaller one.
LEMMA LeastIs ==
  ASSUME NEW x \in Nat, NEW y \in Nat
  PROVE  least(x, y) \in Nat /\ least(x, y) <= x /\ least(x, y) <= y
  BY DEF least

\* What is matched is bounded by what was created and by what was metered.
LEMMA MatchedBounds ==
  ASSUME NEW n \in RuntimeCounts, NEW s \in StateCreation
  PROVE  /\ matched_create_accounts(n, s) \in Nat
         /\ matched_create_accounts(n, s) <= s.new_accounts
         /\ matched_create_accounts(n, s) <= n.internal_creates
         /\ matched_account_accesses(n, s) \in Nat
         /\ matched_account_accesses(n, s) <= n.cold_account_accesses
         /\ matched_create_accounts(n, s) + matched_account_accesses(n, s) <= s.new_accounts
         /\ matched_new_account_balances(n, s) \in Nat
         /\ matched_new_account_balances(n, s)
              <= n.positive_value_calls + n.positive_value_selfdestructs
         /\ matched_new_account_balances(n, s) <= s.new_accounts
         /\ matched_create_endowments(n, s) \in Nat
         /\ matched_create_endowments(n, s) <= n.internal_create_endowments
         /\ matched_create_endowments(n, s) <= s.new_accounts
  <1>1. /\ matched_create_accounts(n, s) \in Nat
        /\ matched_create_accounts(n, s) <= s.new_accounts
        /\ matched_create_accounts(n, s) <= n.internal_creates
    BY CountTypes, LeastIs DEF matched_create_accounts
  <1>2. /\ remaining_new_accounts(n, s) \in Nat
        /\ remaining_new_accounts(n, s) = s.new_accounts - matched_create_accounts(n, s)
    BY <1>1, CountTypes DEF remaining_new_accounts
  <1>3. /\ matched_account_accesses(n, s) \in Nat
        /\ matched_account_accesses(n, s) <= remaining_new_accounts(n, s)
        /\ matched_account_accesses(n, s) <= n.cold_account_accesses
    BY <1>2, CountTypes, LeastIs DEF matched_account_accesses
  <1>4. n.positive_value_calls + n.positive_value_selfdestructs \in Nat
    BY CountTypes
  <1>5. /\ matched_new_account_balances(n, s) \in Nat
        /\ matched_new_account_balances(n, s) <= remaining_new_accounts(n, s)
        /\ matched_new_account_balances(n, s)
             <= n.positive_value_calls + n.positive_value_selfdestructs
    BY <1>2, <1>4, LeastIs DEF matched_new_account_balances
  <1>6. /\ matched_create_endowments(n, s) \in Nat
        /\ matched_create_endowments(n, s) <= matched_create_accounts(n, s)
        /\ matched_create_endowments(n, s) <= n.internal_create_endowments
    BY <1>1, CountTypes, LeastIs DEF matched_create_endowments
  <1> QED
    BY <1>1, <1>2, <1>3, <1>5, <1>6, CountTypes

\* An account that a create explains is not explained by an access as well:
\* together they never explain more accounts than are new.
THEOREM CreatedOnce ==
  ASSUME NEW n \in RuntimeCounts, NEW s \in StateCreation
  PROVE  matched_create_accounts(n, s) + matched_account_accesses(n, s) <= s.new_accounts
  BY MatchedBounds

\* Of every component no more bytes are direct than were metered.
LEMMA DirectWithinMetered ==
  ASSUME NEW n \in RuntimeCounts, NEW s \in StateCreation
  PROVE  LET d == direct_state(n, s)
             b == compute_eip8279_runtime_bytes(n)
         IN  \A c \in RUNTIME_COMPONENTS : d[c] \in Nat /\ b[c] \in Nat /\ d[c] <= b[c]
  <1> DEFINE d == direct_state(n, s)
             b == compute_eip8279_runtime_bytes(n)
  <1> USE DEF BAL_BYTES_PER_STORAGE_KEY, BAL_BYTES_PER_STORAGE_VALUE,
              BAL_BYTES_PER_ADDRESS, BAL_BYTES_PER_NONCE, BAL_BYTES_PER_BALANCE
  <1>1. ASSUME NEW x \in Nat, NEW y \in Nat, x <= y
        PROVE  /\ 32 * x \in Nat /\ 32 * y \in Nat /\ 32 * x <= 32 * y
               /\ 20 * x \in Nat /\ 20 * y \in Nat /\ 20 * x <= 20 * y
               /\ 8 * x \in Nat /\ 8 * y \in Nat /\ 8 * x <= 8 * y
    BY <1>1
  <1>2. /\ d.storage_key \in Nat /\ b.storage_key \in Nat /\ d.storage_key <= b.storage_key
    <2>1. LET m == least(s.new_storage_slots, n.cold_storage_accesses)
          IN  m \in Nat /\ m <= n.cold_storage_accesses
      BY CountTypes, LeastIs
    <2>2. /\ d.storage_key = 32 * least(s.new_storage_slots, n.cold_storage_accesses)
          /\ b.storage_key = 32 * n.cold_storage_accesses
      BY DEF direct_state, compute_eip8279_runtime_bytes
    <2> QED
      BY <1>1, <2>1, <2>2, CountTypes
  <1>3. /\ d.storage_value \in Nat /\ b.storage_value \in Nat
        /\ d.storage_value <= b.storage_value
    <2>1. LET m == least(s.new_storage_slots, n.storage_value_entries_observed)
          IN  m \in Nat /\ m <= n.storage_value_entries_observed
      BY CountTypes, LeastIs
    <2>2. /\ d.storage_value
               = 32 * least(s.new_storage_slots, n.storage_value_entries_observed)
          /\ b.storage_value = 32 * n.storage_value_entries_observed
      BY DEF direct_state, compute_eip8279_runtime_bytes
    <2> QED
      BY <1>1, <2>1, <2>2, CountTypes
  <1>4. /\ d.deployed_code \in Nat /\ b.deployed_code \in Nat
        /\ d.deployed_code <= b.deployed_code
    <2>1. /\ d.deployed_code = least(s.code_bytes, n.internal_deployed_code_bytes)
          /\ b.deployed_code = n.internal_deployed_code_bytes
      BY DEF direct_state, compute_eip8279_runtime_bytes
    <2>2. LET m == least(s.code_bytes, n.internal_deployed_code_bytes)
          IN  m \in Nat /\ m <= n.internal_deployed_code_bytes
      BY CountTypes, LeastIs
    <2> QED
      BY <2>1, <2>2, CountTypes
  <1>5. /\ d.account_access \in Nat /\ b.account_access \in Nat
        /\ d.account_access <= b.account_access
    <2>1. /\ d.account_access = 20 * matched_account_accesses(n, s)
          /\ b.account_access = 20 * n.cold_account_accesses
      BY DEF direct_state, compute_eip8279_runtime_bytes
    <2> QED
      BY <1>1, <2>1, CountTypes, MatchedBounds
  <1>6. /\ d.contract_creation \in Nat /\ b.contract_creation \in Nat
        /\ d.contract_creation <= b.contract_creation
    <2>1. /\ d.contract_creation = 20 * matched_create_accounts(n, s)
                                     + 8 * matched_create_accounts(n, s)
          /\ b.contract_creation = 20 * n.internal_creates + 8 * n.internal_creates
      BY DEF direct_state, compute_eip8279_runtime_bytes
    <2> QED
      BY <1>1, <2>1, CountTypes, MatchedBounds
  <1>7. /\ d.value_transfer \in Nat /\ b.value_transfer \in Nat
        /\ d.value_transfer <= b.value_transfer
    <2>1. /\ d.value_transfer = 32 * matched_new_account_balances(n, s)
                                  + 32 * matched_create_endowments(n, s)
          /\ b.value_transfer = 32 * n.positive_value_calls
               + 32 * n.positive_value_selfdestructs + 32 * n.internal_create_endowments
      BY DEF direct_state, compute_eip8279_runtime_bytes
    <2>2. 32 * (n.positive_value_calls + n.positive_value_selfdestructs)
            = 32 * n.positive_value_calls + 32 * n.positive_value_selfdestructs
      BY CountTypes
    <2> QED
      BY <2>1, <2>2, CountTypes, MatchedBounds
  <1> QED
    BY <1>2, <1>3, <1>4, <1>5, <1>6, <1>7 DEF RUNTIME_COMPONENTS

\* A transaction outside of every bundle created nothing, and none of its bytes
\* are direct.
LEMMA NothingDirectOutside ==
  ASSUME NEW n \in RuntimeCounts, NEW s \in StateCreation, ~state_bundle(s)
  PROVE  \A c \in RUNTIME_COMPONENTS : direct_state(n, s)[c] = 0
  <1>1. s.new_storage_slots = 0 /\ s.new_accounts = 0 /\ s.code_bytes = 0
    <2> DEFINE w == s.new_storage_slots
               x == s.new_accounts
               y == s.code_bytes
               z == s.new_delegation_indicators
    <2>1. w \in Nat /\ x \in Nat /\ y \in Nat /\ z \in Nat
      BY CountTypes
    <2>2. ~(20000 * w + 25000 * x + 200 * y + 12500 * z > 0)
      BY DEF state_bundle, historical_state_creation_gas
    <2>3. w = 0 /\ x = 0 /\ y = 0
      <3> HIDE DEF w, x, y, z
      <3> QED
        BY <2>1, <2>2
    <2> QED
      BY <2>3
  <1>2. /\ least(s.new_storage_slots, n.cold_storage_accesses) = 0
        /\ least(s.new_storage_slots, n.storage_value_entries_observed) = 0
        /\ least(s.code_bytes, n.internal_deployed_code_bytes) = 0
    BY <1>1, CountTypes DEF least
  <1>3. /\ matched_create_accounts(n, s) = 0 /\ matched_account_accesses(n, s) = 0
        /\ matched_new_account_balances(n, s) = 0 /\ matched_create_endowments(n, s) = 0
    BY <1>1, MatchedBounds
  <1> QED
    BY <1>2, <1>3
    DEF direct_state, RUNTIME_COMPONENTS, BAL_BYTES_PER_STORAGE_KEY,
        BAL_BYTES_PER_STORAGE_VALUE, BAL_BYTES_PER_ADDRESS, BAL_BYTES_PER_NONCE,
        BAL_BYTES_PER_BALANCE

\* A sum of components is a natural number, and monotone.
LEMMA ComponentSums ==
  ASSUME NEW d, NEW b,
         \A c \in RUNTIME_COMPONENTS : d[c] \in Nat /\ b[c] \in Nat /\ d[c] <= b[c]
  PROVE  /\ component_sum(d) \in Nat /\ component_sum(b) \in Nat
         /\ component_sum(d) <= component_sum(b)
  <1>1. /\ d.storage_key \in Nat /\ b.storage_key \in Nat /\ d.storage_key <= b.storage_key
        /\ d.storage_value \in Nat /\ b.storage_value \in Nat
        /\ d.storage_value <= b.storage_value
        /\ d.account_access \in Nat /\ b.account_access \in Nat
        /\ d.account_access <= b.account_access
        /\ d.value_transfer \in Nat /\ b.value_transfer \in Nat
        /\ d.value_transfer <= b.value_transfer
        /\ d.contract_creation \in Nat /\ b.contract_creation \in Nat
        /\ d.contract_creation <= b.contract_creation
        /\ d.deployed_code \in Nat /\ b.deployed_code \in Nat
        /\ d.deployed_code <= b.deployed_code
    BY DEF RUNTIME_COMPONENTS
  <1> QED
    BY <1>1 DEF component_sum

\* The attribution of a transaction is never refused, whatever was counted of
\* it in the trace tables and whatever the diff tables say it created.
THEOREM AttributionNeverRefused ==
  ASSUME NEW n \in RuntimeCounts, NEW s \in StateCreation
  PROVE  ~refused(n, s)
  <1> DEFINE d == direct_state(n, s)
             b == compute_eip8279_runtime_bytes(n)
  <1>1. \A c \in RUNTIME_COMPONENTS : d[c] \in Nat /\ b[c] \in Nat /\ d[c] <= b[c]
    BY DirectWithinMetered
  <1>2. /\ component_sum(d) \in Nat /\ component_sum(b) \in Nat
        /\ component_sum(d) <= component_sum(b)
    BY <1>1, ComponentSums
  <1>3. ~state_bundle(s) => \A c \in RUNTIME_COMPONENTS : d[c] = 0
    BY NothingDirectOutside
  <1>4. ~state_bundle(s) => component_sum(d) = 0
    BY <1>3 DEF component_sum, RUNTIME_COMPONENTS
  <1>5. in_bundle(s, component_sum(b)) - component_sum(d) >= 0
    BY <1>2, <1>4 DEF in_bundle
  <1>6. ASSUME NEW c \in RUNTIME_COMPONENTS
        PROVE  in_bundle(s, b[c]) - d[c] >= 0
    BY <1>1, <1>3 DEF in_bundle
  <1>7. attribute_direct_state_runtime_bytes(n, s).parts.coproduced
          = in_bundle(s, component_sum(b)) - component_sum(d)
    BY DEF attribute_direct_state_runtime_bytes, three_way, bal_runtime_bytes
  <1>8. ASSUME NEW c \in RUNTIME_COMPONENTS
        PROVE  component_splits(n, s)[c].coproduced = in_bundle(s, b[c]) - d[c]
    <2>1. component_splits(n, s)[c] = three_way(b[c], d[c], s)
      BY DEF component_splits
    <2> QED
      BY <2>1 DEF three_way
  <1>9. ASSUME NEW x \in Int, x >= 0 PROVE ~(x < 0)
    BY <1>9
  <1>10. /\ in_bundle(s, component_sum(b)) - component_sum(d) \in Int
         /\ \A c \in RUNTIME_COMPONENTS : in_bundle(s, b[c]) - d[c] \in Int
    BY <1>1, <1>2 DEF in_bundle
  <1> QED
    BY <1>5, <1>6, <1>7, <1>8, <1>9, <1>10 DEF refused

\* The three parts of a transaction's bytes are natural numbers and add up to
\* them.
THEOREM PartsAddUp ==
  ASSUME NEW n \in RuntimeCounts, NEW s \in StateCreation
  PROVE  LET a == attribute_direct_state_runtime_bytes(n, s)
         IN  /\ a.parts.direct \in Nat /\ a.parts.coproduced \in Nat
             /\ a.parts.nonstate \in Nat
             /\ a.parts.direct + a.parts.coproduced + a.parts.nonstate = a.total
  <1> DEFINE d == direct_state(n, s)
             b == compute_eip8279_runtime_bytes(n)
             a == attribute_direct_state_runtime_bytes(n, s)
  <1>1. \A c \in RUNTIME_COMPONENTS : d[c] \in Nat /\ b[c] \in Nat /\ d[c] <= b[c]
    BY DirectWithinMetered
  <1>2. /\ component_sum(d) \in Nat /\ component_sum(b) \in Nat
        /\ component_sum(d) <= component_sum(b)
    BY <1>1, ComponentSums
  <1>3. ~state_bundle(s) => component_sum(d) = 0
    BY NothingDirectOutside DEF component_sum, RUNTIME_COMPONENTS
  <1>4. /\ a.total = component_sum(b)
        /\ a.parts.direct = component_sum(d)
        /\ a.parts.coproduced = in_bundle(s, component_sum(b)) - component_sum(d)
        /\ a.parts.nonstate = component_sum(b) - in_bundle(s, component_sum(b))
    BY DEF attribute_direct_state_runtime_bytes, three_way, bal_runtime_bytes
  <1>5. \/ in_bundle(s, component_sum(b)) = component_sum(b)
        \/ in_bundle(s, component_sum(b)) = 0 /\ component_sum(d) = 0
    BY <1>3 DEF in_bundle
  <1> QED
    BY <1>2, <1>4, <1>5

-----------------------------------------------------------------------------
(* Refunds.                                                                *)

\* The base of the closed form, through the quotient of its division by 28.
base_by_quotient(units, q) ==
  /\ zero_reset_base(units) = 19 * units - 28 * q
  /\ zero_reset_base(units) \in 0..27
  /\ nonzero_reset_base(units) = 199 * q - 135 * units

LEMMA BaseQuotient ==
  ASSUME NEW units \in Nat
  PROVE  \E q \in Nat : base_by_quotient(units, q)
  <1> DEFINE q == (19 * units) \div 28
  <1>1. /\ q \in Nat
        /\ (19 * units) % 28 = 19 * units - 28 * q
        /\ (19 * units) % 28 \in 0..27
    OBVIOUS
  <1>2. units - 199 * (19 * units - 28 * q) = 28 * (199 * q - 135 * units)
    BY <1>1
  <1>3. (28 * (199 * q - 135 * units)) \div 28 = 199 * q - 135 * units
    <2>1. 199 * q - 135 * units \in Int
      BY <1>1
    <2> HIDE DEF q
    <2>2. ASSUME NEW x \in Int PROVE (28 * x) \div 28 = x
      OBVIOUS
    <2> QED
      BY <2>1, <2>2
  <1> QED
    BY <1>1, <1>2, <1>3 DEF base_by_quotient, zero_reset_base, nonzero_reset_base

\* The base with some 199 nonzero resets given for 28 zero ones.
steps_from_base(units, zero, nonzero) ==
  \E k \in Nat : /\ zero = zero_reset_base(units) + 28 * k
                /\ nonzero = nonzero_reset_base(units) - 199 * k

\* Every solution is some steps from the base.
LEMMA SolutionStepsFromBase ==
  ASSUME NEW units \in Nat, NEW zero \in Nat, NEW nonzero \in Nat,
         199 * zero + 28 * nonzero = units
  PROVE  steps_from_base(units, zero, nonzero)
  <1>0. PICK q \in Nat : base_by_quotient(units, q)
    BY BaseQuotient
  <1>1. /\ zero_reset_base(units) = 19 * units - 28 * q
        /\ zero_reset_base(units) \in 0..27
        /\ nonzero_reset_base(units) = 199 * q - 135 * units
    BY <1>0 DEF base_by_quotient
  <1> DEFINE k == q - 135 * zero - 19 * nonzero
  <1>2. k \in Int
    OBVIOUS
  <1>3. zero = zero_reset_base(units) + 28 * k
    BY <1>1
  <1>4. nonzero = nonzero_reset_base(units) - 199 * k
    BY <1>1
  <1>5. k \in Nat
    BY <1>1, <1>2, <1>3
  <1> QED
    BY <1>3, <1>4, <1>5 DEF steps_from_base

\* And each of these solves the equation.
LEMMA StepsSolve ==
  ASSUME NEW units \in Nat, NEW k \in Nat
  PROVE  199 * (zero_reset_base(units) + 28 * k)
           + 28 * (nonzero_reset_base(units) - 199 * k) = units
  BY BaseQuotient DEF base_by_quotient

\* Steps from the base that keep the nonzero resets and the budget.
LEMMA StepBounds ==
  ASSUME NEW units \in Nat, NEW budget \in Nat, NEW k \in Nat
  PROVE  /\ nonzero_reset_base(units) - 199 * k >= 0
              <=> nonzero_reset_base(units) >= 0 /\ k <= k_max(units)
         /\ reset_sum_base(units) - 171 * k <= budget <=> k_min(units, budget) <= k
  <1>0. PICK q \in Nat : base_by_quotient(units, q)
    BY BaseQuotient
  <1>1. /\ zero_reset_base(units) = 19 * units - 28 * q
        /\ zero_reset_base(units) \in 0..27
        /\ nonzero_reset_base(units) = 199 * q - 135 * units
    BY <1>0 DEF base_by_quotient
  <1>2. nonzero_reset_base(units) \in Int /\ reset_sum_base(units) \in Int
    BY <1>1 DEF reset_sum_base
  <1>3. ASSUME NEW n \in Int
        PROVE  n - 199 * k >= 0 <=> n >= 0 /\ k <= n \div 199
    OBVIOUS
  <1>4. ASSUME NEW s \in Int, s > budget
        PROVE  s - 171 * k <= budget <=> (s - budget + 170) \div 171 <= k
    BY <1>4
  <1>5. ASSUME NEW s \in Int, ~(s > budget)
        PROVE  s - 171 * k <= budget /\ 0 <= k
    BY <1>5
  <1> QED
    BY <1>2, <1>3, <1>4, <1>5 DEF k_max, k_min

\* A solution is one of the enumeration exactly when it solves the equation.
LEMMA SolutionIs ==
  ASSUME NEW row \in RefundRow
  PROVE  /\ \A s \in solutions(row) :
              /\ s.auth \in auth_candidates(row) /\ s.zero \in Nat /\ s.nonzero \in Nat
              /\ solves(row, s.auth, s.zero, s.nonzero)
         /\ \A auth \in auth_candidates(row), zero, nonzero \in Nat :
              solves(row, auth, zero, nonzero)
                => [auth |-> auth, zero |-> zero, nonzero |-> nonzero] \in solutions(row)
  <1> DEFINE rest(auth, z) == (sstore_refund(row, auth) - 19900 * z) \div 2800
  <1>1. ASSUME NEW auth \in auth_candidates(row) PROVE sstore_refund(row, auth) \in Int
    <2>1. auth \in Int
      BY DEF auth_candidates
    <2> QED
      BY <2>1 DEF sstore_refund, residual, RefundRow
  <1>2. ASSUME NEW s \in solutions(row)
        PROVE  /\ s.auth \in auth_candidates(row) /\ s.zero \in Nat /\ s.nonzero \in Nat
               /\ solves(row, s.auth, s.zero, s.nonzero)
    <2>1. PICK auth \in auth_candidates(row) :
            \E z \in 0 .. (sstore_refund(row, auth) \div 19900) :
              /\ solves(row, auth, z, rest(auth, z))
              /\ s = [auth |-> auth, zero |-> z, nonzero |-> rest(auth, z)]
      BY DEF solutions
    <2>2. PICK z \in 0 .. (sstore_refund(row, auth) \div 19900) :
              /\ solves(row, auth, z, rest(auth, z))
              /\ s = [auth |-> auth, zero |-> z, nonzero |-> rest(auth, z)]
      BY <2>1
    <2>3. z \in Nat /\ rest(auth, z) \in Nat
      <3>1. ASSUME NEW r \in Int, NEW w \in 0 .. (r \div 19900)
            PROVE  w \in Nat /\ (r - 19900 * w) \div 2800 \in Nat
        OBVIOUS
      <3> QED
        BY <1>1, <3>1
    <2> HIDE DEF rest
    <2> QED
      BY <2>2, <2>3
  <1>3. ASSUME NEW auth \in auth_candidates(row), NEW zero \in Nat, NEW nonzero \in Nat,
               solves(row, auth, zero, nonzero)
        PROVE  [auth |-> auth, zero |-> zero, nonzero |-> nonzero] \in solutions(row)
    <2>1. zero \in 0 .. (sstore_refund(row, auth) \div 19900) /\ rest(auth, zero) = nonzero
      <3>1. ASSUME NEW r \in Int, 19900 * zero + 2800 * nonzero = r
            PROVE  zero \in 0 .. (r \div 19900) /\ (r - 19900 * zero) \div 2800 = nonzero
        BY <3>1
      <3> DEFINE refund == sstore_refund(row, auth)
      <3>2. 19900 * zero + 2800 * nonzero = refund /\ refund \in Int
        BY <1>1, <1>3 DEF solves
      <3> HIDE DEF refund
      <3>3. zero \in 0 .. (refund \div 19900) /\ (refund - 19900 * zero) \div 2800 = nonzero
        BY <3>1, <3>2
      <3> QED
        BY <3>3 DEF refund
    <2>2. solves(row, auth, zero, rest(auth, zero))
      BY <1>3, <2>1
    <2>3. [auth |-> auth, zero |-> zero, nonzero |-> rest(auth, zero)] \in solutions(row)
      BY <2>1, <2>2 DEF solutions
    <2> QED
      BY <2>1, <2>3
  <1> QED
    BY <1>2, <1>3

\* What the enumeration finds, by its equation and its bound.
LEMMA SolutionsAre ==
  ASSUME NEW row \in RefundRow, NEW auth \in auth_candidates(row), NEW resets \in Int
  PROVE  resets \in {s.zero + s.nonzero : s \in {x \in solutions(row) : x.auth = auth}}
           <=> \E zero, nonzero \in Nat : /\ solves(row, auth, zero, nonzero)
                                        /\ resets = zero + nonzero
  <1> DEFINE found == {s \in solutions(row) : s.auth = auth}
  <1>1. ASSUME resets \in {s.zero + s.nonzero : s \in found}
        PROVE  \E zero, nonzero \in Nat : /\ solves(row, auth, zero, nonzero)
                                          /\ resets = zero + nonzero
    <2>1. PICK x \in found : resets = x.zero + x.nonzero
      BY <1>1
    <2> QED
      BY <2>1, SolutionIs
  <1>2. ASSUME NEW zero \in Nat, NEW nonzero \in Nat, solves(row, auth, zero, nonzero),
               resets = zero + nonzero
        PROVE  resets \in {s.zero + s.nonzero : s \in found}
    <2>1. [auth |-> auth, zero |-> zero, nonzero |-> nonzero] \in found
      BY <1>2, SolutionIs
    <2> QED
      BY <1>2, <2>1
  <1> QED
    BY <1>1, <1>2

\* What the closed form finds of the same equation, in units of 100 gas.
LEMMA ClosedFormIs ==
  ASSUME NEW units \in Nat, NEW budget \in Nat, NEW resets \in Int
  PROVE  /\ nonzero_reset_base(units) >= 0
         /\ k_min(units, budget) <= k_max(units)
         /\ resets \in reset_sums(units, budget)
         <=> \E zero, nonzero \in Nat : /\ 199 * zero + 28 * nonzero = units
                                      /\ zero + nonzero <= budget
                                      /\ resets = zero + nonzero
  <1>1. /\ zero_reset_base(units) \in Nat /\ nonzero_reset_base(units) \in Int
        /\ reset_sum_base(units) = zero_reset_base(units) + nonzero_reset_base(units)
    BY BaseQuotient DEF base_by_quotient, reset_sum_base
  <1>2. k_min(units, budget) \in Nat /\ k_max(units) \in Int
    BY <1>1 DEF k_min, k_max
  <1>3. ASSUME nonzero_reset_base(units) >= 0, resets \in reset_sums(units, budget)
        PROVE  \E zero, nonzero \in Nat : /\ 199 * zero + 28 * nonzero = units
                                          /\ zero + nonzero <= budget
                                          /\ resets = zero + nonzero
    <2>1. PICK k \in k_min(units, budget) .. k_max(units) :
             resets = reset_sum_base(units) - 171 * k
      BY <1>3 DEF reset_sums
    <2>2. k \in Nat /\ k_min(units, budget) <= k /\ k <= k_max(units)
      BY <1>2
    <2> DEFINE zero == zero_reset_base(units) + 28 * k
               nonzero == nonzero_reset_base(units) - 199 * k
    <2>3. nonzero >= 0 /\ reset_sum_base(units) - 171 * k <= budget
      <3>1. nonzero_reset_base(units) - 199 * k >= 0
        BY <1>3, <2>2, StepBounds
      <3>2. reset_sum_base(units) - 171 * k <= budget
        BY <2>2, StepBounds
      <3> QED
        BY <3>1, <3>2
    <2>4. zero \in Nat /\ nonzero \in Nat /\ zero + nonzero = resets /\ resets <= budget
      BY <1>1, <2>1, <2>2, <2>3
    <2>5. 199 * zero + 28 * nonzero = units
      BY <2>2, StepsSolve
    <2> QED
      BY <2>4, <2>5
  <1>4. ASSUME NEW zero \in Nat, NEW nonzero \in Nat, 199 * zero + 28 * nonzero = units,
               zero + nonzero <= budget, resets = zero + nonzero
        PROVE  /\ nonzero_reset_base(units) >= 0
               /\ k_min(units, budget) <= k_max(units)
               /\ resets \in reset_sums(units, budget)
    <2>1. PICK k \in Nat : /\ zero = zero_reset_base(units) + 28 * k
                           /\ nonzero = nonzero_reset_base(units) - 199 * k
      <3>1. steps_from_base(units, zero, nonzero)
        BY <1>4, SolutionStepsFromBase
      <3> QED
        BY <3>1 DEF steps_from_base
    <2>2. nonzero_reset_base(units) - 199 * k >= 0
          /\ reset_sum_base(units) - 171 * k = resets
      BY <1>1, <1>4, <2>1
    <2>3. /\ nonzero_reset_base(units) >= 0 /\ k <= k_max(units)
          /\ k_min(units, budget) <= k
      <3>1. nonzero_reset_base(units) >= 0 /\ k <= k_max(units)
        BY <2>2, StepBounds
      <3>2. reset_sum_base(units) - 171 * k <= budget
        BY <1>4, <2>2
      <3> QED
        BY <3>1, <3>2, StepBounds
    <2>4. k \in k_min(units, budget) .. k_max(units)
      BY <1>2, <2>3
    <2> QED
      BY <1>2, <2>2, <2>3, <2>4 DEF reset_sums
  <1> QED
    BY <1>3, <1>4

\* The query's closed form and the enumeration find the same numbers of resets,
\* for every refund counter, count of stores and number of authorizations.
THEOREM ClosedFormIsEnumeration ==
  ASSUME NEW row \in RefundRow, row.changed_slots <= row.sstore_count,
         NEW auth \in auth_candidates(row)
  PROVE  {s.zero + s.nonzero : s \in {x \in solutions(row) : x.auth = auth}}
           = sql_resets(row, auth)
  <1> DEFINE refund == sstore_refund(row, auth)
             units == refund_units(row, auth)
             budget == reset_budget(row)
             found == {s.zero + s.nonzero : s \in {x \in solutions(row) : x.auth = auth}}
  <1>1. refund \in Int
    <2>1. auth \in Int
      BY DEF auth_candidates
    <2> QED
      BY <2>1 DEF sstore_refund, residual, RefundRow
  <1>2. /\ budget \in Nat
        /\ \A resets \in Nat : enough_sstores(row, resets) <=> resets <= budget
    <2> DEFINE c == row.sstore_count
               g == row.changed_slots
    <2>1. c \in Nat /\ g \in Nat /\ g <= c
      BY DEF RefundRow
    <2>2. budget = (c - g) \div 2
      BY <2>1 DEF reset_budget
    <2>3. ASSUME NEW resets \in Nat PROVE g + 2 * resets <= c <=> resets <= (c - g) \div 2
      <3> HIDE DEF c, g
      <3> QED
        BY <2>1
    <2>4. (c - g) \div 2 \in Nat
      <3> HIDE DEF c, g
      <3> QED
        BY <2>1
    <2> QED
      BY <2>2, <2>3, <2>4 DEF enough_sstores
  <1>3. ASSUME NEW zero \in Nat, NEW nonzero \in Nat
        PROVE  solves(row, auth, zero, nonzero)
                 <=> /\ refund >= 0 /\ refund % 100 = 0
                     /\ 199 * zero + 28 * nonzero = units
                     /\ zero + nonzero <= budget
    <2>1. solves(row, auth, zero, nonzero)
            <=> 19900 * zero + 2800 * nonzero = refund /\ zero + nonzero <= budget
      BY <1>2 DEF solves
    <2>2. 19900 * zero + 2800 * nonzero = refund
            <=> /\ refund >= 0 /\ refund % 100 = 0
                /\ 199 * zero + 28 * nonzero = refund \div 100
      <3>1. ASSUME NEW r \in Int
            PROVE  19900 * zero + 2800 * nonzero = r
                     <=> /\ r >= 0 /\ r % 100 = 0
                         /\ 199 * zero + 28 * nonzero = r \div 100
        OBVIOUS
      <3> QED
        BY <1>1, <3>1
    <2> QED
      BY <2>1, <2>2 DEF refund_units
  <1>4. refund >= 0 => units \in Nat
    BY <1>1 DEF refund_units
  <1>5. ASSUME NEW resets \in Int PROVE resets \in found <=> resets \in sql_resets(row, auth)
    <2>1. resets \in found
            <=> \E zero, nonzero \in Nat : /\ solves(row, auth, zero, nonzero)
                                         /\ resets = zero + nonzero
      BY SolutionsAre
    <2>2. CASE ~(refund >= 0 /\ refund % 100 = 0)
      BY <1>3, <2>1, <2>2 DEF sql_resets, feasible
    <2>3. CASE refund >= 0 /\ refund % 100 = 0
      <3>1. resets \in found
              <=> \E zero, nonzero \in Nat : /\ 199 * zero + 28 * nonzero = units
                                           /\ zero + nonzero <= budget
                                           /\ resets = zero + nonzero
        BY <1>3, <2>1, <2>3
      <3>2. resets \in found
              <=> /\ nonzero_reset_base(units) >= 0
                  /\ k_min(units, budget) <= k_max(units)
                  /\ resets \in reset_sums(units, budget)
        BY <1>2, <1>4, <2>3, <3>1, ClosedFormIs
      <3> QED
        BY <2>3, <3>2 DEF sql_resets, feasible
    <2> QED
      BY <2>2, <2>3
  <1>6. ASSUME NEW resets \in found PROVE resets \in Int
    <2>1. PICK s \in {x \in solutions(row) : x.auth = auth} : resets = s.zero + s.nonzero
      OBVIOUS
    <2>2. s.zero \in Int /\ s.nonzero \in Int
      <3>1. PICK z \in 0 .. (refund \div 19900) :
              s.zero = z /\ s.nonzero = (refund - 19900 * z) \div 2800
        BY DEF solutions
      <3> QED
        BY <1>1, <3>1
    <2> QED
      BY <2>1, <2>2
  <1>7. ASSUME NEW resets \in sql_resets(row, auth) PROVE resets \in Int
    <2>1. feasible(row, auth) /\ resets \in reset_sums(units, budget)
      BY DEF sql_resets
    <2>2. units \in Nat
      BY <1>4, <2>1 DEF feasible
    <2>3. reset_sum_base(units) \in Int
      BY <2>2, BaseQuotient DEF base_by_quotient, reset_sum_base
    <2>4. PICK k \in k_min(units, budget) .. k_max(units) :
            resets = reset_sum_base(units) - 171 * k
      BY <2>1 DEF reset_sums
    <2> QED
      BY <2>3, <2>4
  <1> QED
    BY <1>5, <1>6, <1>7

\* The bounds of the closed form are integers.
LEMMA RankedUnits ==
  ASSUME NEW row \in RefundRow, NEW auth \in auth_candidates(row), feasible(row, auth)
  PROVE  LET units == refund_units(row, auth)
         IN  /\ reset_sum_base(units) \in Int /\ k_max(units) \in Int
             /\ k_min(units, reset_budget(row)) \in Int
  <1> DEFINE units == refund_units(row, auth)
             budget == reset_budget(row)
  <1>1. units \in Nat
    <2>1. auth \in Int
      BY DEF auth_candidates
    <2>2. sstore_refund(row, auth) \in Int /\ sstore_refund(row, auth) >= 0
      BY <2>1 DEF sstore_refund, residual, RefundRow, feasible
    <2> QED
      BY <2>2 DEF refund_units
  <1>2. budget \in Int
    BY DEF reset_budget, RefundRow
  <1> HIDE DEF units, budget
  <1>3. nonzero_reset_base(units) \in Int /\ reset_sum_base(units) \in Int
    BY <1>1, BaseQuotient DEF base_by_quotient, reset_sum_base
  <1>4. k_max(units) \in Int /\ k_min(units, budget) \in Int
    BY <1>2, <1>3 DEF k_max, k_min
  <1> QED
    BY <1>3, <1>4 DEF units, budget

\* Sets of which one holds the bounds of the other have the same extremes.
LEMMA ExtremesAgree ==
  ASSUME NEW G \in SUBSET Int, NEW F \in SUBSET G,
         \A g \in G : \E low, high \in F : low <= g /\ g <= high
  PROVE  extremes(F) = extremes(G)
  <1>1. ASSUME NEW x \in extremes(F) PROVE x \in extremes(G)
    <2>1. x \in F /\ x \in G /\ x \in Int
      BY DEF extremes
    <2>2. CASE \A y \in F : x <= y
      <3>1. ASSUME NEW g \in G PROVE x <= g
        <4>1. PICK low \in F : low <= g
          OBVIOUS
        <4>2. x <= low /\ low \in Int /\ g \in Int
          BY <2>2, <4>1
        <4> QED
          BY <2>1, <4>1, <4>2
      <3> QED
        BY <2>1, <3>1 DEF extremes
    <2>3. CASE \A y \in F : x >= y
      <3>1. ASSUME NEW g \in G PROVE x >= g
        <4>1. PICK high \in F : g <= high
          OBVIOUS
        <4>2. x >= high /\ high \in Int /\ g \in Int
          BY <2>3, <4>1
        <4> QED
          BY <2>1, <4>1, <4>2
      <3> QED
        BY <2>1, <3>1 DEF extremes
    <2> QED
      BY <2>2, <2>3 DEF extremes
  <1>2. ASSUME NEW x \in extremes(G) PROVE x \in extremes(F)
    <2>1. x \in G /\ x \in Int
      BY DEF extremes
    <2>2. PICK low \in F, high \in F : low <= x /\ x <= high
      BY <2>1
    <2>3. low \in G /\ high \in G /\ low \in Int /\ high \in Int
      OBVIOUS
    <2>4. CASE \A y \in G : x <= y
      <3>1. x = low
        BY <2>1, <2>2, <2>3, <2>4
      <3> QED
        BY <2>4, <3>1 DEF extremes
    <2>5. CASE \A y \in G : x >= y
      <3>1. x = high
        BY <2>1, <2>2, <2>3, <2>5
      <3> QED
        BY <2>5, <3>1 DEF extremes
    <2> QED
      BY <2>4, <2>5 DEF extremes
  <1> QED
    BY <1>1, <1>2

\* The query ranks the numbers of authorizations as the enumeration ranks its
\* solutions: the preferred ones are those of the ranked numbers.
LEMMA PreferredAreRanked ==
  ASSUME NEW row \in RefundRow, row.changed_slots <= row.sstore_count
  PROVE  preferred(row) = {s \in solutions(row) : s.auth \in ranked(row)}
  <1>1. \A s \in solutions(row) : s.auth \in auth_candidates(row)
    BY SolutionIs
  <1>2. ASSUME NEW s \in solutions(row)
        PROVE  sstore_gas_residual(row, s) = gas_error(row, s.auth)
    <2>1. /\ s.zero \in Nat /\ s.nonzero \in Nat
          /\ 19900 * s.zero + 2800 * s.nonzero = sstore_refund(row, s.auth)
      BY SolutionIs DEF solves
    <2>2. /\ row.sstore_count \in Nat /\ row.sstore_cold_count \in Nat
          /\ row.zero_to_nonzero_slots \in Nat /\ row.original_nonzero_changed \in Nat
      BY DEF RefundRow
    <2>3. 19900 * (row.zero_to_nonzero_slots + s.zero)
            + 2800 * (row.original_nonzero_changed + s.nonzero)
            = 19900 * row.zero_to_nonzero_slots + 2800 * row.original_nonzero_changed
                + sstore_refund(row, s.auth)
      BY <2>1, <2>2
    <2> DEFINE z == s.zero
               n == s.nonzero
               made_ == row.zero_to_nonzero_slots
               had_ == row.original_nonzero_changed
               base == 100 * row.sstore_count + 2100 * row.sstore_cold_count
               refund == sstore_refund(row, s.auth)
    <2>4. base + 19900 * (made_ + z) + 2800 * (had_ + n)
            = base + 19900 * made_ + 2800 * had_ + refund
      <3>1. /\ base \in Int /\ z \in Int /\ n \in Int /\ made_ \in Int /\ had_ \in Int
            /\ refund \in Int /\ 19900 * z + 2800 * n = refund
        BY <2>1, <2>2
      <3> HIDE DEF base, z, n, made_, had_, refund
      <3> QED
        BY <3>1
    <2> QED
      BY <2>4 DEF sstore_gas_residual, gas_error
  <1>3. ASSUME NEW auth \in auth_candidates(row)
        PROVE  feasible(row, auth) <=> \E s \in solutions(row) : s.auth = auth
    <2> DEFINE units == refund_units(row, auth)
               budget == reset_budget(row)
               found == {s \in solutions(row) : s.auth = auth}
    <2>1. {s.zero + s.nonzero : s \in found} = sql_resets(row, auth)
      BY ClosedFormIsEnumeration
    <2>2. feasible(row, auth) => sql_resets(row, auth) # {}
      <3>1. SUFFICES ASSUME feasible(row, auth) PROVE reset_sums(units, budget) # {}
        BY DEF sql_resets
      <3>2. k_min(units, budget) <= k_max(units)
        BY <3>1 DEF feasible
      <3>3. k_min(units, budget) \in Int /\ k_max(units) \in Int
        BY <3>1, RankedUnits
      <3>4. k_min(units, budget) \in k_min(units, budget) .. k_max(units)
        BY <3>2, <3>3
      <3> QED
        BY <3>4 DEF reset_sums
    <2>3. ~feasible(row, auth) => sql_resets(row, auth) = {}
      BY DEF sql_resets
    <2> QED
      BY <2>1, <2>2, <2>3
  <1>4. ASSUME NEW s \in preferred(row) PROVE s \in solutions(row) /\ s.auth \in ranked(row)
    <2>1. /\ s \in solutions(row) /\ s.auth \in auth_candidates(row)
          /\ feasible(row, s.auth)
      BY <1>1, <1>3 DEF preferred
    <2>2. ASSUME NEW other \in auth_candidates(row), feasible(row, other)
          PROVE  gas_error(row, s.auth) <= gas_error(row, other)
      <3>1. PICK x \in solutions(row) : x.auth = other
        BY <1>3, <2>2
      <3>2. sstore_gas_residual(row, s) <= sstore_gas_residual(row, x)
        BY <3>1 DEF preferred
      <3> QED
        BY <1>2, <2>1, <3>1, <3>2
    <2> QED
      BY <2>1, <2>2 DEF ranked
  <1>5. ASSUME NEW s \in solutions(row), s.auth \in ranked(row) PROVE s \in preferred(row)
    <2>1. ASSUME NEW other \in solutions(row)
          PROVE  sstore_gas_residual(row, s) <= sstore_gas_residual(row, other)
      <3>1. other.auth \in auth_candidates(row) /\ feasible(row, other.auth)
        BY <1>1, <1>3
      <3>2. gas_error(row, s.auth) <= gas_error(row, other.auth)
        BY <1>5, <3>1 DEF ranked
      <3> QED
        BY <1>2, <3>2
    <2> QED
      BY <2>1 DEF preferred
  <1>6. preferred(row) \subseteq solutions(row)
    BY DEF preferred
  <1> QED
    BY <1>4, <1>5, <1>6

\* The range of refunds the query keeps has the least and the largest of the
\* solutions the enumeration prefers.
THEOREM QueryRangeIsPreferred ==
  ASSUME NEW row \in RefundRow, row.changed_slots <= row.sstore_count
  PROVE  extremes(refund_future(row))
           = extremes({refund_counter_8038(row, s.zero + s.nonzero) : s \in preferred(row)})
  <1> DEFINE budget == reset_budget(row)
             price(n) == refund_counter_8038(row, n)
             G == {price(s.zero + s.nonzero) : s \in preferred(row)}
             F == refund_future(row)
             base(auth) == reset_sum_base(refund_units(row, auth))
             first(auth) == k_min(refund_units(row, auth), budget)
             last(auth) == k_max(refund_units(row, auth))
  <1>1. ASSUME NEW m \in Int, NEW n \in Int
        PROVE  price(m) \in Int /\ (m <= n => price(m) <= price(n))
    BY DEF refund_counter_8038, RefundRow
  <1>2. ASSUME NEW auth \in ranked(row)
        PROVE  /\ auth \in auth_candidates(row) /\ feasible(row, auth)
               /\ base(auth) \in Int /\ first(auth) \in Int /\ last(auth) \in Int
               /\ first(auth) <= last(auth)
               /\ {s.zero + s.nonzero : s \in {x \in solutions(row) : x.auth = auth}}
                    = {base(auth) - 171 * k : k \in first(auth) .. last(auth)}
    <2>1. auth \in auth_candidates(row) /\ feasible(row, auth)
      BY DEF ranked
    <2>2. {s.zero + s.nonzero : s \in {x \in solutions(row) : x.auth = auth}}
            = sql_resets(row, auth)
      BY <2>1, ClosedFormIsEnumeration
    <2>3. sql_resets(row, auth) = {base(auth) - 171 * k : k \in first(auth) .. last(auth)}
      BY <2>1 DEF sql_resets, reset_sums
    <2>4. base(auth) \in Int /\ first(auth) \in Int /\ last(auth) \in Int
      BY <2>1, RankedUnits
    <2>5. first(auth) <= last(auth)
      BY <2>1 DEF feasible
    <2> QED
      BY <2>1, <2>2, <2>3, <2>4, <2>5
  <1>3. F = UNION {{price(base(auth) - 171 * last(auth)),
                    price(base(auth) - 171 * first(auth))} : auth \in ranked(row)}
    BY DEF refund_future
  <1>4. preferred(row) = {s \in solutions(row) : s.auth \in ranked(row)}
    BY PreferredAreRanked
  <1> HIDE DEF base, first, last, F, price, budget
  <1>5. ASSUME NEW auth \in ranked(row), NEW k \in first(auth) .. last(auth)
        PROVE  price(base(auth) - 171 * k) \in G
    <2>1. base(auth) - 171 * k
            \in {s.zero + s.nonzero : s \in {x \in solutions(row) : x.auth = auth}}
      BY <1>2
    <2>2. PICK s \in solutions(row) : s.auth = auth /\ base(auth) - 171 * k = s.zero + s.nonzero
      BY <2>1
    <2> QED
      BY <1>4, <2>2
  <1>6. F \subseteq G
    <2>1. ASSUME NEW auth \in ranked(row)
          PROVE  /\ price(base(auth) - 171 * last(auth)) \in G
                 /\ price(base(auth) - 171 * first(auth)) \in G
      <3>1. first(auth) \in first(auth) .. last(auth) /\ last(auth) \in first(auth) .. last(auth)
        BY <1>2
      <3> QED
        BY <1>5, <3>1
    <2> HIDE DEF G
    <2> QED
      BY <1>3, <2>1
  <1>7. G \subseteq Int
    <2>1. ASSUME NEW s \in preferred(row) PROVE price(s.zero + s.nonzero) \in Int
      <3>1. s.zero + s.nonzero \in Int
        BY <1>4, SolutionIs
      <3> QED
        BY <1>1, <3>1
    <2> QED
      BY <2>1
  <1>8. ASSUME NEW g \in G PROVE \E low, high \in F : low <= g /\ g <= high
    <2>1. PICK s \in preferred(row) : g = price(s.zero + s.nonzero)
      OBVIOUS
    <2> DEFINE auth == s.auth
               sum == s.zero + s.nonzero
    <2>2. auth \in ranked(row) /\ s \in {x \in solutions(row) : x.auth = auth}
      BY <1>4
    <2>3. PICK k \in first(auth) .. last(auth) : s.zero + s.nonzero = base(auth) - 171 * k
      <3>1. sum \in {x.zero + x.nonzero : x \in {y \in solutions(row) : y.auth = auth}}
        BY <2>2
      <3>2. {x.zero + x.nonzero : x \in {y \in solutions(row) : y.auth = auth}}
              = {base(auth) - 171 * k : k \in first(auth) .. last(auth)}
        BY <1>2, <2>2
      <3>3. sum \in {base(auth) - 171 * k : k \in first(auth) .. last(auth)}
        BY <3>1, <3>2
      <3>4. \E k \in first(auth) .. last(auth) : sum = base(auth) - 171 * k
        BY <3>3
      <3> QED
        BY <3>4
    <2> HIDE DEF auth, sum
    <2>4. /\ base(auth) - 171 * last(auth) <= base(auth) - 171 * k
          /\ base(auth) - 171 * k <= base(auth) - 171 * first(auth)
          /\ base(auth) - 171 * last(auth) \in Int /\ base(auth) - 171 * k \in Int
          /\ base(auth) - 171 * first(auth) \in Int
      BY <1>2, <2>2
    <2>5. /\ price(base(auth) - 171 * last(auth)) <= g
          /\ g <= price(base(auth) - 171 * first(auth))
      BY <1>1, <2>1, <2>3, <2>4
    <2>6. /\ price(base(auth) - 171 * last(auth)) \in F
          /\ price(base(auth) - 171 * first(auth)) \in F
      BY <1>3, <2>2
    <2> QED
      BY <2>5, <2>6
  <1>9. extremes(F) = extremes(G)
    <2> HIDE DEF G
    <2> QED
      BY <1>6, <1>7, <1>8, ExtremesAgree
  <1> QED
    BY <1>9 DEF F, price

-----------------------------------------------------------------------------
(* The gas before the refund.                                              *)

\* When the recovery takes the cap as binding, it was, and the gas whose
\* refund leaves the receipt is the true one or one next to it.
LEMMA CapBinds ==
  ASSUME NEW gross \in Nat, NEW counter \in Nat, NEW receipt \in Nat,
         4 * counter > receipt, gas_applied(gross, counter) = receipt
  PROVE  /\ gross - gross \div 5 = receipt
         /\ \A x \in Nat : x - x \div 5 = receipt => x - gross \in -1 .. 1
         /\ gross \in center(receipt) - 6 .. center(receipt) + 7
         /\ gross >= receipt
  <1>1. counter > gross \div 5
    BY DEF gas_applied
  <1>2. gross - gross \div 5 = receipt
    BY <1>1 DEF gas_applied
  <1>3. ASSUME NEW x \in Nat, x - x \div 5 = receipt
        PROVE  x - gross \in -1 .. 1
    BY <1>2, <1>3
  <1>4. gross \in center(receipt) - 6 .. center(receipt) + 7 /\ gross >= receipt
    BY <1>2 DEF center
  <1> QED
    BY <1>2, <1>3, <1>4

\* The query recovers the gas before the refund, or one more.
THEOREM QueryRecoversGross ==
  ASSUME NEW gross \in Nat, NEW counter \in Nat, NEW receipt \in Nat,
         receipt = gas_applied(gross, counter)
  PROVE  gross - gross_current(receipt, counter) \in -1 .. 0
  <1>1. CASE counter <= gross \div 5
    <2>1. receipt = gross - counter
      BY <1>1 DEF gas_applied
    <2>2. counter <= receipt \div 4
      BY <1>1, <2>1
    <2> QED
      BY <2>1, <2>2 DEF gross_current
  <1>2. CASE ~(counter <= gross \div 5)
    <2>1. receipt = gross - gross \div 5
      BY <1>2 DEF gas_applied
    <2>2. CASE counter <= receipt \div 4
      BY <1>2, <2>1, <2>2 DEF gross_current
    <2>3. CASE ~(counter <= receipt \div 4)
      BY <1>2, <2>1, <2>3 DEF gross_current
    <2> QED
      BY <2>2, <2>3
  <1> QED
    BY <1>1, <1>2

\* The gas before the refund is recovered from the receipt to one gas, whether
\* or not the cap of a fifth was binding.
THEOREM GrossIsRecovered ==
  ASSUME NEW gross \in Nat, NEW counter \in Nat, NEW receipt \in Nat,
         receipt = gas_applied(gross, counter)
  PROVE  gross - gross_gas_current_proxy(receipt, counter) \in -1 .. 1
  <1>1. CASE uncapped(receipt, counter)
    <2>1. gross_gas_current_proxy(receipt, counter) = receipt + counter
      BY <1>1 DEF gross_gas_current_proxy
    <2>2. 4 * counter <= receipt
      BY <1>1 DEF uncapped
    <2>3. CASE counter <= gross \div 5
      BY <2>1, <2>3 DEF gas_applied
    <2>4. CASE ~(counter <= gross \div 5)
      <3>1. receipt = gross - gross \div 5
        BY <2>4 DEF gas_applied
      <3>2. gross - (receipt + counter) \in -1 .. 1
        BY <2>2, <2>4, <3>1
      <3> QED
        BY <2>1, <3>2
    <2> QED
      BY <2>3, <2>4
  <1>2. CASE ~uncapped(receipt, counter)
    <2> DEFINE S == gross_candidates(receipt, counter)
               Least(g) == \A other \in S : g <= other
    <2>1. 4 * counter > receipt
      BY <1>2 DEF uncapped
    <2>2. center(receipt) \in Int
      BY DEF center
    <2>3. gross \in S
      BY <2>1, <2>2, CapBinds DEF gross_candidates
    <2>4. ASSUME NEW x \in S
          PROVE  x \in Nat /\ x - gross \in -1 .. 1
      <3>1. x \in Nat /\ gas_applied(x, counter) = receipt
        BY <2>2 DEF gross_candidates
      <3>2. x - x \div 5 = receipt
        BY <2>1, <3>1, CapBinds
      <3>3. \A y \in Nat : y - y \div 5 = receipt => y - gross \in -1 .. 1
        BY <2>1, CapBinds
      <3> QED
        BY <3>1, <3>2, <3>3
    <2>5. \E g \in S : Least(g)
      <3>1. CASE gross - 1 \in S
        <4>1. Least(gross - 1)
          BY <2>4
        <4> QED
          BY <3>1, <4>1
      <3>2. CASE gross - 1 \notin S
        <4>1. Least(gross)
          <5>1. ASSUME NEW x \in S PROVE gross <= x
            <6>1. x # gross - 1
              BY <3>2
            <6> QED
              BY <2>4, <6>1
          <5> QED
            BY <5>1
        <4> QED
          BY <2>3, <4>1
      <3> QED
        BY <3>1, <3>2
    <2>6. cap_bound_current_gas(receipt, counter) = CHOOSE g \in S : Least(g)
      BY <2>3 DEF cap_bound_current_gas
    <2>7. cap_bound_current_gas(receipt, counter) \in S
      <3> HIDE DEF S, Least
      <3> QED
        BY <2>5, <2>6
    <2>8. gross_gas_current_proxy(receipt, counter) = cap_bound_current_gas(receipt, counter)
      BY <1>2 DEF gross_gas_current_proxy
    <2> QED
      BY <2>4, <2>7, <2>8
  <1> QED
    BY <1>1, <1>2

-----------------------------------------------------------------------------
(* The accountings of a receipt.                                           *)

\* A transaction of the panels.
PanelRow ==
  [receipt: Nat, zero: Nat, nonzero: Nat, addresses: Nat, keys: Nat, blobs: Nat,
   auths: Nat, runtime: Nat, created: StateCreation,
   recipient: BOOLEAN, self_transfer: BOOLEAN, value: BOOLEAN]

\* The gas of created state is a count.
LEMMA StateGasType ==
  ASSUME NEW s \in StateCreation
  PROVE  historical_state_creation_gas(s) \in Nat
  <1>1. /\ s.new_storage_slots \in Nat /\ s.new_accounts \in Nat
        /\ s.code_bytes \in Nat /\ s.new_delegation_indicators \in Nat
    BY DEF StateCreation
  <1> QED
    BY <1>1 DEF historical_state_creation_gas

\* A receipt that paid the floor is always taken apart, into data, state and
\* execution that add up to it, and is bound by the floor exactly when it is
\* the floor.
THEOREM ReceiptsComeApart ==
  ASSUME NEW t \in PanelRow, t.receipt >= TX_BASE_GAS + current_7623_floor_gas(t)
  PROVE  LET d == attach_eip7623_receipt_decomposition(t)
         IN  /\ ~decomposition_refused(t)
             /\ d.data \in Nat /\ d.state \in Nat /\ d.execution \in Nat
             /\ d.data + d.state + d.execution = t.receipt
             /\ calldata_tokens(t) > 0 =>
                  (current_7623_floor_bound_proxy(t)
                     <=> t.receipt = TX_BASE_GAS + current_7623_floor_gas(t))
  <1>1. t.receipt \in Nat /\ calldata_tokens(t) \in Nat /\ t.created \in StateCreation
    BY DEF PanelRow, calldata_tokens
  <1>2. historical_state_creation_gas(t.created) \in Nat
    BY <1>1, StateGasType
  <1>3. /\ current_data_gas_7623_proxy(t) \in Nat
        /\ current_data_gas_7623_proxy(t) <= current_7623_floor_gas(t)
    BY <1>1 DEF current_data_gas_7623_proxy, standard_calldata_gas, current_7623_floor_gas
  <1>4. receipt_remainder(t) \in Nat
    BY <1>1, <1>3 DEF receipt_remainder, TX_BASE_GAS, current_7623_floor_gas
  <1>5. /\ least(historical_state_creation_gas(t.created), receipt_remainder(t)) \in Nat
        /\ least(historical_state_creation_gas(t.created), receipt_remainder(t))
             <= receipt_remainder(t)
    BY <1>2, <1>4, LeastIs
  <1>6. ~decomposition_refused(t)
    BY <1>1, <1>4
       DEF decomposition_refused, TX_BASE_GAS, current_7623_floor_gas
  <1>7. calldata_tokens(t) > 0 =>
          (current_7623_floor_bound_proxy(t)
             <=> t.receipt = TX_BASE_GAS + current_7623_floor_gas(t))
    BY <1>1
       DEF current_7623_floor_bound_proxy, receipt_body_gas, TX_BASE_GAS, current_7623_floor_gas
  <1>8. receipt_remainder(t) = t.receipt - current_data_gas_7623_proxy(t)
    BY DEF receipt_remainder
  <1> QED
    BY <1>1, <1>3, <1>4, <1>5, <1>6, <1>7, <1>8 DEF attach_eip7623_receipt_decomposition

\* The panel's EIP-8279 floor and the one of floor_accounting are the same, and
\* so is the extra charge over EIP-8131 for any gas of the execution.
THEOREM FloorsAgree ==
  ASSUME NEW t \in PanelRow, NEW execution \in Nat
  PROVE  /\ floor_gas_8279(t) = eip8279_floor_gas(t)
         /\ charged_regular_gas(t, execution).eip8279
              - charged_regular_gas(t, execution).eip8131
              = incremental_eip8279_uplift(t, execution)
         /\ static_data_bytes_7999(t) + t.runtime
              = static_data_8131_bytes(t) + bal_floor_bytes_8279(t)
  <1>1. /\ t.zero \in Nat /\ t.nonzero \in Nat /\ t.addresses \in Nat /\ t.keys \in Nat
        /\ t.blobs \in Nat /\ t.auths \in Nat /\ t.runtime \in Nat
    BY DEF PanelRow
  <1>2. floor_gas_8131(t) = eip8131_floor_gas(t)
    BY DEF floor_gas_8131, eip8131_floor_gas, static_data_8131_bytes, eip8131_content_bytes
  <1>3. floor_gas_8279(t) = eip8279_floor_gas(t)
    <2>1. bal_floor_bytes_8279(t) = 51 * t.auths + t.runtime
      BY <1>1 DEF bal_floor_bytes_8279
    <2> QED
      BY <1>2, <2>1 DEF floor_gas_8279, eip8279_floor_gas
  <1>4. static_data_bytes_7999(t) + t.runtime
          = static_data_8131_bytes(t) + bal_floor_bytes_8279(t)
    BY <1>1
       DEF static_data_bytes_7999, static_data_bytes_xatu_known, static_data_8131_bytes,
           bal_floor_bytes_8279, calldata_bytes
  <1> QED
    BY <1>2, <1>3, <1>4 DEF charged_regular_gas, incremental_eip8279_uplift

\* Glamsterdam's gas from the parts of a transaction is that from its receipt,
\* when the receipt is not the floor and holds the gas of the state.
THEOREM GlamsterdamGasAgrees ==
  ASSUME NEW t \in PanelRow, NEW execution \in Nat,
         t.receipt = TX_BASE_GAS + standard_calldata_gas(t) + access_list_cost_2930(t)
                       + execution + historical_state_creation_gas(t.created)
  PROVE  glamsterdam_regular_gas_tx(t, execution) = glamsterdam_regular_gas_from_receipt(t)
  <1>1. /\ t.receipt \in Nat /\ historical_state_creation_gas(t.created) \in Nat
    BY StateGasType DEF PanelRow
  <1>2. standard_calldata_gas(t) \in Nat /\ access_list_cost_2930(t) \in Nat
    BY DEF PanelRow, standard_calldata_gas, calldata_tokens, access_list_cost_2930
  <1>3. receipt_body_gas(t) - historical_state_creation_gas(t.created)
          = standard_calldata_gas(t) + execution + access_list_cost_2930(t)
    BY <1>1, <1>2 DEF receipt_body_gas, TX_BASE_GAS
  <1>4. most(0, receipt_body_gas(t) - historical_state_creation_gas(t.created))
          = standard_calldata_gas(t) + execution + access_list_cost_2930(t)
    BY <1>2, <1>3 DEF most
  <1> QED
    BY <1>4 DEF glamsterdam_regular_gas_tx, glamsterdam_regular_gas_from_receipt

-----------------------------------------------------------------------------
(* Sums over a finite set.  SumFunction folds in the order of a CHOOSE, by a *)
(* recursion over the subsets of the domain: it is shown that there is such  *)
(* a recursive function, and that any element may come first.                *)

\* Induction over the subsets of a finite set.
LEMMA SubsetInduction ==
  ASSUME NEW S, IsFiniteSet(S), NEW Q, {} \in Q,
         \A s \in SUBSET S : s # {} /\ (\A y \in s : s \ {y} \in Q) => s \in Q
  PROVE  SUBSET S \subseteq Q
  <1> DEFINE P == {n \in Nat : \A s \in SUBSET S : Cardinality(s) <= n => s \in Q}
  <1>0. \A s \in SUBSET S : IsFiniteSet(s) /\ Cardinality(s) \in Nat
    BY FS_Subset, FS_CardinalityType
  <1>1. 0 \in P
    <2>1. ASSUME NEW s \in SUBSET S, Cardinality(s) <= 0 PROVE s \in Q
      <3>1. Cardinality(s) = 0
        BY <1>0, <2>1
      <3>2. s = {}
        BY <1>0, <3>1, FS_EmptySet
      <3> QED
        BY <3>2
    <2> QED
      BY <2>1
  <1>2. ASSUME NEW n \in Nat, n \in P PROVE n + 1 \in P
    <2>1. ASSUME NEW s \in SUBSET S, Cardinality(s) <= n + 1, s # {}
          PROVE  s \in Q
      <3>1. ASSUME NEW y \in s PROVE s \ {y} \in Q
        <4>1. Cardinality(s \ {y}) = Cardinality(s) - 1
          BY <1>0, FS_RemoveElement
        <4>2. Cardinality(s \ {y}) <= n
          BY <1>0, <2>1, <4>1
        <4>3. s \ {y} \in SUBSET S
          OBVIOUS
        <4> QED
          BY <1>2, <4>2, <4>3
      <3> QED
        BY <2>1, <3>1
    <2>2. ASSUME NEW s \in SUBSET S, Cardinality(s) <= n + 1
          PROVE  s \in Q
      BY <2>1, <2>2
    <2> QED
      BY <2>2
  <1> HIDE DEF P
  <1>3. Nat \subseteq P
    BY <1>1, <1>2, SetInduction
  <1>4. ASSUME NEW s \in SUBSET S PROVE s \in Q
    <2>1. Cardinality(s) \in P
      BY <1>0, <1>3
    <2>2. Cardinality(s) <= Cardinality(s)
      BY <1>0
    <2> QED
      BY <2>1, <2>2 DEF P
  <1> QED
    BY <1>4

\* The recursion of the fold.
SumStep(f, g, s) ==
  IF s = {} THEN 0
  ELSE f[CHOOSE x \in s : TRUE] + g[s \ {CHOOSE x \in s : TRUE}]

\* There is a function on the subsets that satisfies it.
LEMMA PartialSumsExist ==
  ASSUME NEW S, IsFiniteSet(S), NEW f \in [S -> Int]
  PROVE  \E g \in [SUBSET S -> Int] : \A s \in SUBSET S : g[s] = SumStep(f, g, s)
  <1> DEFINE Good(g, n) == \A s \in SUBSET S : Cardinality(s) <= n => g[s] = SumStep(f, g, s)
             P == {n \in Nat : \E g \in [SUBSET S -> Int] : Good(g, n)}
  <1>0. \A s \in SUBSET S : IsFiniteSet(s) /\ Cardinality(s) \in Nat
    BY FS_Subset, FS_CardinalityType
  <1>00. ASSUME NEW s \in SUBSET S, s # {}
         PROVE  /\ (CHOOSE x \in s : TRUE) \in S
                /\ s \ {CHOOSE x \in s : TRUE} \in SUBSET S
                /\ Cardinality(s \ {CHOOSE x \in s : TRUE}) = Cardinality(s) - 1
    <2>1. (CHOOSE x \in s : TRUE) \in s
      BY <1>00
    <2>2. Cardinality(s \ {CHOOSE x \in s : TRUE}) = Cardinality(s) - 1
      BY <1>0, <2>1, FS_RemoveElement
    <2> QED
      BY <2>1, <2>2
  <1>1. 0 \in P
    <2> DEFINE g == [s \in SUBSET S |-> 0]
    <2>1. ASSUME NEW s \in SUBSET S, Cardinality(s) <= 0 PROVE g[s] = SumStep(f, g, s)
      <3>1. s = {}
        BY <1>0, <2>1, FS_EmptySet
      <3> QED
        BY <3>1 DEF SumStep
    <2>2. g \in [SUBSET S -> Int] /\ Good(g, 0)
      BY <2>1
    <2> QED
      BY <2>2
  <1>2. ASSUME NEW n \in Nat, n \in P PROVE n + 1 \in P
    <2>1. PICK g \in [SUBSET S -> Int] : Good(g, n)
      BY <1>2
    <2> DEFINE h == [s \in SUBSET S |-> IF Cardinality(s) <= n THEN g[s] ELSE SumStep(f, g, s)]
    <2>2. h \in [SUBSET S -> Int]
      <3>1. ASSUME NEW s \in SUBSET S PROVE SumStep(f, g, s) \in Int
        <4>1. CASE s = {} 
          BY <4>1 DEF SumStep
        <4>2. CASE s # {}
          BY <1>00, <4>2 DEF SumStep
        <4> QED
          BY <4>1, <4>2
      <3> QED
        BY <3>1
    <2>3. ASSUME NEW s \in SUBSET S, Cardinality(s) <= n + 1
          PROVE  SumStep(f, h, s) = SumStep(f, g, s)
      <3>1. CASE s = {}
        BY <3>1 DEF SumStep
      <3>2. CASE s # {}
        <4> DEFINE c == CHOOSE x \in s : TRUE
        <4>1. s \ {c} \in SUBSET S /\ Cardinality(s \ {c}) <= n
          <5>1. s \ {c} \in SUBSET S /\ Cardinality(s \ {c}) = Cardinality(s) - 1
            BY <1>00, <3>2
          <5> QED
            BY <1>0, <2>3, <5>1
        <4> HIDE DEF c
        <4>2. h[s \ {c}] = g[s \ {c}]
          BY <4>1
        <4> QED
          BY <3>2, <4>2 DEF SumStep, c
      <3> QED
        BY <3>1, <3>2
    <2>4. ASSUME NEW s \in SUBSET S, Cardinality(s) <= n + 1
          PROVE  h[s] = SumStep(f, h, s)
      BY <2>1, <2>3, <2>4
    <2> HIDE DEF h
    <2>5. Good(h, n + 1)
      BY <2>4
    <2> QED
      BY <2>2, <2>5
  <1>3. Cardinality(S) \in P
    <2> HIDE DEF P
    <2>1. Nat \subseteq P
      BY <1>1, <1>2, SetInduction
    <2> QED
      BY <1>0, <2>1
  <1>4. \A s \in SUBSET S : Cardinality(s) <= Cardinality(S)
    BY FS_Subset
  <1> QED
    BY <1>3, <1>4

\* The fold is the value of such a function.
LEMMA SumIs ==
  ASSUME NEW S, IsFiniteSet(S), NEW f \in [S -> Int]
  PROVE  \E g \in [SUBSET S -> Int] : 
            /\ \A s \in SUBSET S : g[s] = SumStep(f, g, s)
            /\ SumFunction(f) = g[S]
  <1> DEFINE Equation(g) ==
               g = [s \in SUBSET S |-> IF s = {} THEN 0
                                       ELSE LET x == CHOOSE x \in s : TRUE
                                            IN  f[x] + g[s \ {x}]]
             total == CHOOSE g : Equation(g)
  <1>1. PICK g \in [SUBSET S -> Int] : \A s \in SUBSET S : g[s] = SumStep(f, g, s)
    BY PartialSumsExist
  <1>2. Equation(g)
    <2>1. ASSUME NEW s \in SUBSET S
          PROVE  g[s] = IF s = {} THEN 0
                        ELSE LET x == CHOOSE x \in s : TRUE IN f[x] + g[s \ {x}]
      <3>1. CASE s = {}
        BY <1>1, <3>1 DEF SumStep
      <3>2. CASE s # {}
        <4> DEFINE c == CHOOSE x \in s : TRUE
        <4>1. c \in s
          BY <3>2
        <4>2. g[s] = f[c] + g[s \ {c}]
          BY <1>1, <3>2 DEF SumStep
        <4> QED
          BY <3>2, <4>2
      <3> QED
        BY <3>1, <3>2
    <2> QED
      BY <2>1
  <1>3. Equation(total)
    BY <1>2
  <1>4. DOMAIN f = S
    OBVIOUS
  <1>5. SumFunction(f) = total[S]
    BY <1>4, Zenon DEF SumFunction, SumFunctionOnSet, FoldFunctionOnSet, MapThenFoldSet
  <1>6. total \in [SUBSET S -> Int] /\ \A s \in SUBSET S : total[s] = SumStep(f, total, s)
    <2> HIDE DEF total
    <2>1. DOMAIN total = SUBSET S
      BY <1>3
    <2> DEFINE Q == {s \in SUBSET S : total[s] = g[s]}
    <2>2. {} \in Q
      BY <1>1, <1>3 DEF SumStep
    <2>3. ASSUME NEW s \in SUBSET S, s # {}, \A y \in s : s \ {y} \in Q
          PROVE  s \in Q
      <3> DEFINE c == CHOOSE x \in s : TRUE
      <3>1. c \in s
        BY <2>3
      <3>2. total[s] = f[c] + total[s \ {c}]
        BY <1>3, <2>3
      <3>3. g[s] = f[c] + g[s \ {c}]
        BY <1>2, <2>3
      <3> HIDE DEF c
      <3> QED
        BY <2>3, <3>1, <3>2, <3>3
    <2> HIDE DEF Q
    <2>4. SUBSET S \subseteq Q
      BY <2>2, <2>3, SubsetInduction
    <2>5. \A s \in SUBSET S : total[s] = g[s]
      BY <2>4 DEF Q
    <2>6. total = g
      BY <1>3, <2>1, <2>5
    <2> QED
      BY <1>1, <2>6
  <1> HIDE DEF total
  <1> QED
    BY <1>5, <1>6

\* Of each set, g is the sum of f over it, whatever is summed first.
Adds(f, g, S) == \A s \in SUBSET S : \A x \in s : g[s] = f[x] + g[s \ {x}]

\* What is summed first does not matter.
LEMMA AnyFirst ==
  ASSUME NEW S, IsFiniteSet(S), NEW f \in [S -> Int], NEW g \in [SUBSET S -> Int],
         \A s \in SUBSET S : g[s] = SumStep(f, g, s)
  PROVE  Adds(f, g, S)
  <1> DEFINE Q == {s \in SUBSET S : \A x \in s : g[s] = f[x] + g[s \ {x}]}
  <1>1. {} \in Q
    OBVIOUS
  <1>2. ASSUME NEW s \in SUBSET S, s # {}, \A y \in s : s \ {y} \in Q
        PROVE  s \in Q
    <2>1. ASSUME NEW x \in s
          PROVE  g[s] = f[x] + g[s \ {x}]
      <3> DEFINE c == CHOOSE y \in s : TRUE
      <3>1. c \in s /\ g[s] = f[c] + g[s \ {c}]
        BY DEF SumStep
      <3> HIDE DEF c
      <3>2. CASE x = c
        BY <3>1, <3>2
      <3>3. CASE x # c
        <4>1. x \in s \ {c} /\ c \in s \ {x}
          BY <3>1, <3>3
        <4>2. /\ g[s \ {c}] = f[x] + g[(s \ {c}) \ {x}]
              /\ g[s \ {x}] = f[c] + g[(s \ {x}) \ {c}]
          BY <1>2, <3>1, <4>1
        <4>3. (s \ {c}) \ {x} = (s \ {x}) \ {c}
          OBVIOUS
        <4> DEFINE r == (s \ {c}) \ {x}
        <4>4. r \in SUBSET S
          OBVIOUS
        <4> HIDE DEF r
        <4>5. g[r] \in Int /\ f[x] \in Int /\ f[c] \in Int
          BY <3>1, <4>4
        <4>6. g[s \ {c}] = f[x] + g[r] /\ g[s \ {x}] = f[c] + g[r]
          BY <4>2, <4>3 DEF r
        <4> QED
          BY <3>1, <4>5, <4>6
      <3> QED
        BY <3>2, <3>3
    <2> QED
      BY <2>1
  <1> HIDE DEF Q
  <1>3. SUBSET S \subseteq Q
    BY <1>1, <1>2, SubsetInduction
  <1> QED
    BY <1>3 DEF Q, Adds

\* The sums over the subsets of a function's domain.
LEMMA SumsOfSubsets ==
  ASSUME NEW S, IsFiniteSet(S), NEW f \in [S -> Int]
  PROVE  \E g \in [SUBSET S -> Int] : Adds(f, g, S) /\ g[{}] = 0 /\ SumFunction(f) = g[S]
  <1>1. PICK g \in [SUBSET S -> Int] : /\ \A s \in SUBSET S : g[s] = SumStep(f, g, s)
                                       /\ SumFunction(f) = g[S]
    BY SumIs
  <1>2. g[{}] = 0
    BY <1>1 DEF SumStep
  <1>3. Adds(f, g, S)
    BY <1>1, AnyFirst
  <1> QED
    BY <1>1, <1>2, <1>3

\* A sum of nothing.
LEMMA SumOfNone ==
  ASSUME NEW f, DOMAIN f = {}
  PROVE  SumFunction(f) = 0
  <1>1. f \in [{} -> Int] /\ IsFiniteSet({})
    BY FS_EmptySet
  <1> QED
    BY <1>1, SumsOfSubsets

\* The function without one of its values.
without(f, x) == [k \in DOMAIN f \ {x} |-> f[k]]

\* A sum is any of its terms and the sum of the others.
LEMMA SumInsert ==
  ASSUME NEW S, IsFiniteSet(S), NEW f \in [S -> Int], NEW x \in S
  PROVE  /\ SumFunction(f) \in Int
         /\ SumFunction(without(f, x)) \in Int
         /\ SumFunction(f) = f[x] + SumFunction(without(f, x))
  <1> DEFINE R == S \ {x}
             e == [k \in R |-> f[k]]
  <1>1. PICK g \in [SUBSET S -> Int] : Adds(f, g, S) /\ g[{}] = 0 /\ SumFunction(f) = g[S]
    BY SumsOfSubsets
  <1>2. IsFiniteSet(R) /\ e \in [R -> Int]
    BY FS_RemoveElement
  <1> HIDE DEF e
  <1>3. PICK h \in [SUBSET R -> Int] : Adds(e, h, R) /\ h[{}] = 0 /\ SumFunction(e) = h[R]
    BY <1>2, SumsOfSubsets
  <1>6. \A y \in R : e[y] = f[y]
    BY DEF e
  <1> DEFINE Q == {s \in SUBSET R : g[s] = h[s]}
  <1>7. {} \in Q
    BY <1>1, <1>3
  <1>8. ASSUME NEW s \in SUBSET R, s # {}, \A y \in s : s \ {y} \in Q
        PROVE  s \in Q
    <2>1. PICK y \in s : TRUE
      BY <1>8
    <2>2. g[s] = f[y] + g[s \ {y}] /\ h[s] = e[y] + h[s \ {y}]
      BY <1>1, <1>3 DEF Adds
    <2> QED
      BY <1>6, <1>8, <2>2
  <1> HIDE DEF Q
  <1>9. SUBSET R \subseteq Q
    <2> HIDE DEF R
    <2> QED
      BY <1>2, <1>7, <1>8, SubsetInduction
  <1>10. g[R] = h[R]
    BY <1>9 DEF Q
  <1>11. g[S] \in Int /\ h[R] \in Int
    OBVIOUS
  <1>12. g[S] = f[x] + g[R]
    BY <1>1 DEF Adds
  <1>13. without(f, x) = e
    BY DEF without, e
  <1> QED
    BY <1>1, <1>3, <1>10, <1>11, <1>12, <1>13

\* Sums are of the type of what they add up.
LEMMA SumType ==
  ASSUME NEW S, IsFiniteSet(S), NEW f \in [S -> Nat]
  PROVE  SumFunction(f) \in Nat
  <1> DEFINE Q == {T \in SUBSET S : SumFunction([k \in T |-> f[k]]) \in Nat}
  <1>1. SumFunction([k \in {} |-> f[k]]) = 0
    BY SumOfNone
  <1>2. {} \in Q
    BY <1>1
  <1>3. ASSUME NEW T \in SUBSET S, T # {}, \A y \in T : T \ {y} \in Q
        PROVE  T \in Q
    <2> DEFINE h == [k \in T |-> f[k]]
    <2>1. PICK y \in T : TRUE
      BY <1>3
    <2>2. h \in [T -> Int] /\ IsFiniteSet(T)
      BY FS_Subset
    <2>3. without(h, y) = [k \in T \ {y} |-> f[k]]
      BY DEF without
    <2>4. h[y] = f[y] /\ f[y] \in Nat
      OBVIOUS
    <2> HIDE DEF h
    <2>5. SumFunction(h) = h[y] + SumFunction(without(h, y))
      BY <2>1, <2>2, SumInsert
    <2>6. SumFunction([k \in T \ {y} |-> f[k]]) \in Nat
      BY <1>3
    <2>7. SumFunction(h) \in Nat
      BY <2>3, <2>4, <2>5, <2>6
    <2> QED
      BY <2>7 DEF h
  <1> HIDE DEF Q
  <1>4. S \in Q
    BY <1>2, <1>3, SubsetInduction
  <1>5. f = [k \in S |-> f[k]]
    OBVIOUS
  <1> QED
    BY <1>4, <1>5 DEF Q

-----------------------------------------------------------------------------
(* Events of a transaction, counted and summed as they are appended.       *)

Event ==
  [op: {"CALL", "SLOAD", "SSTORE", "CREATE", "SELFDESTRUCT"}, cold: BOOLEAN, value: Nat,
   to: Addresses, gas: Nat, refund: Int, resets: {"none", "zero", "nonzero"}]

Authorization == [op: {"AUTHORIZE"}, code: {"", "delegation"}]

\* The places of the events of a set, how many they are and a sum over them.
places(evs, E) == {k \in DOMAIN evs : evs[k] \in E}
number(evs, E) == Cardinality(places(evs, E))
weight(evs, E, w) == SumFunction([k \in places(evs, E) |-> w[evs[k]]])

\* One event more is counted and summed when it is of the set.
LEMMA AppendedEvent ==
  ASSUME NEW D, NEW evs \in Seq(D), NEW E \in SUBSET D, NEW w,
         \A e \in E : w[e] \in Int
  PROVE  /\ IsFiniteSet(places(evs, E))
         /\ number(evs, E) \in Nat /\ weight(evs, E, w) \in Int
         /\ \A e \in E : /\ number(Append(evs, e), E) = number(evs, E) + 1
                         /\ weight(Append(evs, e), E, w) = weight(evs, E, w) + w[e]
         /\ \A e \in D \ E : /\ number(Append(evs, e), E) = number(evs, E)
                             /\ weight(Append(evs, e), E, w) = weight(evs, E, w)
  <1> DEFINE n == Len(evs)
             S == places(evs, E)
             f == [k \in S |-> w[evs[k]]]
  <1>1. S \subseteq 1 .. n /\ n \in Nat
    BY DEF places
  <1>2. IsFiniteSet(S) /\ Cardinality(S) \in Nat
    <2>1. IsFiniteSet(1 .. n)
      BY <1>1, FS_Interval
    <2> QED
      BY <1>1, <2>1, FS_Subset, FS_CardinalityType
  <1>3. f \in [S -> Int]
    BY DEF places
  <1>4. SumFunction(f) \in Int
    <2>1. CASE S = {}
      BY <2>1, SumOfNone
    <2>2. CASE S # {}
      <3>1. PICK x \in S : TRUE
        BY <2>2
      <3> HIDE DEF f, S
      <3> QED
        BY <1>2, <1>3, <3>1, SumInsert
    <2> QED
      BY <2>1, <2>2
  <1>5. ASSUME NEW e \in D
        PROVE  /\ DOMAIN Append(evs, e) = 1 .. n + 1 /\ DOMAIN evs = 1 .. n
               /\ Append(evs, e)[n + 1] = e
               /\ \A k \in 1 .. n : Append(evs, e)[k] = evs[k]
    OBVIOUS
  <1>6. ASSUME NEW e \in E
        PROVE  /\ number(Append(evs, e), E) = number(evs, E) + 1
               /\ weight(Append(evs, e), E, w) = weight(evs, E, w) + w[e]
    <2> DEFINE T == places(Append(evs, e), E)
               g == [k \in T |-> w[Append(evs, e)[k]]]
               last == n + 1
    <2>1. T = S \cup {last} /\ last \notin S /\ last \in T
      BY <1>1, <1>5 DEF places
    <2>2. Cardinality(T) = Cardinality(S) + 1 /\ IsFiniteSet(T)
      BY <1>2, <2>1, FS_AddElement
    <2>3. g \in [T -> Int] /\ g[last] = w[e]
      BY <1>5, <2>1 DEF places
    <2>4. without(g, last) = f
      <3>1. T \ {last} = S
        BY <2>1
      <3>2. ASSUME NEW k \in S PROVE g[k] = f[k]
        BY <1>1, <1>5, <2>1
      <3> QED
        BY <2>3, <3>1, <3>2 DEF without
    <2>5. SumFunction(g) = g[last] + SumFunction(without(g, last))
      <3> HIDE DEF g, T, last
      <3>1. IsFiniteSet(T) /\ g \in [T -> Int] /\ last \in T
        BY <2>1, <2>2, <2>3
      <3> QED
        BY <3>1, SumInsert
    <2>6. w[e] \in Int
      OBVIOUS
    <2>7. SumFunction(g) = SumFunction(f) + w[e]
      <3> HIDE DEF f, g, T, last
      <3> QED
        BY <1>4, <2>3, <2>4, <2>5, <2>6
    <2> QED
      BY <2>2, <2>7 DEF number, weight
  <1>7. ASSUME NEW e \in D \ E
        PROVE  /\ number(Append(evs, e), E) = number(evs, E)
               /\ weight(Append(evs, e), E, w) = weight(evs, E, w)
    <2>1. places(Append(evs, e), E) = S
      BY <1>1, <1>5 DEF places
    <2>2. [k \in S |-> w[Append(evs, e)[k]]] = f
      BY <1>1, <1>5
    <2> QED
      BY <2>1, <2>2 DEF number, weight
  <1> QED
    BY <1>2, <1>4, <1>6, <1>7 DEF number, weight

-----------------------------------------------------------------------------
(* The storage of the contract during a transaction.                       *)

Storage == [Slots -> Nat]

Bit(holds) == IF holds THEN 1 ELSE 0

\* What an execution that found `old` made of the slots.
changed(old, new) == {s \in Slots : old[s] # new[s]}
made(old, new)    == {s \in Slots : old[s] = 0 /\ new[s] # 0}
had(old, new)     == {s \in Slots : old[s] # 0 /\ old[s] # new[s]}
cleared(old, new) == {s \in Slots : old[s] # 0 /\ new[s] = 0}

\* A set of slots is counted slot by slot.
LEMMA SlotCount ==
  ASSUME NEW P \in SUBSET Slots
  PROVE  /\ IsFiniteSet(P) /\ Cardinality(P) \in Nat
         /\ Cardinality(P) = Bit(1 \in P) + Bit(2 \in P)
  <1>1. P = {} \/ P = {1} \/ P = {2} \/ P = {1} \cup {2}
    BY DEF Slots
  <1>2. IsFiniteSet({}) /\ Cardinality({}) = 0
    BY FS_EmptySet
  <1>3. /\ IsFiniteSet({1}) /\ Cardinality({1}) = 1
        /\ IsFiniteSet({2}) /\ Cardinality({2}) = 1
    BY FS_Singleton, Zenon
  <1>4. IsFiniteSet({1} \cup {2}) /\ Cardinality({1} \cup {2}) = Cardinality({1}) + 1
    <2>1. 2 \notin {1}
      OBVIOUS
    <2> QED
      BY <1>3, <2>1, FS_AddElement
  <1>5. CASE P = {}
    BY <1>2, <1>5 DEF Bit
  <1>6. CASE P = {1}
    BY <1>3, <1>6 DEF Bit
  <1>7. CASE P = {2}
    BY <1>3, <1>7 DEF Bit
  <1>8. CASE P = {1} \cup {2}
    BY <1>3, <1>4, <1>8 DEF Bit
  <1> QED
    BY <1>1, <1>5, <1>6, <1>7, <1>8

\* What a slot with these two values, before and now, adds to each count.
changes(o, v) == Bit(o # v)
makes(o, v)   == Bit(o = 0 /\ v # 0)
alters(o, v)  == Bit(o # 0 /\ o # v)
clears(o, v)  == Bit(o # 0 /\ v = 0)

\* The slots after a store.
stored(new, s, v) == [new EXCEPT ![s] = v]

\* What one store changes of the counts.
LEMMA StoredSlot ==
  ASSUME NEW old \in Storage, NEW new \in Storage, NEW s \in Slots, NEW v \in Nat
  PROVE  LET next == stored(new, s, v)
             o == old[s]
             c == new[s]
         IN  /\ next \in Storage
             /\ Cardinality(changed(old, next))
                  = Cardinality(changed(old, new)) + (changes(o, v) - changes(o, c))
             /\ Cardinality(made(old, next))
                  = Cardinality(made(old, new)) + (makes(o, v) - makes(o, c))
             /\ Cardinality(had(old, next))
                  = Cardinality(had(old, new)) + (alters(o, v) - alters(o, c))
             /\ Cardinality(cleared(old, next))
                  = Cardinality(cleared(old, new)) + (clears(o, v) - clears(o, c))
  <1> DEFINE next == stored(new, s, v)
  <1>1. next \in Storage /\ \A x \in Slots : next[x] = IF x = s THEN v ELSE new[x]
    BY DEF Storage, stored
  <1>2. s = 1 \/ s = 2
    BY DEF Slots
  <1>3. 1 \in Slots /\ 2 \in Slots
    BY DEF Slots
  <1>4. ASSUME NEW x \in Storage
        PROVE  /\ Cardinality(changed(old, x)) = changes(old[1], x[1]) + changes(old[2], x[2])
               /\ Cardinality(made(old, x)) = makes(old[1], x[1]) + makes(old[2], x[2])
               /\ Cardinality(had(old, x)) = alters(old[1], x[1]) + alters(old[2], x[2])
               /\ Cardinality(cleared(old, x)) = clears(old[1], x[1]) + clears(old[2], x[2])
    <2>1. /\ 1 \in changed(old, x) <=> old[1] # x[1]
          /\ 2 \in changed(old, x) <=> old[2] # x[2]
          /\ changed(old, x) \in SUBSET Slots
      BY <1>3 DEF changed
    <2>2. /\ 1 \in made(old, x) <=> old[1] = 0 /\ x[1] # 0
          /\ 2 \in made(old, x) <=> old[2] = 0 /\ x[2] # 0
          /\ made(old, x) \in SUBSET Slots
      BY <1>3 DEF made
    <2>3. /\ 1 \in had(old, x) <=> old[1] # 0 /\ old[1] # x[1]
          /\ 2 \in had(old, x) <=> old[2] # 0 /\ old[2] # x[2]
          /\ had(old, x) \in SUBSET Slots
      BY <1>3 DEF had
    <2>4. /\ 1 \in cleared(old, x) <=> old[1] # 0 /\ x[1] = 0
          /\ 2 \in cleared(old, x) <=> old[2] # 0 /\ x[2] = 0
          /\ cleared(old, x) \in SUBSET Slots
      BY <1>3 DEF cleared
    <2>5. Cardinality(changed(old, x)) = changes(old[1], x[1]) + changes(old[2], x[2])
      BY <2>1, SlotCount DEF Bit, changes
    <2>6. Cardinality(made(old, x)) = makes(old[1], x[1]) + makes(old[2], x[2])
      BY <2>2, SlotCount DEF Bit, makes
    <2>7. Cardinality(had(old, x)) = alters(old[1], x[1]) + alters(old[2], x[2])
      BY <2>3, SlotCount DEF Bit, alters
    <2>8. Cardinality(cleared(old, x)) = clears(old[1], x[1]) + clears(old[2], x[2])
      BY <2>4, SlotCount DEF Bit, clears
    <2> QED
      BY <2>5, <2>6, <2>7, <2>8
  <1>5. \A x, y : /\ changes(x, y) \in Int /\ makes(x, y) \in Int
                  /\ alters(x, y) \in Int /\ clears(x, y) \in Int
    BY DEF Bit, changes, makes, alters, clears
  <1>6. next[s] = v /\ \A x \in Slots : x # s => next[x] = new[x]
    BY <1>1
  <1> HIDE DEF next
  <1>7. /\ Cardinality(changed(old, next)) = changes(old[1], next[1]) + changes(old[2], next[2])
        /\ Cardinality(made(old, next)) = makes(old[1], next[1]) + makes(old[2], next[2])
        /\ Cardinality(had(old, next)) = alters(old[1], next[1]) + alters(old[2], next[2])
        /\ Cardinality(cleared(old, next)) = clears(old[1], next[1]) + clears(old[2], next[2])
    BY <1>1, <1>4 DEF next
  <1>8. /\ Cardinality(changed(old, new)) = changes(old[1], new[1]) + changes(old[2], new[2])
        /\ Cardinality(made(old, new)) = makes(old[1], new[1]) + makes(old[2], new[2])
        /\ Cardinality(had(old, new)) = alters(old[1], new[1]) + alters(old[2], new[2])
        /\ Cardinality(cleared(old, new)) = clears(old[1], new[1]) + clears(old[2], new[2])
    BY <1>4
  <1>9. /\ Cardinality(changed(old, next))
             = Cardinality(changed(old, new)) + (changes(old[s], v) - changes(old[s], new[s]))
        /\ Cardinality(made(old, next))
             = Cardinality(made(old, new)) + (makes(old[s], v) - makes(old[s], new[s]))
        /\ Cardinality(had(old, next))
             = Cardinality(had(old, new)) + (alters(old[s], v) - alters(old[s], new[s]))
        /\ Cardinality(cleared(old, next))
             = Cardinality(cleared(old, new)) + (clears(old[s], v) - clears(old[s], new[s]))
    <2>1. CASE s = 1
      <3>1. next[1] = v /\ next[2] = new[2]
        BY <1>3, <1>6, <2>1
      <3> QED
        BY <1>5, <1>7, <1>8, <2>1, <3>1
    <2>2. CASE s = 2
      <3>1. next[2] = v /\ next[1] = new[1]
        BY <1>3, <1>6, <2>2
      <3> QED
        BY <1>5, <1>7, <1>8, <2>2, <3>1
    <2> QED
      BY <1>2, <2>1, <2>2
  <1> QED
    BY <1>1, <1>9 DEF next

\* The events that count: stores, those to a slot not used before, and those
\* that bring a slot back to zero or to another value.
AnyEvent     == Event \cup Authorization
Stores       == {e \in Event : e.op = "SSTORE"}
ColdStores   == {e \in Stores : e.cold}
Resets(kind) == {e \in Event : e.resets = kind}

gas_of    == [e \in Event |-> e.gas]
refund_of == [e \in Event |-> e.refund]

\* Refunds r of z and n slots brought back to zero and to another value and of
\* c slots left cleared; u stores enough for d changed slots and those brought
\* back; and the gas g that m slots made, h slots changed from another value
\* and a cold accesses add to that.
RefundIs(r, z, n, c)         == r = 19900 * z + 2800 * n + 4800 * c
EnoughStores(u, d, z, n)     == d + 2 * (z + n) <= u
GasCovers(g, a, z, m, n, h)  == g >= 2100 * a + 19900 * (z + m) + 2800 * (n + h)
GasIs(g, u, a, z, m, n, h)   == g = 100 * u + 2100 * a + 19900 * (z + m) + 2800 * (n + h)

\* All of them add up.
LEMMA SumsOfParts ==
  /\ \A r, z, n, c, r2, z2, n2, c2 \in Int :
       RefundIs(r, z, n, c) /\ RefundIs(r2, z2, n2, c2)
         => RefundIs(r + r2, z + z2, n + n2, c + c2)
  /\ \A u, d, z, n, u2, d2, z2, n2 \in Int :
       EnoughStores(u, d, z, n) /\ EnoughStores(u2, d2, z2, n2)
         => EnoughStores(u + u2, d + d2, z + z2, n + n2)
  /\ \A g, a, z, m, n, h, g2, a2, z2, m2, n2, h2 \in Int :
       GasCovers(g, a, z, m, n, h) /\ GasCovers(g2, a2, z2, m2, n2, h2)
         => GasCovers(g + g2, a + a2, z + z2, m + m2, n + n2, h + h2)
  <1>1. ASSUME NEW r \in Int, NEW z \in Int, NEW n \in Int, NEW c \in Int,
               NEW r2 \in Int, NEW z2 \in Int, NEW n2 \in Int, NEW c2 \in Int,
               RefundIs(r, z, n, c), RefundIs(r2, z2, n2, c2)
        PROVE  RefundIs(r + r2, z + z2, n + n2, c + c2)
    BY <1>1 DEF RefundIs
  <1>2. ASSUME NEW u \in Int, NEW d \in Int, NEW z \in Int, NEW n \in Int,
               NEW u2 \in Int, NEW d2 \in Int, NEW z2 \in Int, NEW n2 \in Int,
               EnoughStores(u, d, z, n), EnoughStores(u2, d2, z2, n2)
        PROVE  EnoughStores(u + u2, d + d2, z + z2, n + n2)
    BY <1>2 DEF EnoughStores
  <1>3. ASSUME NEW g \in Int, NEW a \in Int, NEW z \in Int, NEW m \in Int, NEW n \in Int,
               NEW h \in Int, NEW g2 \in Int, NEW a2 \in Int, NEW z2 \in Int, NEW m2 \in Int,
               NEW n2 \in Int, NEW h2 \in Int,
               GasCovers(g, a, z, m, n, h), GasCovers(g2, a2, z2, m2, n2, h2)
        PROVE  GasCovers(g + g2, a + a2, z + z2, m + m2, n + n2, h + h2)
    BY <1>3 DEF GasCovers
  <1> QED
    BY <1>1, <1>2, <1>3

\* The same of the exact gas.
LEMMA GasAddsUp ==
  ASSUME NEW g \in Int, NEW u \in Int, NEW a \in Int, NEW z \in Int, NEW m \in Int,
         NEW n \in Int, NEW h \in Int, GasIs(g, u, a, z, m, n, h)
  PROVE  \A g2, u2, a2, z2, m2, n2, h2 \in Int :
           GasIs(g2, u2, a2, z2, m2, n2, h2)
             => GasIs(g + g2, u + u2, a + a2, z + z2, m + m2, n + n2, h + h2)
  BY DEF GasIs

\* What the events of a transaction tell of the slots it has used:
\* its refunds are those of its resets and of the slots it leaves cleared; a
\* slot takes a store to change and two to be brought back; and the gas of its
\* operations pays more than the refunds, as every slot is once accessed cold.
\* The gas of the stores is exactly that of the changes, unless a call of the
\* transaction reverted.
Ledger(evs, old, new, slots) ==
  LET zero == number(evs, Resets("zero"))
      nonzero == number(evs, Resets("nonzero"))
  IN  /\ RefundIs(weight(evs, Event, refund_of), zero, nonzero, Cardinality(cleared(old, new)))
      /\ EnoughStores(number(evs, Stores), Cardinality(changed(old, new)), zero, nonzero)
      /\ GasCovers(weight(evs, Event, gas_of), Cardinality(slots),
                   zero, Cardinality(made(old, new)), nonzero, Cardinality(had(old, new)))
      /\ \A s \in Slots \ slots : old[s] = new[s]

StoreGas(evs, old, new) ==
  GasIs(weight(evs, Stores, gas_of), number(evs, Stores), number(evs, ColdStores),
        number(evs, Resets("zero")), Cardinality(made(old, new)),
        number(evs, Resets("nonzero")), Cardinality(had(old, new)))

\* The sets of events and what is summed over them.
LEMMA EventSets ==
  /\ Event \subseteq AnyEvent /\ Stores \subseteq Event /\ ColdStores \subseteq Event
  /\ Resets("zero") \subseteq Event /\ Resets("nonzero") \subseteq Event
  /\ \A e \in Event : /\ gas_of[e] = e.gas /\ refund_of[e] = e.refund
                      /\ e.gas \in Nat /\ e.refund \in Int /\ e.cold \in BOOLEAN
                      /\ e \in Stores <=> e.op = "SSTORE"
                      /\ e \in ColdStores <=> e.op = "SSTORE" /\ e.cold
                      /\ \A kind : e \in Resets(kind) <=> e.resets = kind
  BY DEF Event, AnyEvent, Stores, ColdStores, Resets, gas_of, refund_of

\* Whether an event is a store, brings a slot back or accesses it cold, as a number.
is_store(e)          == Bit(e.op = "SSTORE")
brings_back(e, kind) == Bit(e.resets = kind)
is_cold(e)           == Bit(e.cold)

\* What one event adds to the counts and sums of a transaction.
LEMMA EventCounts ==
  ASSUME NEW evs \in Seq(AnyEvent), NEW e \in Event
  PROVE  LET more == Append(evs, e)
         IN  /\ more \in Seq(AnyEvent)
             /\ number(evs, Stores) \in Nat
             /\ number(more, Stores) = number(evs, Stores) + is_store(e)
             /\ number(evs, ColdStores) \in Nat
             /\ number(more, ColdStores)
                  = number(evs, ColdStores) + Bit(e.op = "SSTORE" /\ e.cold)
             /\ number(evs, Resets("zero")) \in Nat
             /\ number(more, Resets("zero"))
                  = number(evs, Resets("zero")) + brings_back(e, "zero")
             /\ number(evs, Resets("nonzero")) \in Nat
             /\ number(more, Resets("nonzero"))
                  = number(evs, Resets("nonzero")) + brings_back(e, "nonzero")
             /\ weight(evs, Event, gas_of) \in Int
             /\ weight(more, Event, gas_of) = weight(evs, Event, gas_of) + e.gas
             /\ weight(evs, Event, refund_of) \in Int
             /\ weight(more, Event, refund_of) = weight(evs, Event, refund_of) + e.refund
             /\ weight(evs, Stores, gas_of) \in Int
             /\ weight(more, Stores, gas_of)
                  = weight(evs, Stores, gas_of) + (IF e.op = "SSTORE" THEN e.gas ELSE 0)
  <1> DEFINE more == Append(evs, e)
  <1>1. e \in AnyEvent /\ more \in Seq(AnyEvent)
    BY EventSets
  <1>2. ASSUME NEW E, E \subseteq Event, NEW w \in {gas_of, refund_of}
        PROVE  /\ number(evs, E) \in Nat /\ weight(evs, E, w) \in Int
               /\ number(more, E) = number(evs, E) + Bit(e \in E)
               /\ weight(more, E, w) = weight(evs, E, w) + (IF e \in E THEN w[e] ELSE 0)
    <2>1. E \in SUBSET AnyEvent /\ \A x \in E : w[x] \in Int
      BY <1>2, EventSets
    <2>2. /\ number(evs, E) \in Nat /\ weight(evs, E, w) \in Int
          /\ e \in E => /\ number(more, E) = number(evs, E) + 1
                        /\ weight(more, E, w) = weight(evs, E, w) + w[e]
          /\ e \in AnyEvent \ E => /\ number(more, E) = number(evs, E)
                                   /\ weight(more, E, w) = weight(evs, E, w)
      BY <2>1, AppendedEvent
    <2> QED
      BY <1>1, <2>2 DEF Bit
  <1>3. /\ e \in Stores <=> e.op = "SSTORE"
        /\ e \in ColdStores <=> e.op = "SSTORE" /\ e.cold
        /\ e \in Resets("zero") <=> e.resets = "zero"
        /\ e \in Resets("nonzero") <=> e.resets = "nonzero"
        /\ gas_of[e] = e.gas /\ refund_of[e] = e.refund
    BY EventSets
  <1>4. /\ Stores \subseteq Event /\ ColdStores \subseteq Event
        /\ Resets("zero") \subseteq Event /\ Resets("nonzero") \subseteq Event
        /\ Event \subseteq Event
    BY EventSets
  <1>5. gas_of \in {gas_of, refund_of} /\ refund_of \in {gas_of, refund_of}
    OBVIOUS
  <1> HIDE DEF more
  <1>6. /\ number(evs, Stores) \in Nat /\ weight(evs, Stores, gas_of) \in Int
        /\ number(more, Stores) = number(evs, Stores) + Bit(e \in Stores)
        /\ weight(more, Stores, gas_of)
             = weight(evs, Stores, gas_of) + (IF e \in Stores THEN gas_of[e] ELSE 0)
    BY <1>2, <1>4, <1>5
  <1>7. /\ number(evs, ColdStores) \in Nat
        /\ number(more, ColdStores) = number(evs, ColdStores) + Bit(e \in ColdStores)
    BY <1>2, <1>4, <1>5
  <1>8. /\ number(evs, Resets("zero")) \in Nat
        /\ number(more, Resets("zero"))
             = number(evs, Resets("zero")) + Bit(e \in Resets("zero"))
    BY <1>2, <1>4, <1>5
  <1>9. /\ number(evs, Resets("nonzero")) \in Nat
        /\ number(more, Resets("nonzero"))
             = number(evs, Resets("nonzero")) + Bit(e \in Resets("nonzero"))
    BY <1>2, <1>4, <1>5
  <1>10. /\ weight(evs, Event, gas_of) \in Int
         /\ weight(more, Event, gas_of) = weight(evs, Event, gas_of) + gas_of[e]
    BY <1>2, <1>4, <1>5
  <1>11. /\ weight(evs, Event, refund_of) \in Int
         /\ weight(more, Event, refund_of) = weight(evs, Event, refund_of) + refund_of[e]
    BY <1>2, <1>4, <1>5
  <1> QED
    BY <1>1, <1>3, <1>6, <1>7, <1>8, <1>9, <1>10, <1>11 DEF Bit, is_store, brings_back, more

\* The same of a store.
LEMMA StoreCounts ==
  ASSUME NEW evs \in Seq(AnyEvent), NEW e \in Event, e.op = "SSTORE"
  PROVE  LET more == Append(evs, e)
         IN  /\ number(evs, Stores) \in Nat
             /\ number(more, Stores) = number(evs, Stores) + 1
             /\ number(evs, ColdStores) \in Nat
             /\ number(more, ColdStores) = number(evs, ColdStores) + is_cold(e)
             /\ number(evs, Resets("zero")) \in Nat
             /\ number(more, Resets("zero"))
                  = number(evs, Resets("zero")) + brings_back(e, "zero")
             /\ number(evs, Resets("nonzero")) \in Nat
             /\ number(more, Resets("nonzero"))
                  = number(evs, Resets("nonzero")) + brings_back(e, "nonzero")
             /\ weight(evs, Event, gas_of) \in Int
             /\ weight(more, Event, gas_of) = weight(evs, Event, gas_of) + e.gas
             /\ weight(evs, Event, refund_of) \in Int
             /\ weight(more, Event, refund_of) = weight(evs, Event, refund_of) + e.refund
             /\ weight(evs, Stores, gas_of) \in Int
             /\ weight(more, Stores, gas_of) = weight(evs, Stores, gas_of) + e.gas
  BY EventCounts DEF Bit, is_store, is_cold

\* What a store costs and refunds, by the value the slot had before the
\* transaction (o), has now (c) and gets (v).
IsStore(e, o, c, v, reverts) ==
  LET restores == ~reverts /\ v # c /\ c # o /\ v = o
      clearing == IF o = 0 \/ reverts THEN 0 ELSE Bit(v = 0) - Bit(c = 0)
  IN  /\ e \in Event /\ e.op = "SSTORE"
      /\ e.gas = (IF e.cold THEN 2100 ELSE 0)
                   + (IF v = c \/ c # o THEN 100 ELSE IF o = 0 THEN 20000 ELSE 2900)
      /\ e.refund = 4800 * clearing + (IF ~restores THEN 0 ELSE IF o = 0 THEN 19900 ELSE 2800)
      /\ e.resets = IF ~restores THEN "none" ELSE IF o = 0 THEN "zero" ELSE "nonzero"

\* The same, as what the slot adds to each count, or nothing when it reverts.
LEMMA StoreTerms ==
  ASSUME NEW e, NEW o \in Nat, NEW c \in Nat, NEW v \in Nat, NEW reverts \in BOOLEAN,
         IsStore(e, o, c, v, reverts)
  PROVE  LET zero == brings_back(e, "zero")
             nonzero == brings_back(e, "nonzero")
             creating == IF reverts THEN 0 ELSE makes(o, v) - makes(o, c)
             altering == IF reverts THEN 0 ELSE alters(o, v) - alters(o, c)
         IN  /\ RefundIs(e.refund, zero, nonzero,
                         IF reverts THEN 0 ELSE clears(o, v) - clears(o, c))
             /\ EnoughStores(1, IF reverts THEN 0 ELSE changes(o, v) - changes(o, c), zero, nonzero)
             /\ ~reverts => GasIs(e.gas, 1, is_cold(e), zero, creating, nonzero, altering)
             /\ GasCovers(e.gas, is_cold(e), zero, creating, nonzero, altering)
  <1> DEFINE restores == ~reverts /\ v # c /\ c # o /\ v = o
  <1>1. /\ e.gas = (IF e.cold THEN 2100 ELSE 0)
                     + (IF v = c \/ c # o THEN 100 ELSE IF o = 0 THEN 20000 ELSE 2900)
        /\ e.refund = 4800 * (IF o = 0 \/ reverts THEN 0 ELSE Bit(v = 0) - Bit(c = 0))
                        + (IF ~restores THEN 0 ELSE IF o = 0 THEN 19900 ELSE 2800)
        /\ e.resets = IF ~restores THEN "none" ELSE IF o = 0 THEN "zero" ELSE "nonzero"
    BY DEF IsStore
  <1> USE DEF Bit, is_cold, brings_back, changes, makes, alters, clears,
              RefundIs, EnoughStores, GasIs, GasCovers
  <1>2. CASE restores /\ o = 0
    BY <1>1, <1>2
  <1>3. CASE restores /\ o # 0
    BY <1>1, <1>3
  <1>4. CASE ~restores
    <2>1. e.resets = "none"
      BY <1>1, <1>4
    <2>2. CASE reverts
      BY <1>1, <2>1, <2>2
    <2>3. CASE ~reverts /\ v = c
      BY <1>1, <1>4, <2>1, <2>3
    <2>4. CASE ~reverts /\ v # c /\ c # o
      BY <1>1, <1>4, <2>1, <2>4
    <2>5. CASE ~reverts /\ v # c /\ c = o
      BY <1>1, <1>4, <2>1, <2>5
    <2> QED
      BY <2>2, <2>3, <2>4, <2>5
  <1> QED
    BY <1>2, <1>3, <1>4

\* A slot counts once among those that were used.
LEMMA UsedSlots ==
  ASSUME NEW slots \in SUBSET Slots, NEW s \in Slots, NEW e, e.cold = (s \notin slots)
  PROVE  /\ slots \cup {s} \in SUBSET Slots
         /\ Cardinality(slots) \in Nat
         /\ Cardinality(slots \cup {s}) = Cardinality(slots) + is_cold(e)
  <1>1. IsFiniteSet(slots) /\ Cardinality(slots) \in Nat
    BY SlotCount
  <1>2. slots \cup {s} \in SUBSET Slots
    OBVIOUS
  <1>3. CASE s \in slots
    <2>1. slots \cup {s} = slots
      BY <1>3
    <2>2. is_cold(e) = 0
      BY <1>3 DEF is_cold, Bit
    <2>3. Cardinality(slots) = Cardinality(slots) + is_cold(e)
      BY <1>1, <2>2
    <2> QED
      BY <1>1, <1>2, <2>1, <2>3
  <1>4. CASE s \notin slots
    <2>1. Cardinality(slots \cup {s}) = Cardinality(slots) + 1
      BY <1>1, <1>4, FS_AddElement
    <2>2. is_cold(e) = 1
      BY <1>4 DEF is_cold, Bit
    <2> QED
      BY <1>1, <1>2, <2>1, <2>2
  <1> QED
    BY <1>3, <1>4

\* The counts of slots are numbers.
LEMMA CountsOfSlots ==
  ASSUME NEW old, NEW new
  PROVE  /\ Cardinality(changed(old, new)) \in Nat /\ Cardinality(made(old, new)) \in Nat
         /\ Cardinality(had(old, new)) \in Nat /\ Cardinality(cleared(old, new)) \in Nat
  BY SlotCount DEF changed, made, had, cleared

\* An event keeps the ledger when it costs and refunds what it changes of the
\* counts: dd slots changed, dm made, dh changed from another value, dc cleared
\* and da used, fewer when negative.
LEMMA LedgerGrows ==
  ASSUME NEW evs \in Seq(AnyEvent), NEW e \in Event, NEW old, NEW new, NEW next,
         NEW slots, NEW used,
         NEW dd \in Int, NEW dm \in Int, NEW dh \in Int, NEW dc \in Int, NEW da \in Int,
         Ledger(evs, old, new, slots),
         Cardinality(changed(old, next)) = Cardinality(changed(old, new)) + dd,
         Cardinality(made(old, next)) = Cardinality(made(old, new)) + dm,
         Cardinality(had(old, next)) = Cardinality(had(old, new)) + dh,
         Cardinality(cleared(old, next)) = Cardinality(cleared(old, new)) + dc,
         Cardinality(slots) \in Nat, Cardinality(used) = Cardinality(slots) + da,
         \A x \in Slots \ used : old[x] = next[x],
         RefundIs(e.refund, brings_back(e, "zero"), brings_back(e, "nonzero"), dc),
         EnoughStores(is_store(e), dd, brings_back(e, "zero"), brings_back(e, "nonzero")),
         GasCovers(e.gas, da, brings_back(e, "zero"), dm, brings_back(e, "nonzero"), dh)
  PROVE  Ledger(Append(evs, e), old, next, used)
  <1> DEFINE more == Append(evs, e)
             zero == brings_back(e, "zero")
             nonzero == brings_back(e, "nonzero")
             gas == e.gas
             refund == e.refund
             store == is_store(e)
  <1>1. /\ number(evs, Stores) \in Nat
        /\ number(more, Stores) = number(evs, Stores) + store
        /\ number(evs, Resets("zero")) \in Nat
        /\ number(more, Resets("zero")) = number(evs, Resets("zero")) + zero
        /\ number(evs, Resets("nonzero")) \in Nat
        /\ number(more, Resets("nonzero")) = number(evs, Resets("nonzero")) + nonzero
        /\ weight(evs, Event, gas_of) \in Int
        /\ weight(more, Event, gas_of) = weight(evs, Event, gas_of) + gas
        /\ weight(evs, Event, refund_of) \in Int
        /\ weight(more, Event, refund_of) = weight(evs, Event, refund_of) + refund
    BY EventCounts
  <1>2. gas \in Int /\ refund \in Int /\ store \in Int /\ zero \in Int /\ nonzero \in Int
    BY EventSets DEF Bit, is_store, brings_back
  <1>3. /\ number(evs, Stores) \in Int
        /\ number(evs, Resets("zero")) \in Int /\ number(evs, Resets("nonzero")) \in Int
        /\ Cardinality(slots) \in Int
        /\ Cardinality(changed(old, new)) \in Int /\ Cardinality(made(old, new)) \in Int
        /\ Cardinality(had(old, new)) \in Int /\ Cardinality(cleared(old, new)) \in Int
    BY <1>1, CountsOfSlots
  <1>4. /\ RefundIs(weight(evs, Event, refund_of), number(evs, Resets("zero")),
                    number(evs, Resets("nonzero")), Cardinality(cleared(old, new)))
        /\ EnoughStores(number(evs, Stores), Cardinality(changed(old, new)),
                        number(evs, Resets("zero")), number(evs, Resets("nonzero")))
        /\ GasCovers(weight(evs, Event, gas_of), Cardinality(slots),
                     number(evs, Resets("zero")), Cardinality(made(old, new)),
                     number(evs, Resets("nonzero")), Cardinality(had(old, new)))
    BY DEF Ledger
  <1> HIDE DEF more, zero, nonzero, gas, refund, store
  <1>5. RefundIs(weight(more, Event, refund_of), number(more, Resets("zero")),
                 number(more, Resets("nonzero")), Cardinality(cleared(old, next)))
    <2>1. RefundIs(refund, zero, nonzero, dc)
      BY DEF refund, zero, nonzero
    <2>2. RefundIs(weight(evs, Event, refund_of) + refund,
                   number(evs, Resets("zero")) + zero,
                   number(evs, Resets("nonzero")) + nonzero,
                   Cardinality(cleared(old, new)) + dc)
      BY <1>1, <1>2, <1>3, <1>4, <2>1, SumsOfParts, Zenon
    <2> QED
      BY <1>1, <2>2, Zenon
  <1>6. EnoughStores(number(more, Stores), Cardinality(changed(old, next)),
                     number(more, Resets("zero")), number(more, Resets("nonzero")))
    <2>1. EnoughStores(store, dd, zero, nonzero)
      BY DEF store, zero, nonzero
    <2>2. EnoughStores(number(evs, Stores) + store, Cardinality(changed(old, new)) + dd,
                       number(evs, Resets("zero")) + zero,
                       number(evs, Resets("nonzero")) + nonzero)
      BY <1>2, <1>3, <1>4, <2>1, SumsOfParts, Zenon
    <2> QED
      BY <1>1, <2>2, Zenon
  <1>7. GasCovers(weight(more, Event, gas_of), Cardinality(used),
                  number(more, Resets("zero")), Cardinality(made(old, next)),
                  number(more, Resets("nonzero")), Cardinality(had(old, next)))
    <2>1. GasCovers(gas, da, zero, dm, nonzero, dh)
      BY DEF gas, zero, nonzero
    <2>2. GasCovers(weight(evs, Event, gas_of) + gas, Cardinality(slots) + da,
                    number(evs, Resets("zero")) + zero, Cardinality(made(old, new)) + dm,
                    number(evs, Resets("nonzero")) + nonzero, Cardinality(had(old, new)) + dh)
      BY <1>1, <1>2, <1>3, <1>4, <2>1, SumsOfParts, Zenon
    <2> QED
      BY <1>1, <2>2, Zenon
  <1> QED
    BY <1>5, <1>6, <1>7 DEF Ledger, more

\* A store is cold when its slot is the first use of it, and is undone in a frame
\* that reverts.
FirstUse(e, s, slots)             == e.cold = (s \notin slots)
left_by_store(new, s, v, reverts) == IF reverts THEN new ELSE stored(new, s, v)

\* A store keeps the ledger, and the gas of the stores unless it reverts.
LEMMA LedgerStore ==
  ASSUME NEW evs \in Seq(AnyEvent), NEW old \in Storage, NEW new \in Storage,
         NEW slots \in SUBSET Slots, Ledger(evs, old, new, slots),
         NEW s \in Slots, NEW v \in Nat, NEW reverts \in BOOLEAN,
         NEW e, IsStore(e, old[s], new[s], v, reverts), FirstUse(e, s, slots),
         NEW next, next = left_by_store(new, s, v, reverts)
  PROVE  /\ next \in Storage
         /\ Ledger(Append(evs, e), old, next, slots \cup {s})
         /\ ~reverts /\ StoreGas(evs, old, new) => StoreGas(Append(evs, e), old, next)
  <1> DEFINE more == Append(evs, e)
             o == old[s]
             c == new[s]
             zero == brings_back(e, "zero")
             nonzero == brings_back(e, "nonzero")
             dd == IF reverts THEN 0 ELSE changes(o, v) - changes(o, c)
             dm == IF reverts THEN 0 ELSE makes(o, v) - makes(o, c)
             dh == IF reverts THEN 0 ELSE alters(o, v) - alters(o, c)
             dc == IF reverts THEN 0 ELSE clears(o, v) - clears(o, c)
  <1>1. e \in Event /\ e.op = "SSTORE" /\ is_store(e) = 1
    BY DEF IsStore, is_store, Bit
  <1>2. o \in Nat /\ c \in Nat
    BY DEF Storage
  <1>3. /\ RefundIs(e.refund, zero, nonzero, dc)
        /\ EnoughStores(is_store(e), dd, zero, nonzero)
        /\ ~reverts => GasIs(e.gas, 1, is_cold(e), zero, dm, nonzero, dh)
        /\ GasCovers(e.gas, is_cold(e), zero, dm, nonzero, dh)
    BY <1>1, <1>2, StoreTerms
  <1>4. /\ slots \cup {s} \in SUBSET Slots /\ Cardinality(slots) \in Nat
        /\ Cardinality(slots \cup {s}) = Cardinality(slots) + is_cold(e)
    <2>1. e.cold = (s \notin slots)
      BY DEF FirstUse
    <2> QED
      BY <2>1, UsedSlots
  <1>5. /\ dd \in Int /\ dm \in Int /\ dh \in Int /\ dc \in Int
        /\ is_cold(e) \in Int /\ zero \in Int /\ nonzero \in Int
    BY DEF changes, makes, alters, clears, is_cold, brings_back, Bit
  <1>6. /\ Cardinality(changed(old, new)) \in Int /\ Cardinality(made(old, new)) \in Int
        /\ Cardinality(had(old, new)) \in Int /\ Cardinality(cleared(old, new)) \in Int
    BY CountsOfSlots
  <1>7. /\ next \in Storage
        /\ Cardinality(changed(old, next)) = Cardinality(changed(old, new)) + dd
        /\ Cardinality(made(old, next)) = Cardinality(made(old, new)) + dm
        /\ Cardinality(had(old, next)) = Cardinality(had(old, new)) + dh
        /\ Cardinality(cleared(old, next)) = Cardinality(cleared(old, new)) + dc
    <2>1. CASE reverts
      <3>1. dd = 0 /\ dm = 0 /\ dh = 0 /\ dc = 0 /\ next = new
        BY <2>1 DEF left_by_store
      <3> HIDE DEF dd, dm, dh, dc
      <3> QED
        BY <1>6, <3>1
    <2>2. CASE ~reverts
      <3>1. next = stored(new, s, v)
        BY <2>2 DEF left_by_store
      <3>2. /\ dd = changes(o, v) - changes(o, c) /\ dm = makes(o, v) - makes(o, c)
            /\ dh = alters(o, v) - alters(o, c) /\ dc = clears(o, v) - clears(o, c)
        BY <2>2
      <3> HIDE DEF dd, dm, dh, dc
      <3> QED
        BY <3>1, <3>2, StoredSlot DEF o, c
    <2> QED
      BY <2>1, <2>2
  <1>8. \A x \in Slots \ (slots \cup {s}) : old[x] = next[x]
    <2>1. \A x \in Slots \ slots : old[x] = new[x]
      BY DEF Ledger
    <2> QED
      BY <2>1 DEF Storage, stored, left_by_store
  <1> HIDE DEF o, c, dd, dm, dh, dc
  <1>9. Ledger(more, old, next, slots \cup {s})
    BY <1>1, <1>3, <1>4, <1>5, <1>7, <1>8, LedgerGrows
  <1>10. ASSUME ~reverts, StoreGas(evs, old, new)
         PROVE  StoreGas(more, old, next)
    <2>1. /\ number(evs, Stores) \in Nat
          /\ number(more, Stores) = number(evs, Stores) + 1
          /\ number(evs, ColdStores) \in Nat
          /\ number(more, ColdStores) = number(evs, ColdStores) + is_cold(e)
          /\ number(evs, Resets("zero")) \in Nat
          /\ number(more, Resets("zero")) = number(evs, Resets("zero")) + zero
          /\ number(evs, Resets("nonzero")) \in Nat
          /\ number(more, Resets("nonzero")) = number(evs, Resets("nonzero")) + nonzero
          /\ weight(evs, Stores, gas_of) \in Int
          /\ weight(more, Stores, gas_of) = weight(evs, Stores, gas_of) + e.gas
      BY <1>1, StoreCounts
    <2> DEFINE g == weight(evs, Stores, gas_of)
               u == number(evs, Stores)
               a == number(evs, ColdStores)
               z == number(evs, Resets("zero"))
               m == Cardinality(made(old, new))
               n == number(evs, Resets("nonzero"))
               h == Cardinality(had(old, new))
               gas == e.gas
               cold_one == is_cold(e)
               one == 1
    <2>2. /\ g \in Int /\ u \in Int /\ a \in Int /\ z \in Int /\ m \in Int /\ n \in Int
          /\ h \in Int
      BY <1>6, <2>1
    <2>3. /\ gas \in Int /\ cold_one \in Int /\ zero \in Int /\ nonzero \in Int
          /\ dm \in Int /\ dh \in Int /\ one \in Int
      BY <1>1, <1>5, EventSets
    <2>4. GasIs(g, u, a, z, m, n, h)
      BY <1>10 DEF StoreGas
    <2>5. GasIs(gas, one, cold_one, zero, dm, nonzero, dh)
      BY <1>3, <1>10
    <2>6. GasIs(g + gas, u + one, a + cold_one, z + zero, m + dm, n + nonzero, h + dh)
      <3> HIDE DEF g, u, a, z, m, n, h, gas, cold_one, one, zero, nonzero
      <3>1. \A g2, u2, a2, z2, m2, n2, h2 \in Int :
              GasIs(g2, u2, a2, z2, m2, n2, h2)
                => GasIs(g + g2, u + u2, a + a2, z + z2, m + m2, n + n2, h + h2)
        BY <2>2, <2>4, GasAddsUp, Zenon
      <3> QED
        BY <2>3, <2>5, <3>1, Zenon
    <2> HIDE DEF more, zero, nonzero
    <2>7. GasIs(weight(more, Stores, gas_of), number(more, Stores), number(more, ColdStores),
                number(more, Resets("zero")), Cardinality(made(old, next)),
                number(more, Resets("nonzero")), Cardinality(had(old, next)))
      BY <1>7, <2>1, <2>6, Zenon
    <2> QED
      BY <2>7 DEF StoreGas
  <1> QED
    BY <1>7, <1>9, <1>10

\* Any other operation keeps both: it is paid for the slot it may have used.
LEMMA LedgerOther ==
  ASSUME NEW evs \in Seq(AnyEvent), NEW e \in Event, e.op # "SSTORE",
         e.gas = OtherGas, e.refund = 0, e.resets = "none",
         NEW old \in Storage, NEW new \in Storage, NEW slots \in SUBSET Slots,
         NEW used \in SUBSET Slots, used = slots \/ \E s \in Slots : used = slots \cup {s},
         Ledger(evs, old, new, slots)
  PROVE  /\ Ledger(Append(evs, e), old, new, used)
         /\ StoreGas(evs, old, new) => StoreGas(Append(evs, e), old, new)
  <1>1. /\ is_store(e) = 0 /\ brings_back(e, "zero") = 0 /\ brings_back(e, "nonzero") = 0
    BY DEF is_store, brings_back, Bit
  <1>2. PICK da \in {0, 1} : Cardinality(used) = Cardinality(slots) + da
    <2>1. Cardinality(slots) \in Nat /\ IsFiniteSet(slots)
      BY SlotCount
    <2>2. CASE used = slots
      BY <2>1, <2>2
    <2>3. ASSUME NEW s \in Slots, used = slots \cup {s}, s \notin slots
          PROVE  Cardinality(used) = Cardinality(slots) + 1
      BY <2>1, <2>3, FS_AddElement
    <2>4. ASSUME NEW s \in Slots, used = slots \cup {s}, s \in slots
          PROVE  used = slots
      BY <2>4
    <2> QED
      BY <2>2, <2>3, <2>4
  <1>3. /\ RefundIs(e.refund, 0, 0, 0) /\ EnoughStores(0, 0, 0, 0)
        /\ GasCovers(e.gas, da, 0, 0, 0, 0)
    BY <1>2 DEF RefundIs, EnoughStores, GasCovers, OtherGas
  <1>4. /\ Cardinality(changed(old, new)) = Cardinality(changed(old, new)) + 0
        /\ Cardinality(made(old, new)) = Cardinality(made(old, new)) + 0
        /\ Cardinality(had(old, new)) = Cardinality(had(old, new)) + 0
        /\ Cardinality(cleared(old, new)) = Cardinality(cleared(old, new)) + 0
    BY CountsOfSlots
  <1>5. \A x \in Slots \ used : old[x] = new[x]
    BY DEF Ledger
  <1>6. Cardinality(slots) \in Nat /\ da \in Int /\ 0 \in Int
    BY <1>2, SlotCount
  <1>7. Ledger(Append(evs, e), old, new, used)
    BY <1>1, <1>2, <1>3, <1>4, <1>5, <1>6, LedgerGrows
  <1>8. /\ number(evs, Stores) \in Nat
        /\ number(Append(evs, e), Stores) = number(evs, Stores)
        /\ number(evs, ColdStores) \in Nat
        /\ number(Append(evs, e), ColdStores) = number(evs, ColdStores)
        /\ number(evs, Resets("zero")) \in Nat
        /\ number(Append(evs, e), Resets("zero")) = number(evs, Resets("zero"))
        /\ number(evs, Resets("nonzero")) \in Nat
        /\ number(Append(evs, e), Resets("nonzero")) = number(evs, Resets("nonzero"))
        /\ weight(evs, Stores, gas_of) \in Int
        /\ weight(Append(evs, e), Stores, gas_of) = weight(evs, Stores, gas_of)
    <2>1. e \in AnyEvent \ Stores /\ e \in AnyEvent \ ColdStores
          /\ e \in AnyEvent \ Resets("zero") /\ e \in AnyEvent \ Resets("nonzero")
      BY EventSets
    <2>2. /\ Stores \in SUBSET AnyEvent /\ ColdStores \in SUBSET AnyEvent
          /\ Resets("zero") \in SUBSET AnyEvent /\ Resets("nonzero") \in SUBSET AnyEvent
          /\ \A x \in Event : gas_of[x] \in Int
          /\ Stores \subseteq Event /\ ColdStores \subseteq Event
          /\ Resets("zero") \subseteq Event /\ Resets("nonzero") \subseteq Event
      BY EventSets
    <2>3. ASSUME NEW E \in SUBSET AnyEvent, E \subseteq Event, e \in AnyEvent \ E
          PROVE  /\ number(evs, E) \in Nat /\ number(Append(evs, e), E) = number(evs, E)
                 /\ weight(evs, E, gas_of) \in Int
                 /\ weight(Append(evs, e), E, gas_of) = weight(evs, E, gas_of)
      <3>1. \A x \in E : gas_of[x] \in Int
        BY <2>2, <2>3
      <3> QED
        BY <2>3, <3>1, AppendedEvent
    <2> QED
      BY <2>1, <2>2, <2>3
  <1> QED
    BY <1>7, <1>8 DEF StoreGas

\* A transaction starts with nothing to account for but its authorizations.
LEMMA LedgerStart ==
  ASSUME NEW evs, evs = <<>> \/ \E a \in Authorization : evs = <<a>>, NEW old \in Storage
  PROVE  evs \in Seq(AnyEvent) /\ Ledger(evs, old, old, {}) /\ StoreGas(evs, old, old)
  <1>1. evs \in Seq(AnyEvent) /\ \A k \in DOMAIN evs : evs[k] \in Authorization
    <2>1. CASE evs = <<>>
      BY <2>1
    <2>2. ASSUME NEW a \in Authorization, evs = <<a>>
          PROVE  evs \in Seq(AnyEvent) /\ \A k \in DOMAIN evs : evs[k] \in Authorization
      <3>1. a \in AnyEvent
        BY DEF AnyEvent
      <3>2. evs \in Seq(AnyEvent) /\ DOMAIN evs = 1 .. 1 /\ evs[1] = a
        BY <2>2, <3>1
      <3>3. ASSUME NEW k \in DOMAIN evs PROVE evs[k] = a
        BY <3>2
      <3> QED
        BY <3>2, <3>3
    <2> QED
      BY <2>1, <2>2
  <1>2. \A e \in Event : e \notin Authorization
    BY DEF Event, Authorization
  <1>3. ASSUME NEW E, E \subseteq Event
        PROVE  number(evs, E) = 0 /\ \A w : weight(evs, E, w) = 0
    <2>1. places(evs, E) = {}
      BY <1>1, <1>2, <1>3 DEF places
    <2>2. number(evs, E) = 0
      BY <2>1, FS_EmptySet DEF number
    <2>3. ASSUME NEW w PROVE weight(evs, E, w) = 0
      <3> DEFINE f == [k \in places(evs, E) |-> w[evs[k]]]
      <3>1. DOMAIN f = {} /\ f = [k \in {} |-> w[evs[k]]]
        BY <2>1
      <3> QED
        BY <2>1, <3>1, SumOfNone DEF weight
    <2> QED
      BY <2>2, <2>3
  <1>4. /\ Cardinality(changed(old, old)) = 0 /\ Cardinality(made(old, old)) = 0
        /\ Cardinality(had(old, old)) = 0 /\ Cardinality(cleared(old, old)) = 0
    <2>1. /\ changed(old, old) = {} /\ made(old, old) = {}
          /\ had(old, old) = {} /\ cleared(old, old) = {}
      BY DEF changed, made, had, cleared
    <2> QED
      BY <2>1, FS_EmptySet
  <1>5. /\ number(evs, Stores) = 0 /\ number(evs, ColdStores) = 0
        /\ number(evs, Resets("zero")) = 0 /\ number(evs, Resets("nonzero")) = 0
        /\ weight(evs, Event, gas_of) = 0 /\ weight(evs, Event, refund_of) = 0
        /\ weight(evs, Stores, gas_of) = 0
    BY <1>3, EventSets
  <1>6. Cardinality({}) = 0
    BY FS_EmptySet
  <1>7. Ledger(evs, old, old, {})
    BY <1>4, <1>5, <1>6 DEF Ledger, RefundIs, EnoughStores, GasCovers
  <1>8. StoreGas(evs, old, old)
    BY <1>4, <1>5 DEF StoreGas, GasIs
  <1> QED
    BY <1>1, <1>7, <1>8

\* The refunds of a transaction are a count, and its gas pays for them.
LEMMA GasPaysRefunds ==
  ASSUME NEW evs \in Seq(AnyEvent), NEW old \in Storage, NEW new \in Storage,
         NEW slots \in SUBSET Slots, Ledger(evs, old, new, slots)
  PROVE  /\ weight(evs, Event, refund_of) \in Nat /\ weight(evs, Event, gas_of) \in Nat
         /\ weight(evs, Event, gas_of) >= weight(evs, Event, refund_of)
  <1>1. /\ number(evs, Resets("zero")) \in Nat /\ number(evs, Resets("nonzero")) \in Nat
        /\ weight(evs, Event, gas_of) \in Int /\ weight(evs, Event, refund_of) \in Int
    <2>1. /\ Event \in SUBSET AnyEvent
          /\ Resets("zero") \in SUBSET AnyEvent /\ Resets("nonzero") \in SUBSET AnyEvent
          /\ \A e \in Event : gas_of[e] \in Int /\ refund_of[e] \in Int
          /\ Resets("zero") \subseteq Event /\ Resets("nonzero") \subseteq Event
      BY EventSets
    <2> QED
      BY <2>1, AppendedEvent
  <1>2. /\ Cardinality(made(old, new)) \in Nat /\ Cardinality(had(old, new)) \in Nat
        /\ Cardinality(cleared(old, new)) \in Nat /\ Cardinality(slots) \in Nat
    BY CountsOfSlots, SlotCount
  <1>3. /\ Cardinality(cleared(old, new)) <= Cardinality(had(old, new))
        /\ Cardinality(cleared(old, new)) <= Cardinality(slots)
    <2>1. cleared(old, new) \subseteq had(old, new) /\ IsFiniteSet(had(old, new))
      <3>1. had(old, new) \in SUBSET Slots
        BY DEF had
      <3> QED
        BY <3>1, SlotCount DEF cleared, had
    <2>2. cleared(old, new) \subseteq slots /\ IsFiniteSet(slots)
      BY SlotCount DEF cleared, Ledger
    <2> QED
      BY <2>1, <2>2, FS_Subset
  <1> DEFINE z == number(evs, Resets("zero"))
             n == number(evs, Resets("nonzero"))
             g == weight(evs, Event, gas_of)
             r == weight(evs, Event, refund_of)
             m == Cardinality(made(old, new))
             h == Cardinality(had(old, new))
             c == Cardinality(cleared(old, new))
             a == Cardinality(slots)
  <1>4. RefundIs(r, z, n, c) /\ GasCovers(g, a, z, m, n, h)
    BY DEF Ledger
  <1>5. r = 19900 * z + 2800 * n + 4800 * c
    BY <1>4 DEF RefundIs
  <1>6. g >= 2100 * a + 19900 * (z + m) + 2800 * (n + h)
    BY <1>4 DEF GasCovers
  <1> HIDE DEF z, n, g, r, m, h, c, a
  <1>7. /\ z \in Nat /\ n \in Nat /\ g \in Int /\ r \in Int /\ m \in Nat /\ h \in Nat
        /\ c \in Nat /\ a \in Nat /\ c <= h /\ c <= a
    BY <1>1, <1>2, <1>3 DEF z, n, g, r, m, h, c, a
  <1>8. r >= 0 /\ g >= r
    BY <1>5, <1>6, <1>7
  <1> QED
    BY <1>7, <1>8 DEF r, g

-----------------------------------------------------------------------------
(* The block.  Every step keeps the ledger of the transaction it is about. *)

AnAccount == [balance: Nat, nonce: Nat, code: {"", "contract", "delegation"}, storage: Storage]
World     == [Addresses -> AnAccount]

SameStorage(w, v, A) == \A a \in A : w[a].storage = v[a].storage

\* What its events tell of the world a transaction found and the one it made:
\* only the contract stores.
Accounted(tx, w) ==
  /\ SameStorage(tx.before, w, Addresses \ {Contract})
  /\ Ledger(tx.events, tx.before[Contract].storage, w[Contract].storage, tx.slots)
  /\ ~tx.reverts => StoreGas(tx.events, tx.before[Contract].storage, w[Contract].storage)

Opened ==
  [before: World, started: World, touched: SUBSET Addresses, slots: SUBSET Slots,
   created: SUBSET Addresses, reverts: BOOLEAN, events: Seq(AnyEvent)]

Executions ==
  [before: World, after: World, touched: SUBSET Addresses, slots: SUBSET Slots,
   created: SUBSET Addresses, reverts: BOOLEAN, events: Seq(AnyEvent), failed: BOOLEAN]

\* A failing transaction leaves all storage as it was, and its gas is a count.
ExecutedTransactions ==
  {tx \in Executions :
     IF tx.failed THEN /\ SameStorage(tx.before, tx.after, Addresses)
                       /\ weight(tx.events, Event, gas_of) \in Nat
     ELSE Accounted(tx, tx.after)}

WorldInv == scenario \in Scenarios /\ world \in World

OpenInv ==
  open # Closed =>
    /\ open \in Opened
    /\ SameStorage(open.before, open.started, Addresses)
    /\ Accounted(open, world)

BlockInv == WorldInv /\ OpenInv /\ txs \in Seq(ExecutedTransactions)

\* Moving value keeps the world and its storage.
LEMMA Moved ==
  ASSUME NEW w \in World, NEW from \in Addresses, NEW to \in Addresses, NEW value \in Nat,
         w[from].balance >= value
  PROVE  /\ move(w, from, to, value) \in World
         /\ SameStorage(w, move(w, from, to, value), Addresses)
         /\ \A a \in Addresses \ {from} : move(w, from, to, value)[a].balance >= w[a].balance
         /\ move(w, from, to, value)[from].balance >= w[from].balance - value
  <1> DEFINE v == move(w, from, to, value)
  <1>1. ASSUME NEW a \in Addresses
        PROVE  /\ v[a] \in AnAccount /\ v[a].storage = w[a].storage
               /\ a # from => v[a].balance >= w[a].balance
               /\ a = from => v[a].balance >= w[a].balance - value
    <2>1. w[a] \in AnAccount
      BY DEF World
    <2>2. w[a].balance \in Nat
      BY <2>1 DEF AnAccount
    <2> DEFINE b == w[a].balance - (IF a = from THEN value ELSE 0) + (IF a = to THEN value ELSE 0)
    <2>3. v[a] = [w[a] EXCEPT !.balance = b]
      BY DEF move
    <2>4. /\ b \in Nat
          /\ a # from => b >= w[a].balance
          /\ a = from => b >= w[a].balance - value
      <3>1. CASE a = from
        BY <2>2, <3>1
      <3>2. CASE a # from
        BY <2>2, <3>2
      <3> QED
        BY <3>1, <3>2
    <2> HIDE DEF b, v
    <2> QED
      BY <2>1, <2>3, <2>4 DEF AnAccount
  <1>2. v = [a \in Addresses |-> v[a]]
    BY DEF move
  <1> QED
    BY <1>1, <1>2 DEF World, SameStorage

\* An account is one.
LEMMA AccountType ==
  ASSUME NEW balance \in Nat, NEW nonce \in Nat, NEW code \in {"", "contract", "delegation"},
         NEW storage \in Storage
  PROVE  Account(balance, nonce, code, storage) \in AnAccount
  BY DEF Account, AnAccount

\* The parent's world, with nothing open.
LEMMA BlockInit == Init => BlockInv
  <1> SUFFICES ASSUME Init PROVE BlockInv
    OBVIOUS
  <1>1. /\ scenario \in Scenarios /\ world = Parent /\ open = Closed /\ txs = <<>>
    BY DEF Init
  <1>2. Parent \in World
    <2> DEFINE none == [s \in Slots |-> 0]
               one == [s \in Slots |-> IF s = 1 THEN 1 ELSE 0]
               parents(e) == [a \in Addresses |->
                                CASE a = Sender -> Account(20, 1, "", none)
                                  [] a = "proposer" -> Account(0, 1, "", none)
                                  [] a = Contract -> Account(2, 1, "contract", one)
                                  [] OTHER -> e]
    <2>1. none \in Storage /\ one \in Storage
      BY DEF Storage
    <2>2. Parent = parents(Account(0, 0, "", none))
      BY DEF Parent, Empty
    <2> HIDE DEF none, one
    <2>3. /\ Account(20, 1, "", none) \in AnAccount /\ Account(0, 1, "", none) \in AnAccount
          /\ Account(2, 1, "contract", one) \in AnAccount
          /\ Account(0, 0, "", none) \in AnAccount
      BY <2>1, AccountType
    <2>4. ASSUME NEW a \in Addresses PROVE parents(Account(0, 0, "", none))[a] \in AnAccount
      BY <2>3 DEF Addresses, Sender, Contract
    <2> QED
      BY <2>2, <2>4 DEF World
  <1> QED
    BY <1>1, <1>2 DEF BlockInv, WorldInv, OpenInv

\* A transaction starts on the world it found, with no slot used.
LEMMA BlockBegin ==
  ASSUME BlockInv, NEW evs, evs = <<>> \/ \E a \in Authorization : evs = <<a>>, Begin(evs)
  PROVE  BlockInv'
  <1> DEFINE tip == effective_gas_price - base_fee_per_gas
             moved == move(world, Sender, fee_recipient, tip)
             started == [moved EXCEPT
                           ![Sender].balance = @ - base_fee_per_gas,
                           ![Sender].nonce = @ + 1,
                           ![Sender].code = IF evs = <<>> THEN @ ELSE evs[1].code]
  <1>1. /\ world \in World /\ scenario \in Scenarios /\ txs \in Seq(ExecutedTransactions)
    BY DEF BlockInv, WorldInv
  <1>2. Sender \in Addresses /\ Contract \in Addresses /\ fee_recipient \in Addresses
    BY <1>1, ScenarioAssumption DEF Addresses, fee_recipient
  <1>3. /\ world' = started
        /\ open' = [before |-> world, started |-> started,
                    touched |-> {Sender, Contract, fee_recipient},
                    slots |-> {}, created |-> {}, reverts |-> FALSE, events |-> evs]
        /\ world[Sender].balance >= effective_gas_price
        /\ UNCHANGED <<scenario, parent, txs, withdrawals>>
    BY DEF Begin
  <1>4. /\ moved \in World /\ SameStorage(world, moved, Addresses)
        /\ moved[Sender].balance >= 1
    <2>1. world[Sender].balance \in Nat
      BY <1>1, <1>2 DEF World, AnAccount
    <2>2. tip = 1 /\ world[Sender].balance >= 2
      BY <1>3 DEF effective_gas_price, base_fee_per_gas
    <2> HIDE DEF tip
    <2>3. tip \in Nat /\ world[Sender].balance >= tip
      BY <2>1, <2>2
    <2>4. /\ moved \in World /\ SameStorage(world, moved, Addresses)
          /\ moved[Sender].balance >= world[Sender].balance - tip
      BY <1>1, <1>2, <2>3, Moved
    <2> HIDE DEF moved
    <2>5. moved[Sender].balance \in Nat
      <3>1. moved[Sender] \in AnAccount
        BY <1>2, <2>4 DEF World
      <3> QED
        BY <3>1 DEF AnAccount
    <2> QED
      BY <2>1, <2>2, <2>4, <2>5
  <1>5. started \in World /\ SameStorage(world, started, Addresses)
    <2>1. /\ moved[Sender] \in AnAccount /\ moved[Sender].balance \in Nat
          /\ moved[Sender].nonce \in Nat /\ moved[Sender].code \in {"", "contract", "delegation"}
      BY <1>2, <1>4 DEF World, AnAccount
    <2> DEFINE balance == moved[Sender].balance - base_fee_per_gas
               nonce == moved[Sender].nonce + 1
               code == IF evs = <<>> THEN moved[Sender].code ELSE evs[1].code
               sender == [moved[Sender] EXCEPT !.balance = balance, !.nonce = nonce, !.code = code]
    <2>2. balance \in Nat /\ nonce \in Nat
      <3> DEFINE b == moved[Sender].balance
                 n == moved[Sender].nonce
      <3>1. b \in Nat /\ n \in Nat /\ b >= 1
        BY <1>4, <2>1
      <3>2. balance = b - 1 /\ nonce = n + 1
        BY DEF base_fee_per_gas
      <3> HIDE DEF b, n, balance, nonce
      <3> QED
        BY <3>1, <3>2
    <2>3. code \in {"", "contract", "delegation"}
      <3> HIDE DEF moved
      <3>1. ASSUME evs # <<>> PROVE evs[1].code \in {"", "delegation"}
        <4>1. PICK a \in Authorization : evs = <<a>>
          BY <3>1
        <4> QED
          BY <4>1 DEF Authorization
      <3> QED
        BY <2>1, <3>1
    <2> HIDE DEF moved
    <2>4. started = [moved EXCEPT ![Sender] = sender]
      BY <1>2, <1>4, <2>1 DEF World, AnAccount
    <2> HIDE DEF balance, nonce, code
    <2>5. sender \in AnAccount /\ sender.storage = moved[Sender].storage
      BY <2>1, <2>2, <2>3 DEF AnAccount
    <2> HIDE DEF sender, started
    <2>6. started \in World
      BY <1>2, <1>4, <2>4, <2>5 DEF World
    <2>7. ASSUME NEW a \in Addresses PROVE started[a].storage = world[a].storage
      <3>1. moved[a].storage = world[a].storage
        BY <1>4 DEF SameStorage
      <3>2. started[a] = IF a = Sender THEN sender ELSE moved[a]
        BY <1>4, <2>4 DEF World
      <3> QED
        BY <2>5, <3>1, <3>2
    <2> QED
      BY <2>6, <2>7 DEF SameStorage
  <1> HIDE DEF started, moved, tip
  <1>6. WorldInv'
    BY <1>1, <1>3, <1>5 DEF WorldInv
  <1>7. OpenInv'
    <2>1. world[Contract].storage \in Storage
      BY <1>1, <1>2 DEF World, AnAccount
    <2>2. /\ evs \in Seq(AnyEvent)
          /\ Ledger(evs, world[Contract].storage, world[Contract].storage, {})
          /\ StoreGas(evs, world[Contract].storage, world[Contract].storage)
      BY <2>1, LedgerStart
    <2>3. started[Contract].storage = world[Contract].storage
      BY <1>2, <1>5 DEF SameStorage
    <2>4. open' \in Opened
      <3>1. {Sender, Contract, fee_recipient} \in SUBSET Addresses
        BY <1>2
      <3> QED
        BY <1>1, <1>3, <1>5, <2>2, <3>1 DEF Opened
    <2>5. /\ open'.before = world /\ open'.started = started /\ open'.slots = {}
          /\ open'.events = evs
      BY <1>3
    <2>6. SameStorage(open'.before, open'.started, Addresses)
      BY <1>5, <2>5
    <2>7. Accounted(open', world')
      BY <1>3, <1>5, <2>2, <2>3, <2>5 DEF Accounted, SameStorage
    <2> QED
      BY <2>4, <2>6, <2>7 DEF OpenInv
  <1> QED
    BY <1>1, <1>3, <1>6, <1>7 DEF BlockInv

\* What an operation records of itself in the transaction in execution.
recorded(touched, slots, created, reverts, e) ==
  [open EXCEPT !.touched = @ \cup touched,
               !.slots = @ \cup slots,
               !.created = @ \cup created,
               !.reverts = @ \/ reverts,
               !.events = Append(@, e)]

\* A step that records an operation and keeps the ledger keeps the invariant.
LEMMA BlockGrows ==
  ASSUME BlockInv, open # Closed,
         NEW w \in World, NEW touched \in SUBSET Addresses, NEW slots \in SUBSET Slots,
         NEW created \in SUBSET Addresses, NEW reverts \in BOOLEAN, NEW e \in Event,
         world' = w, open' = recorded(touched, slots, created, reverts, e),
         UNCHANGED <<scenario, txs>>,
         SameStorage(open.before, w, Addresses \ {Contract}),
         Ledger(Append(open.events, e), open.before[Contract].storage, w[Contract].storage,
                open.slots \cup slots),
         ~open.reverts /\ ~reverts =>
           StoreGas(Append(open.events, e), open.before[Contract].storage,
                    w[Contract].storage)
  PROVE  BlockInv'
  <1>1. /\ open \in Opened /\ SameStorage(open.before, open.started, Addresses)
        /\ scenario \in Scenarios /\ txs \in Seq(ExecutedTransactions)
    BY DEF BlockInv, WorldInv, OpenInv
  <1>2. /\ open'.before = open.before /\ open'.started = open.started
        /\ open'.slots = open.slots \cup slots /\ open'.reverts = (open.reverts \/ reverts)
        /\ open'.events = Append(open.events, e)
    BY <1>1 DEF recorded, Opened
  <1>3. open' \in Opened
    <2>1. open.events \in Seq(AnyEvent) /\ e \in AnyEvent
      BY <1>1, EventSets DEF Opened
    <2>2. Append(open.events, e) \in Seq(AnyEvent)
      BY <2>1
    <2> DEFINE more == Append(open.events, e)
    <2>3. open' = [before |-> open.before, started |-> open.started,
                   touched |-> open.touched \cup touched, slots |-> open.slots \cup slots,
                   created |-> open.created \cup created, reverts |-> open.reverts \/ reverts,
                   events |-> more]
      BY <1>1 DEF recorded, Opened
    <2> HIDE DEF more
    <2>4. /\ open.before \in World /\ open.started \in World
          /\ open.touched \in SUBSET Addresses /\ open.slots \in SUBSET Slots
          /\ open.created \in SUBSET Addresses /\ open.reverts \in BOOLEAN
      BY <1>1 DEF Opened
    <2> QED
      BY <2>2, <2>3, <2>4 DEF Opened, more
  <1>4. Accounted(open', w)
    BY <1>2 DEF Accounted
  <1> QED
    BY <1>1, <1>2, <1>3, <1>4 DEF BlockInv, WorldInv, OpenInv

\* An operation that stores nothing.
LEMMA BlockOther ==
  ASSUME BlockInv, open # Closed,
         NEW w \in World, SameStorage(world, w, Addresses),
         NEW touched \in SUBSET Addresses, NEW slots \in SUBSET Slots,
         slots = {} \/ \E s \in Slots : slots = {s},
         NEW created \in SUBSET Addresses, NEW reverts \in BOOLEAN,
         NEW e \in Event, e.op # "SSTORE", e.gas = OtherGas, e.refund = 0, e.resets = "none",
         world' = IF reverts THEN world ELSE w,
         open' = recorded(touched, slots, created, reverts, e),
         UNCHANGED <<scenario, txs>>
  PROVE  BlockInv'
  <1> DEFINE old == open.before[Contract].storage
             new == world[Contract].storage
  <1>1. open \in Opened /\ Accounted(open, world) /\ world \in World
    BY DEF BlockInv, WorldInv, OpenInv
  <1>2. /\ world' \in World /\ world'[Contract].storage = new
        /\ \A a \in Addresses : world'[a].storage = world[a].storage
    <2>1. Contract \in Addresses
      BY DEF Addresses
    <2> QED
      BY <1>1, <2>1 DEF SameStorage
  <1>3. /\ open.events \in Seq(AnyEvent) /\ open.slots \in SUBSET Slots
        /\ old \in Storage /\ new \in Storage
    <2>1. Contract \in Addresses
      BY DEF Addresses
    <2> QED
      BY <1>1, <2>1 DEF Opened, World, AnAccount
  <1>4. Ledger(open.events, old, new, open.slots)
    BY <1>1 DEF Accounted
  <1> DEFINE evs == open.events
             before == open.slots
             used == before \cup slots
  <1>5. used \in SUBSET Slots /\ (used = before \/ \E s \in Slots : used = before \cup {s})
    BY <1>3
  <1> HIDE DEF old, new, evs, before, used
  <1>6. /\ evs \in Seq(AnyEvent) /\ before \in SUBSET Slots /\ old \in Storage /\ new \in Storage
        /\ Ledger(evs, old, new, before)
    BY <1>3, <1>4 DEF old, new, evs, before
  <1>7. /\ Ledger(Append(evs, e), old, new, used)
        /\ StoreGas(evs, old, new) => StoreGas(Append(evs, e), old, new)
    BY <1>5, <1>6, LedgerOther
  <1>8. SameStorage(open.before, world', Addresses \ {Contract})
    BY <1>1, <1>2 DEF Accounted, SameStorage
  <1>9. ~open.reverts => StoreGas(evs, old, new)
    BY <1>1 DEF Accounted, evs, old, new
  <1>10. \A v : world' = v =>
           /\ v \in World /\ SameStorage(open.before, v, Addresses \ {Contract})
           /\ Ledger(Append(open.events, e), open.before[Contract].storage,
                     v[Contract].storage, open.slots \cup slots)
           /\ ~open.reverts /\ ~reverts =>
                StoreGas(Append(open.events, e), open.before[Contract].storage,
                         v[Contract].storage)
    BY <1>2, <1>7, <1>8, <1>9 DEF old, new, evs, before, used
  <1>11. PICK v : v = world'
    OBVIOUS
  <1> QED
    BY <1>10, <1>11, BlockGrows

\* A store, which may revert.
LEMMA BlockStore ==
  ASSUME BlockInv, open # Closed, NEW s \in Slots, NEW v \in Nat, NEW reverts \in BOOLEAN,
         NEW e, e.cold = (s \notin open.slots),
         IsStore(e, open.before[Contract].storage[s], world[Contract].storage[s], v, reverts),
         world' = IF reverts THEN world ELSE [world EXCEPT ![Contract].storage[s] = v],
         open' = recorded({}, {s}, {}, reverts, e),
         UNCHANGED <<scenario, txs>>
  PROVE  BlockInv'
  <1> DEFINE old == open.before[Contract].storage
             new == world[Contract].storage
             next == left_by_store(new, s, v, reverts)
             evs == open.events
             before == open.slots
  <1>1. open \in Opened /\ Accounted(open, world) /\ world \in World
    BY DEF BlockInv, WorldInv, OpenInv
  <1>2. Contract \in Addresses
    BY DEF Addresses
  <1>3. evs \in Seq(AnyEvent) /\ before \in SUBSET Slots /\ old \in Storage /\ new \in Storage
    BY <1>1, <1>2 DEF Opened, World, AnAccount
  <1>4. /\ Ledger(evs, old, new, before) /\ (~open.reverts => StoreGas(evs, old, new))
        /\ SameStorage(open.before, world, Addresses \ {Contract})
    BY <1>1 DEF Accounted
  <1>5. IsStore(e, old[s], new[s], v, reverts) /\ e \in Event /\ e.cold = (s \notin before)
    BY DEF IsStore
  <1>6. /\ next \in Storage
        /\ Ledger(Append(evs, e), old, next, before \cup {s})
        /\ ~reverts /\ StoreGas(evs, old, new) => StoreGas(Append(evs, e), old, next)
    <2>1. next = left_by_store(new, s, v, reverts)
      OBVIOUS
    <2>2. IsStore(e, old[s], new[s], v, reverts)
      BY <1>5
    <2>3. FirstUse(e, s, before)
      BY <1>5 DEF FirstUse
    <2>4. Ledger(evs, old, new, before)
      BY <1>4
    <2> HIDE DEF next, old, new, evs, before
    <2> QED
      BY <1>3, <2>1, <2>2, <2>3, <2>4, LedgerStore
  <1> HIDE DEF old, new, evs, before
  <1>7. /\ world' \in World /\ world'[Contract].storage = next
        /\ \A a \in Addresses \ {Contract} : world'[a].storage = world[a].storage
    <2>1. CASE reverts
      BY <1>1, <2>1 DEF new, left_by_store
    <2>2. CASE ~reverts
      <3> DEFINE kept == stored(new, s, v)
                 contract == [world[Contract] EXCEPT !.storage = kept]
      <3>1. world' = [world EXCEPT ![Contract] = contract]
        BY <1>1, <1>2, <2>2 DEF stored, new, World
      <3>2. kept \in Storage /\ next = kept
        BY <1>6, <2>2 DEF left_by_store
      <3>3. world[Contract] \in AnAccount
        BY <1>1, <1>2 DEF World
      <3> HIDE DEF kept, next
      <3>4. contract \in AnAccount /\ contract.storage = kept
        BY <3>2, <3>3 DEF AnAccount
      <3> HIDE DEF contract
      <3> QED
        BY <1>1, <1>2, <3>1, <3>2, <3>4 DEF World
    <2> QED
      BY <2>1, <2>2
  <1>8. SameStorage(open.before, world', Addresses \ {Contract})
    BY <1>4, <1>7 DEF SameStorage
  <1> HIDE DEF next
  <1>9. \A w : world' = w =>
          /\ w \in World /\ SameStorage(open.before, w, Addresses \ {Contract})
          /\ Ledger(Append(open.events, e), open.before[Contract].storage,
                    w[Contract].storage, open.slots \cup {s})
          /\ ~open.reverts /\ ~reverts =>
               StoreGas(Append(open.events, e), open.before[Contract].storage,
                        w[Contract].storage)
    BY <1>4, <1>6, <1>7, <1>8 DEF old, evs, before
  <1>10. PICK w : w = world'
    OBVIOUS
  <1>11. {} \in SUBSET Addresses /\ {s} \in SUBSET Slots
    OBVIOUS
  <1> QED
    BY <1>5, <1>9, <1>10, <1>11, BlockGrows

\* Every operation, in a frame that reverts or not.
LEMMA BlockOperate ==
  ASSUME BlockInv, NEW o \in Operations, NEW reverts \in BOOLEAN, Operate(o, reverts)
  PROVE  BlockInv'
  <1>1. /\ open # Closed /\ UNCHANGED <<scenario, txs>>
        /\ open \in Opened /\ world \in World
    BY DEF Operate, BlockInv, WorldInv, OpenInv
  <1>2. /\ Contract \in Addresses /\ "new" \in Addresses
        /\ world[Contract] \in AnAccount /\ world["new"] \in AnAccount
        /\ world[Contract].balance \in Nat
    BY <1>1 DEF Addresses, World, AnAccount
  <1>3. ASSUME NEW op \in {"CALL", "SLOAD", "CREATE", "SELFDESTRUCT"},
               NEW was_cold \in BOOLEAN,
               NEW value \in Nat, NEW to \in Addresses
        PROVE  LET e == event(op, was_cold, value, to)
               IN  /\ e \in Event /\ e.op # "SSTORE"
                   /\ e.gas = OtherGas /\ e.refund = 0 /\ e.resets = "none"
    BY DEF event, Event, OtherGas
  <1>4. {} \in SUBSET Addresses /\ {} \in SUBSET Slots
    OBVIOUS
  <1>5. \A a \in Addresses : {a} \in SUBSET Addresses
    OBVIOUS
  <1>6. CASE /\ o.op = "CALL" /\ world[Contract].balance >= o.value
             /\ world' = IF reverts THEN world ELSE move(world, Contract, o.to, o.value)
             /\ open' = recorded({o.to}, {}, {}, reverts,
                                 event("CALL", o.to \notin open.touched, o.value, o.to))
    <2>1. o.to \in Addresses /\ o.value \in Nat
      BY <1>6 DEF Operations
    <2> DEFINE w == move(world, Contract, o.to, o.value)
               e == event("CALL", o.to \notin open.touched, o.value, o.to)
    <2>2. w \in World /\ SameStorage(world, w, Addresses)
      BY <1>1, <1>2, <1>6, <2>1, Moved
    <2>3. /\ e \in Event /\ e.op # "SSTORE"
          /\ e.gas = OtherGas /\ e.refund = 0 /\ e.resets = "none"
      BY <1>3, <2>1
    <2>4. /\ world' = IF reverts THEN world ELSE w
          /\ open' = recorded({o.to}, {}, {}, reverts, e)
      BY <1>6
    <2> HIDE DEF w, e
    <2> QED
      BY <1>1, <1>4, <1>5, <2>1, <2>2, <2>3, <2>4, BlockOther
  <1>7. CASE /\ o.op = "SLOAD"
             /\ world' = IF reverts THEN world ELSE world
             /\ open' = recorded({}, {o.slot}, {}, reverts,
                                 event("SLOAD", o.slot \notin open.slots, 0, Contract))
    <2>1. o.slot \in Slots
      BY <1>7 DEF Operations
    <2> DEFINE e == event("SLOAD", o.slot \notin open.slots, 0, Contract)
    <2>2. SameStorage(world, world, Addresses)
      BY DEF SameStorage
    <2>3. /\ e \in Event /\ e.op # "SSTORE"
          /\ e.gas = OtherGas /\ e.refund = 0 /\ e.resets = "none"
      <3> DEFINE was_cold == o.slot \notin open.slots
      <3>1. was_cold \in BOOLEAN /\ 0 \in Nat /\ Contract \in Addresses
        BY <1>2
      <3>2. "SLOAD" \in {"CALL", "SLOAD", "CREATE", "SELFDESTRUCT"}
        OBVIOUS
      <3>3. e = event("SLOAD", was_cold, 0, Contract)
        OBVIOUS
      <3> HIDE DEF was_cold, e
      <3> QED
        BY <1>3, <3>1, <3>2, <3>3
    <2>4. open' = recorded({}, {o.slot}, {}, reverts, e) /\ {o.slot} \in SUBSET Slots
      BY <1>7, <2>1
    <2>5. world' = IF reverts THEN world ELSE world
      BY <1>7
    <2> HIDE DEF e
    <2> QED
      BY <1>1, <1>4, <2>1, <2>2, <2>3, <2>4, <2>5, BlockOther
  <1>8. CASE /\ o.op = "SSTORE"
             /\ world' = IF reverts THEN world
                         ELSE [world EXCEPT ![Contract].storage[o.slot] = o.value]
             /\ open' = recorded({}, {o.slot}, {}, reverts,
                                 store_event(o.slot, o.value, o.slot \notin open.slots, reverts))
    <2>1. o.slot \in Slots /\ o.value \in Nat
      BY <1>8 DEF Operations
    <2> DEFINE s == o.slot
               v == o.value
               was_cold == s \notin open.slots
               old == open.before[Contract].storage[s]
               new == world[Contract].storage[s]
               e == store_event(s, v, was_cold, reverts)
    <2>2. old \in Nat /\ new \in Nat
      <3>1. open.before \in World
        BY <1>1 DEF Opened
      <3>2. open.before[Contract] \in AnAccount /\ world[Contract] \in AnAccount
        BY <1>1, <1>2, <3>1 DEF World
      <3>3. open.before[Contract].storage \in Storage /\ world[Contract].storage \in Storage
        BY <3>2 DEF AnAccount
      <3> QED
        BY <2>1, <3>3 DEF Storage
    <2>3. e.cold = was_cold /\ IsStore(e, old, new, v, reverts)
      <3> DEFINE restores == ~reverts /\ v # new /\ new # old /\ v = old
                 clearing == IF old = 0 \/ reverts THEN 0 ELSE Bit(v = 0) - Bit(new = 0)
                 gas == (IF was_cold THEN 2100 ELSE 0)
                          + (IF v = new \/ new # old THEN 100 ELSE IF old = 0 THEN 20000 ELSE 2900)
                 refund == 4800 * clearing
                             + (IF ~restores THEN 0 ELSE IF old = 0 THEN 19900 ELSE 2800)
                 resets == IF ~restores THEN "none" ELSE IF old = 0 THEN "zero" ELSE "nonzero"
      <3>1. e = [op |-> "SSTORE", cold |-> was_cold, value |-> 0, to |-> Contract, gas |-> gas,
                 refund |-> refund, resets |-> resets]
        <4>1. e = [event("SSTORE", was_cold, 0, Contract) EXCEPT
                     !.gas = gas, !.refund = refund, !.resets = resets]
          BY DEF store_event, Bit
        <4> HIDE DEF gas, refund, resets, was_cold, e
        <4> QED
          BY <4>1 DEF event
      <3>2. /\ gas \in Nat /\ refund \in Int /\ resets \in {"none", "zero", "nonzero"}
            /\ was_cold \in BOOLEAN
        BY DEF Bit
      <3>3. /\ gas = (IF was_cold THEN 2100 ELSE 0)
                       + (IF v = new \/ new # old THEN 100 ELSE IF old = 0 THEN 20000 ELSE 2900)
            /\ refund = 4800 * clearing
                          + (IF ~restores THEN 0 ELSE IF old = 0 THEN 19900 ELSE 2800)
            /\ resets = IF ~restores THEN "none" ELSE IF old = 0 THEN "zero" ELSE "nonzero"
        OBVIOUS
      <3> HIDE DEF gas, refund, resets, was_cold, e
      <3>4. /\ e \in Event /\ e.op = "SSTORE" /\ e.cold = was_cold /\ e.gas = gas
            /\ e.refund = refund /\ e.resets = resets
        BY <1>2, <3>1, <3>2 DEF Event
      <3> HIDE DEF old, new, v
      <3> QED
        BY <3>3, <3>4 DEF IsStore, Bit
    <2>4. /\ world' = IF reverts THEN world ELSE [world EXCEPT ![Contract].storage[s] = v]
          /\ open' = recorded({}, {s}, {}, reverts, e)
          /\ s \in Slots /\ v \in Nat
      BY <1>8, <2>1
    <2>5. e.cold = (s \notin open.slots)
      BY <2>3
    <2> HIDE DEF e, was_cold
    <2>6. IsStore(e, open.before[Contract].storage[s], world[Contract].storage[s], v, reverts)
      BY <2>3
    <2> HIDE DEF s, v, old, new
    <2> QED
      BY <1>1, <2>4, <2>5, <2>6, BlockStore
  <1>9. CASE /\ o.op = "CREATE"
             /\ world["new"].nonce = 0 /\ world[Contract].balance >= o.value
             /\ world' = IF reverts THEN world
                         ELSE [move(world, Contract, "new", o.value) EXCEPT
                                 ![Contract].nonce = @ + 1,
                                 !["new"].nonce = 1, !["new"].code = "contract"]
             /\ open' = recorded({"new"}, {}, {"new"}, reverts,
                                 event("CREATE", FALSE, o.value, "new"))
    <2>1. o.value \in Nat
      BY <1>9 DEF Operations
    <2> DEFINE moved == move(world, Contract, "new", o.value)
               w == [moved EXCEPT ![Contract].nonce = @ + 1,
                                  !["new"].nonce = 1, !["new"].code = "contract"]
               e == event("CREATE", FALSE, o.value, "new")
    <2>2. moved \in World /\ SameStorage(world, moved, Addresses)
      BY <1>1, <1>2, <1>9, <2>1, Moved
    <2>3. w \in World /\ SameStorage(world, w, Addresses)
      <3> DEFINE contract == [moved[Contract] EXCEPT !.nonce = @ + 1]
                 created == [moved["new"] EXCEPT !.nonce = 1, !.code = "contract"]
      <3> HIDE DEF moved
      <3>1. Contract # "new" /\ moved[Contract] \in AnAccount /\ moved["new"] \in AnAccount
        BY <1>2, <2>2 DEF Contract, World
      <3>2. w = [moved EXCEPT ![Contract] = contract, !["new"] = created]
        BY <1>2, <2>2, <3>1 DEF World
      <3>3. /\ contract \in AnAccount /\ contract.storage = moved[Contract].storage
            /\ created \in AnAccount /\ created.storage = moved["new"].storage
        <4> DEFINE n == moved[Contract].nonce + 1
        <4>1. contract = [moved[Contract] EXCEPT !.nonce = n]
          OBVIOUS
        <4>2. n \in Nat
          <5>1. moved[Contract].nonce \in Nat
            BY <3>1 DEF AnAccount
          <5> QED
            BY <5>1
        <4> HIDE DEF n, contract
        <4>3. contract \in AnAccount /\ contract.storage = moved[Contract].storage
          BY <3>1, <4>1, <4>2 DEF AnAccount
        <4>4. created \in AnAccount /\ created.storage = moved["new"].storage
          BY <3>1 DEF AnAccount
        <4> QED
          BY <4>3, <4>4
      <3> HIDE DEF w, contract, created
      <3>4. /\ w \in World
            /\ \A a \in Addresses : w[a] = IF a = "new" THEN created
                                           ELSE IF a = Contract THEN contract ELSE moved[a]
        BY <1>2, <2>2, <3>1, <3>2, <3>3 DEF World
      <3>5. ASSUME NEW a \in Addresses PROVE w[a].storage = moved[a].storage
        BY <3>3, <3>4
      <3> QED
        BY <2>2, <3>4, <3>5 DEF SameStorage
    <2>4. /\ e \in Event /\ e.op # "SSTORE"
          /\ e.gas = OtherGas /\ e.refund = 0 /\ e.resets = "none"
      BY <1>2, <1>3, <2>1
    <2>5. /\ world' = IF reverts THEN world ELSE w
          /\ open' = recorded({"new"}, {}, {"new"}, reverts, e)
      BY <1>9
    <2> HIDE DEF w, e, moved
    <2> QED
      BY <1>1, <1>2, <1>4, <1>5, <2>3, <2>4, <2>5, BlockOther
  <1>10. CASE /\ o.op = "SELFDESTRUCT"
              /\ world' = IF reverts THEN world
                          ELSE move(world, Contract, o.to, world[Contract].balance)
              /\ open' = recorded({o.to}, {}, {}, reverts,
                                  event("SELFDESTRUCT", o.to \notin open.touched,
                                        world[Contract].balance, o.to))
    <2>1. o.to \in Addresses
      BY <1>10 DEF Operations
    <2> DEFINE value == world[Contract].balance
               w == move(world, Contract, o.to, value)
               e == event("SELFDESTRUCT", o.to \notin open.touched, value, o.to)
    <2>2. w \in World /\ SameStorage(world, w, Addresses)
      <3>1. value \in Nat /\ world[Contract].balance >= value
        BY <1>2
      <3> QED
        BY <1>1, <1>2, <2>1, <3>1, Moved
    <2>3. /\ e \in Event /\ e.op # "SSTORE"
          /\ e.gas = OtherGas /\ e.refund = 0 /\ e.resets = "none"
      BY <1>2, <1>3, <2>1
    <2>4. /\ world' = IF reverts THEN world ELSE w
          /\ open' = recorded({o.to}, {}, {}, reverts, e)
      BY <1>10
    <2> HIDE DEF w, e
    <2> QED
      BY <1>1, <1>4, <1>5, <2>1, <2>2, <2>3, <2>4, BlockOther
  <1> QED
    BY <1>6, <1>7, <1>8, <1>9, <1>10 DEF Operate, recorded

\* A failing transaction leaves the world it started on.
LEMMA BlockClose ==
  ASSUME BlockInv, NEW fails \in BOOLEAN, Close(fails)
  PROVE  BlockInv'
  <1>1. /\ open \in Opened /\ SameStorage(open.before, open.started, Addresses)
        /\ Accounted(open, world) /\ world \in World
        /\ scenario \in Scenarios /\ txs \in Seq(ExecutedTransactions)
    BY DEF Close, BlockInv, WorldInv, OpenInv
  <1>2. /\ world' = IF fails THEN open.started ELSE world
        /\ open' = Closed /\ scenario' = scenario
    BY DEF Close
  <1>3. world' \in World
    BY <1>1, <1>2 DEF Opened
  <1> DEFINE tx == [before |-> open.before, after |-> world', touched |-> open.touched,
                    slots |-> open.slots, created |-> open.created,
                    reverts |-> open.reverts, events |-> open.events, failed |-> fails]
  <1>4. txs' = Append(txs, tx)
    BY DEF Close
  <1>5. tx \in Executions
    <2>1. world' \in World
      BY <1>3
    <2> QED
      BY <1>1, <2>1 DEF Opened, Executions
  <1>6. /\ tx.before = open.before /\ tx.after = world' /\ tx.events = open.events
        /\ tx.slots = open.slots /\ tx.reverts = open.reverts /\ tx.failed = fails
    OBVIOUS
  <1> HIDE DEF tx
  <1>7. ASSUME ~fails PROVE Accounted(tx, tx.after)
    <2>1. world' = world
      BY <1>2, <1>7
    <2> QED
      BY <1>1, <1>6, <2>1 DEF Accounted
  <1>8. ASSUME fails
        PROVE  /\ SameStorage(tx.before, tx.after, Addresses)
               /\ weight(tx.events, Event, gas_of) \in Nat
    <2> DEFINE old == open.before[Contract].storage
               new == world[Contract].storage
    <2>1. Contract \in Addresses
      BY DEF Addresses
    <2>2. /\ open.events \in Seq(AnyEvent) /\ open.slots \in SUBSET Slots
          /\ old \in Storage /\ new \in Storage
      BY <1>1, <2>1 DEF Opened, World, AnAccount
    <2>3. Ledger(open.events, old, new, open.slots)
      BY <1>1 DEF Accounted
    <2> HIDE DEF old, new
    <2>4. weight(open.events, Event, gas_of) \in Nat
      BY <2>2, <2>3, GasPaysRefunds
    <2> QED
      BY <1>1, <1>2, <1>6, <1>8, <2>4
  <1>9. tx \in ExecutedTransactions
    BY <1>5, <1>6, <1>7, <1>8 DEF ExecutedTransactions
  <1>10. txs' \in Seq(ExecutedTransactions)
    BY <1>1, <1>4, <1>9
  <1> QED
    BY <1>1, <1>2, <1>3, <1>10 DEF BlockInv, WorldInv, OpenInv

\* A withdrawal moves no storage, with no transaction open.
LEMMA BlockWithdraw ==
  ASSUME BlockInv, Withdraw("new")
  PROVE  BlockInv'
  <1>1. /\ world \in World /\ scenario \in Scenarios /\ txs \in Seq(ExecutedTransactions)
        /\ open = Closed
    BY DEF BlockInv, WorldInv, Withdraw
  <1>2. /\ world' = [world EXCEPT !["new"].balance = @ + 1]
        /\ UNCHANGED <<scenario, txs, open>>
    BY DEF Withdraw
  <1>3. "new" \in Addresses /\ world["new"] \in AnAccount
    BY <1>1 DEF Addresses, World
  <1> DEFINE paid == [world["new"] EXCEPT !.balance = @ + 1]
  <1>4. world' = [world EXCEPT !["new"] = paid]
    BY <1>1, <1>2, <1>3 DEF World
  <1>5. paid \in AnAccount
    <2> DEFINE b == world["new"].balance + 1
    <2>1. paid = [world["new"] EXCEPT !.balance = b]
      OBVIOUS
    <2>2. b \in Nat
      <3>1. world["new"].balance \in Nat
        BY <1>3 DEF AnAccount
      <3> QED
        BY <3>1
    <2> HIDE DEF b, paid
    <2> QED
      BY <1>3, <2>1, <2>2 DEF AnAccount
  <1> HIDE DEF paid
  <1>6. world' \in World
    BY <1>1, <1>3, <1>4, <1>5 DEF World
  <1> QED
    BY <1>1, <1>2, <1>6 DEF BlockInv, WorldInv, OpenInv

\* In every reachable state what has been executed is accounted for: every
\* transaction that succeeded in the ledger of its refunds and gas, and one
\* that failed with the storage it found.
THEOREM BlockInvariant == Spec => []BlockInv
  <1>1. ASSUME BlockInv, [Next]_vars PROVE BlockInv'
    <2>1. CASE Begin(<<>>)
      BY <1>1, <2>1, BlockBegin
    <2>2. ASSUME NEW o \in scenario.repertoire, o.op = "AUTHORIZE", Begin(<<o>>)
          PROVE  BlockInv'
      <3>1. o \in Operations
        BY <1>1, ScenarioAssumption DEF BlockInv, WorldInv
      <3>2. o \in Authorization
        BY <2>2, <3>1 DEF Operations, Authorization
      <3>3. \E a \in Authorization : <<o>> = <<a>>
        BY <3>2
      <3> QED
        BY <1>1, <2>2, <3>3, BlockBegin
    <2>3. ASSUME NEW o \in scenario.repertoire, NEW reverts \in BOOLEAN, Operate(o, reverts)
          PROVE  BlockInv'
      <3>1. o \in Operations
        BY <1>1, ScenarioAssumption DEF BlockInv, WorldInv
      <3> QED
        BY <1>1, <2>3, <3>1, BlockOperate
    <2>4. ASSUME NEW fails \in BOOLEAN, Close(fails) PROVE BlockInv'
      BY <1>1, <2>4, BlockClose
    <2>5. CASE Withdraw("new")
      BY <1>1, <2>5, BlockWithdraw
    <2>6. CASE UNCHANGED vars
      BY <1>1, <2>6 DEF vars, BlockInv, WorldInv, OpenInv, Accounted
    <2> QED
      BY <1>1, <2>1, <2>2, <2>3, <2>4, <2>5, <2>6 DEF Next
  <1> QED
    BY <1>1, BlockInit, PTL DEF Spec

-----------------------------------------------------------------------------
(* The rows of a transaction.                                              *)

operation_gas(tx)    == add_up(operations_of(tx), LAMBDA k : tx.events[k].gas)
operation_refund(tx) == add_up(operations_of(tx), LAMBDA k : tx.events[k].refund)

\* The places of a transaction's operations, and what the client adds up there.
LEMMA OperationPlaces ==
  ASSUME NEW tx \in ExecutedTransactions
  PROVE  /\ tx.events \in Seq(AnyEvent)
         /\ operations_of(tx) = places(tx.events, Event)
         /\ operation_gas(tx)
              = weight(tx.events, Event, gas_of)
         /\ operation_refund(tx)
              = weight(tx.events, Event, refund_of)
         /\ IsFiniteSet(DOMAIN tx.events)
         /\ Cardinality(authorizations_of(tx)) \in Nat
  <1>1. tx.events \in Seq(AnyEvent)
    BY DEF ExecutedTransactions, Executions
  <1>2. operations_of(tx) = places(tx.events, Event)
    <2>1. \A k \in DOMAIN tx.events : tx.events[k] \in Event \/ tx.events[k] \in Authorization
      BY <1>1 DEF AnyEvent
    <2>2. /\ \A e \in Event : e.op # "AUTHORIZE"
          /\ \A e \in Authorization : e.op = "AUTHORIZE"
      BY DEF Event, Authorization
    <2>3. \A e \in Authorization : e \notin Event
      BY <2>2
    <2> QED
      BY <2>1, <2>2, <2>3 DEF operations_of, authorizations_of, places
  <1>3. \A k \in places(tx.events, Event) :
          /\ gas_of[tx.events[k]] = tx.events[k].gas
          /\ refund_of[tx.events[k]] = tx.events[k].refund
    BY EventSets DEF places
  <1>4. operation_gas(tx)
          = weight(tx.events, Event, gas_of)
    <2>1. [k \in operations_of(tx) |-> tx.events[k].gas]
            = [k \in places(tx.events, Event) |-> gas_of[tx.events[k]]]
      BY <1>2, <1>3
    <2> QED
      BY <2>1 DEF weight, operation_gas, add_up
  <1>5. operation_refund(tx)
          = weight(tx.events, Event, refund_of)
    <2>1. [k \in operations_of(tx) |-> tx.events[k].refund]
            = [k \in places(tx.events, Event) |-> refund_of[tx.events[k]]]
      BY <1>2, <1>3
    <2> QED
      BY <2>1 DEF weight, operation_refund, add_up
  <1>6. IsFiniteSet(DOMAIN tx.events)
    <2> DEFINE n == Len(tx.events)
    <2>1. DOMAIN tx.events = 1 .. n /\ n \in Int /\ 1 \in Int
      BY <1>1
    <2> HIDE DEF n
    <2>2. IsFiniteSet(1 .. n)
      BY <2>1, FS_Interval
    <2> QED
      BY <2>1, <2>2
  <1>7. Cardinality(authorizations_of(tx)) \in Nat
    BY <1>6, FS_Subset, FS_CardinalityType DEF authorizations_of
  <1> QED
    BY <1>1, <1>2, <1>4, <1>5, <1>6, <1>7

\* The gas of a transaction's operations pays for the refunds it gets.
LEMMA TransactionPaysRefunds ==
  ASSUME NEW tx \in ExecutedTransactions
  PROVE  LET gas == weight(tx.events, Event, gas_of)
             refund == IF tx.failed THEN 0 ELSE weight(tx.events, Event, refund_of)
         IN  gas \in Nat /\ refund \in Nat /\ refund <= gas
  <1>1. CASE tx.failed
    <2>1. weight(tx.events, Event, gas_of) \in Nat
      BY <1>1 DEF ExecutedTransactions
    <2> QED
      BY <1>1, <2>1
  <1>2. CASE ~tx.failed
    <2> DEFINE old == tx.before[Contract].storage
               new == tx.after[Contract].storage
    <2>1. Accounted(tx, tx.after)
      BY <1>2 DEF ExecutedTransactions
    <2>2. Ledger(tx.events, old, new, tx.slots)
      BY <2>1 DEF Accounted
    <2>3. /\ tx.events \in Seq(AnyEvent) /\ tx.slots \in SUBSET Slots
          /\ tx.before \in World /\ tx.after \in World
      BY DEF ExecutedTransactions, Executions
    <2>4. old \in Storage /\ new \in Storage
      BY <2>3 DEF World, AnAccount, Addresses
    <2> HIDE DEF old, new
    <2>5. /\ weight(tx.events, Event, refund_of) \in Nat
          /\ weight(tx.events, Event, gas_of) \in Nat
          /\ weight(tx.events, Event, gas_of) >= weight(tx.events, Event, refund_of)
      BY <2>2, <2>3, <2>4, GasPaysRefunds
    <2> QED
      BY <1>2, <2>5
  <1> QED
    BY <1>1, <1>2

\* What a transaction pays and is refunded are counts, and its gas after the
\* refund covers its base cost.
LEMMA GasOfTransaction ==
  ASSUME NEW tx \in ExecutedTransactions, NEW c \in Contents
  PROVE  /\ gross_gas(tx, c) \in Nat /\ refund_counter(tx) \in Nat
         /\ gas_after_refund(tx, c) = gas_applied(gross_gas(tx, c), refund_counter(tx))
         /\ gas_after_refund(tx, c) \in Nat /\ gas_after_refund(tx, c) >= 21000
  <1> DEFINE auths == Cardinality(authorizations_of(tx))
             gas == weight(tx.events, Event, gas_of)
             refund == IF tx.failed THEN 0 ELSE weight(tx.events, Event, refund_of)
             data == 4 * c.zero + 16 * c.nonzero + 2400 * c.addresses + 1900 * c.keys
  <1>1. gas \in Nat /\ refund \in Nat /\ refund <= gas
    BY TransactionPaysRefunds
  <1>2. auths \in Nat
    BY OperationPlaces
  <1>3. data \in Nat
    <2>1. c \in [zero: Nat, nonzero: Nat, addresses: Nat, keys: Nat, blobs: Nat]
      BY ContentAssumption
    <2>2. c.zero \in Nat /\ c.nonzero \in Nat /\ c.addresses \in Nat /\ c.keys \in Nat
      BY <2>1
    <2> QED
      BY <2>2
  <1>4. gross_gas(tx, c) = 21000 + data + 25000 * auths + gas
    <2>1. gross_gas(tx, c) = 21000 + 4 * c.zero + 16 * c.nonzero + 2400 * c.addresses
                               + 1900 * c.keys + 25000 * auths + gas
      <3>1. gross_gas(tx, c) = 21000 + 4 * c.zero + 16 * c.nonzero + 2400 * c.addresses
                                 + 1900 * c.keys + 25000 * auths + operation_gas(tx)
        BY DEF gross_gas, operation_gas
      <3> QED
        BY <3>1, OperationPlaces
    <2>2. c \in [zero: Nat, nonzero: Nat, addresses: Nat, keys: Nat, blobs: Nat]
      BY ContentAssumption
    <2>3. c.zero \in Nat /\ c.nonzero \in Nat /\ c.addresses \in Nat /\ c.keys \in Nat
      BY <2>2
    <2> HIDE DEF auths, gas
    <2> QED
      BY <1>1, <1>2, <2>1, <2>3
  <1>5. refund_counter(tx) = 12500 * auths + refund
    <2>1. refund_counter(tx)
            = 12500 * auths + (IF tx.failed THEN 0 ELSE operation_refund(tx))
      BY DEF refund_counter, operation_refund
    <2> QED
      BY <2>1, OperationPlaces
  <1> HIDE DEF auths, gas, refund, data
  <1> DEFINE gross == gross_gas(tx, c)
             counter == refund_counter(tx)
  <1>6. /\ gross \in Nat /\ counter \in Nat /\ counter + 21000 <= gross
    BY <1>1, <1>2, <1>3, <1>4, <1>5
  <1>7. gas_after_refund(tx, c) = gas_applied(gross, counter)
    BY DEF gas_after_refund, refunded, gas_applied
  <1> HIDE DEF gross, counter
  <1>8. gas_applied(gross, counter) \in Nat /\ gas_applied(gross, counter) >= 21000
    BY <1>6 DEF gas_applied
  <1> QED
    BY <1>6, <1>7, <1>8 DEF gross, counter

\* There are four addresses and two slots.
LEMMA FiniteWorld == IsFiniteSet(Addresses) /\ IsFiniteSet(Addresses \X Slots)
  <1>1. IsFiniteSet({Sender}) /\ IsFiniteSet(Slots)
    BY FS_Singleton, SlotCount
  <1>2. IsFiniteSet({Sender} \cup {"proposer"})
    BY <1>1, FS_AddElement
  <1>3. IsFiniteSet(({Sender} \cup {"proposer"}) \cup {Contract})
    BY <1>2, FS_AddElement
  <1>4. IsFiniteSet((({Sender} \cup {"proposer"}) \cup {Contract}) \cup {"new"})
    BY <1>3, FS_AddElement
  <1>5. Addresses = (({Sender} \cup {"proposer"}) \cup {Contract}) \cup {"new"}
    BY DEF Addresses
  <1>6. IsFiniteSet(Addresses)
    BY <1>4, <1>5
  <1> QED
    BY <1>1, <1>6, FS_Product

\* What the panels count of a transaction are counts.
LEMMA RowCounts ==
  ASSUME BlockInv, NEW i \in DOMAIN txs
  PROVE  /\ txs[i] \in ExecutedTransactions
         /\ query_xatu_eip8279_runtime_meter(i) \in RuntimeCounts
         /\ query_xatu_tx_state_creation(i) \in StateCreation
  <1>1. /\ txs \in Seq(ExecutedTransactions) /\ txs[i] \in ExecutedTransactions
        /\ txs[i] \in Executions
    BY DEF BlockInv, ExecutedTransactions
  <1>2. ASSUME NEW S \in SUBSET DOMAIN txs[i].events PROVE count(S) \in Nat
    BY <1>1, <1>2, OperationPlaces, FS_Subset, FS_CardinalityType DEF count
  <1>3. \A ops : events(i, ops) \in SUBSET DOMAIN txs[i].events
    BY DEF events
  <1>4. ASSUME NEW ops PROVE count(events(i, ops)) \in Nat /\ cold(i, ops) \in Nat
    <2>1. {k \in events(i, ops) : txs[i].events[k].cold} \in SUBSET DOMAIN txs[i].events
      BY <1>3
    <2> QED
      BY <1>2, <1>3, <2>1 DEF cold
  <1>5. ASSUME NEW op PROVE valued(i, op) \in Nat
    <2>1. {k \in events(i, {op}) :
             txs[i].events[k].value > 0 /\ txs[i].events[k].to # Contract}
             \in SUBSET DOMAIN txs[i].events
      BY <1>3
    <2> QED
      BY <1>2, <2>1 DEF valued
  <1>6. ASSUME NEW S \in SUBSET (Addresses \X Slots) PROVE count(S) \in Nat
    BY FiniteWorld, FS_Subset, FS_CardinalityType DEF count
  <1>7. ASSUME NEW S \in SUBSET Addresses PROVE count(S) \in Nat
    BY FiniteWorld, FS_Subset, FS_CardinalityType DEF count
  <1>8. \A d \in storage_diffs(txs[i]) : <<d.address, d.slot>> \in Addresses \X Slots
    BY DEF storage_diffs
  <1>9. count(storage_value_entries(i)) \in Nat
    <2>1. storage_value_entries(i) \in SUBSET (Addresses \X Slots)
      BY <1>8 DEF storage_value_entries
    <2> QED
      BY <1>6, <2>1
  <1>10. count({<<d.address, d.slot>> : d \in zero_to_nonzero(i)}) \in Nat
    <2>1. {<<d.address, d.slot>> : d \in zero_to_nonzero(i)} \in SUBSET (Addresses \X Slots)
      BY <1>8 DEF zero_to_nonzero
    <2> QED
      BY <1>6, <2>1
  <1>11. count(tx_new_accounts(i)) \in Nat
    <2>1. tx_new_accounts(i) \in SUBSET first_in_block
      BY DEF tx_new_accounts
    <2>2. first_in_block \in SUBSET Addresses
      <3>1. \A j \in DOMAIN txs : txs[j].touched \in SUBSET Addresses
        BY <1>1 DEF ExecutedTransactions, Executions
      <3> QED
        BY <3>1 DEF first_in_block, first_appearances
    <2> QED
      BY <1>7, <2>1, <2>2
  <1>12. count(contracts(txs[i])) \in Nat
    <2>1. contracts(txs[i]) \in SUBSET Addresses
      BY <1>1 DEF contracts, Executions
    <2> QED
      BY <1>7, <2>1
  <1>13. query_xatu_eip8279_runtime_meter(i) \in RuntimeCounts
    <2>1. ContractBytes * count(events(i, {"CREATE"})) \in Nat
      BY <1>4 DEF ContractBytes
    <2> QED
      BY <1>4, <1>5, <1>9, <2>1 DEF query_xatu_eip8279_runtime_meter, RuntimeCounts
  <1>14. query_xatu_tx_state_creation(i) \in StateCreation
    <2>1. ContractBytes * count(contracts(txs[i])) \in Nat /\ 0 \in Nat
      BY <1>12 DEF ContractBytes
    <2> QED
      BY <1>10, <1>11, <2>1 DEF query_xatu_tx_state_creation, StateCreation
  <1> QED
    BY <1>1, <1>13, <1>14

\* The row of a transaction is one of the panels, on the gas the client charged.
LEMMA RowOfPanel ==
  ASSUME BlockInv, NEW i \in DOMAIN txs, NEW c \in Contents
  PROVE  LET t == panel_row(i, c)
             after == gas_after_refund(txs[i], c)
         IN  /\ t \in PanelRow
             /\ calldata_tokens(t) \in Nat
             /\ floor_gas(c) = TX_BASE_GAS + current_7623_floor_gas(t)
             /\ t.receipt = IF after >= floor_gas(c) THEN after ELSE floor_gas(c)
  <1> DEFINE t == panel_row(i, c)
             receipt == receipt_gas_used(txs[i], c)
             runtime == bal_runtime_bytes(query_xatu_eip8279_runtime_meter(i))
             auths == count(authorizations_of(txs[i]))
             created == query_xatu_tx_state_creation(i)
  <1>1. /\ txs[i] \in ExecutedTransactions /\ created \in StateCreation
        /\ query_xatu_eip8279_runtime_meter(i) \in RuntimeCounts
    BY RowCounts
  <1>2. /\ c.zero \in Nat /\ c.nonzero \in Nat /\ c.addresses \in Nat /\ c.keys \in Nat
        /\ c.blobs \in Nat
    <2>1. c \in [zero: Nat, nonzero: Nat, addresses: Nat, keys: Nat, blobs: Nat]
      BY ContentAssumption
    <2> QED
      BY <2>1
  <1>3. floor_gas(c) \in Nat
    BY <1>2 DEF floor_gas
  <1>4. gas_after_refund(txs[i], c) \in Nat
    BY <1>1, GasOfTransaction
  <1>5. receipt \in Nat
    BY <1>3, <1>4 DEF receipt_gas_used
  <1>6. runtime \in Nat
    <2> DEFINE n == query_xatu_eip8279_runtime_meter(i)
    <2>1. n \in RuntimeCounts
      BY <1>1
    <2> HIDE DEF n
    <2>2. /\ n.cold_account_accesses \in Nat /\ n.cold_storage_accesses \in Nat
          /\ n.storage_value_entries_observed \in Nat /\ n.positive_value_calls \in Nat
          /\ n.positive_value_selfdestructs \in Nat /\ n.internal_creates \in Nat
          /\ n.internal_create_endowments \in Nat
          /\ n.internal_deployed_code_bytes \in Nat
      BY <2>1 DEF RuntimeCounts
    <2>3. bal_runtime_bytes(n) \in Nat
      BY <2>2
         DEF bal_runtime_bytes, compute_eip8279_runtime_bytes, component_sum,
             BAL_BYTES_PER_STORAGE_KEY, BAL_BYTES_PER_STORAGE_VALUE, BAL_BYTES_PER_ADDRESS,
             BAL_BYTES_PER_BALANCE, BAL_BYTES_PER_NONCE
    <2> QED
      BY <2>3 DEF n
  <1>7. auths \in Nat
    BY <1>1, OperationPlaces DEF count
  <1>8. t = [receipt |-> receipt, zero |-> c.zero, nonzero |-> c.nonzero,
             addresses |-> c.addresses, keys |-> c.keys, blobs |-> c.blobs,
             auths |-> auths, runtime |-> runtime, created |-> created,
             recipient |-> TRUE, self_transfer |-> FALSE, value |-> FALSE]
    BY DEF panel_row
  <1>9. receipt = IF gas_after_refund(txs[i], c) >= floor_gas(c)
                  THEN gas_after_refund(txs[i], c) ELSE floor_gas(c)
    BY DEF receipt_gas_used
  <1> HIDE DEF receipt, runtime, auths, created
  <1>10. t \in PanelRow /\ t.receipt = receipt /\ t.zero = c.zero /\ t.nonzero = c.nonzero
    BY <1>1, <1>2, <1>5, <1>6, <1>7, <1>8 DEF PanelRow, created
  <1> HIDE DEF t
  <1>11. calldata_tokens(t) = c.zero + 4 * c.nonzero
    BY <1>10 DEF calldata_tokens
  <1>12. /\ calldata_tokens(t) \in Nat
         /\ floor_gas(c) = TX_BASE_GAS + current_7623_floor_gas(t)
    BY <1>2, <1>11 DEF floor_gas, TX_BASE_GAS, current_7623_floor_gas
  <1> QED
    BY <1>9, <1>10, <1>12 DEF t

\* The accountings of a block's transactions agree, whatever its scenario and
\* their calldata, in every reachable state: the receipts come apart as they were
\* charged, the gas before the refund is recovered, and the floors and the
\* Glamsterdam gas are one.
THEOREM AccountingsHold == Spec => []AccountingsAgree
  <1>1. ASSUME BlockInv PROVE AccountingsAgree
    <2> SUFFICES ASSUME NEW i \in DOMAIN txs, NEW c \in Contents
                 PROVE  LET t == panel_row(i, c)
                            d == attach_eip7623_receipt_decomposition(t)
                            counter == refund_counter(txs[i])
                            charged == charged_regular_gas(t, d.execution)
                            without_state ==
                              receipt_body_gas(t) - d.state - standard_calldata_gas(t)
                                - access_list_cost_2930(t)
                        IN  /\ ~decomposition_refused(t)
                            /\ d.execution >= 0 /\ d.data + d.state + d.execution = t.receipt
                            /\ calldata_tokens(t) > 0 =>
                                 (current_7623_floor_bound_proxy(t)
                                    <=> gas_after_refund(txs[i], c) <= floor_gas(c))
                            /\ ~current_7623_floor_bound_proxy(t) =>
                                 /\ gross_gas(txs[i], c)
                                      - gross_gas_current_proxy(t.receipt, counter) \in -1 .. 1
                                 /\ gross_gas(txs[i], c)
                                      - gross_current(t.receipt, counter) \in -1 .. 0
                            /\ execution_reference_gas(t)
                                 = d.execution + (IF is_bal_carrier(t) THEN 0 ELSE d.state)
                            /\ floor_gas_8279(t) = eip8279_floor_gas(t)
                            /\ charged.eip8279 - charged.eip8131
                                 = incremental_eip8279_uplift(t, d.execution)
                            /\ static_data_bytes_7999(t) + t.runtime
                                 = static_data_8131_bytes(t) + bal_floor_bytes_8279(t)
                            /\ ~current_7623_floor_bound_proxy(t) /\ without_state >= 0
                                 /\ d.state = historical_state_creation_gas(t.created)
                                 => glamsterdam_regular_gas_tx(t, without_state)
                                      = glamsterdam_regular_gas_from_receipt(t)
      BY DEF AccountingsAgree
    <2> DEFINE t == panel_row(i, c)
               d == attach_eip7623_receipt_decomposition(t)
               gross == gross_gas(txs[i], c)
               counter == refund_counter(txs[i])
               after == gas_after_refund(txs[i], c)
               without_state ==
                 receipt_body_gas(t) - d.state - standard_calldata_gas(t)
                   - access_list_cost_2930(t)
    <2>1. /\ t \in PanelRow /\ calldata_tokens(t) \in Nat
          /\ floor_gas(c) = TX_BASE_GAS + current_7623_floor_gas(t)
          /\ t.receipt = IF after >= floor_gas(c) THEN after ELSE floor_gas(c)
      BY <1>1, RowOfPanel
    <2>2. /\ gross \in Nat /\ counter \in Nat /\ after = gas_applied(gross, counter)
          /\ after \in Nat /\ after >= 21000
      <3>1. txs[i] \in ExecutedTransactions
        BY <1>1, RowCounts
      <3> QED
        BY <3>1, GasOfTransaction
    <2> HIDE DEF t, gross, counter, after
    <2>3. t.receipt \in Nat /\ floor_gas(c) \in Nat
      BY <2>1 DEF PanelRow, TX_BASE_GAS, current_7623_floor_gas
    <2>4. t.receipt >= TX_BASE_GAS + current_7623_floor_gas(t)
      BY <2>1, <2>2, <2>3
    <2>5. /\ ~decomposition_refused(t)
          /\ d.data \in Nat /\ d.state \in Nat /\ d.execution \in Nat
          /\ d.data + d.state + d.execution = t.receipt
          /\ calldata_tokens(t) > 0 =>
               (current_7623_floor_bound_proxy(t)
                  <=> t.receipt = TX_BASE_GAS + current_7623_floor_gas(t))
      BY <2>1, <2>4, ReceiptsComeApart
    <2>6. calldata_tokens(t) > 0 =>
            (current_7623_floor_bound_proxy(t) <=> after <= floor_gas(c))
      BY <2>1, <2>2, <2>3, <2>5
    <2>7. ASSUME ~current_7623_floor_bound_proxy(t)
          PROVE  t.receipt = gas_applied(gross, counter)
      <3>1. CASE calldata_tokens(t) > 0
        BY <2>1, <2>2, <2>3, <2>6, <2>7, <3>1
      <3>2. CASE calldata_tokens(t) = 0
        <4>1. floor_gas(c) = 21000
          BY <2>1, <3>2 DEF TX_BASE_GAS, current_7623_floor_gas
        <4> QED
          BY <2>1, <2>2, <4>1
      <3> QED
        BY <2>1, <3>1, <3>2
    <2>8. ASSUME ~current_7623_floor_bound_proxy(t)
          PROVE  /\ gross - gross_gas_current_proxy(t.receipt, counter) \in -1 .. 1
                 /\ gross - gross_current(t.receipt, counter) \in -1 .. 0
      BY <2>2, <2>3, <2>7, <2>8, GrossIsRecovered, QueryRecoversGross
    <2>9. execution_reference_gas(t)
            = d.execution + (IF is_bal_carrier(t) THEN 0 ELSE d.state)
      <3> DEFINE remainder == receipt_remainder(t)
      <3>1. /\ d.state = least(historical_state_creation_gas(t.created), remainder)
            /\ d.execution = remainder - d.state
        BY DEF attach_eip7623_receipt_decomposition
      <3>2. historical_state_creation_gas(t.created) \in Nat
        BY <2>1, StateGasType DEF PanelRow
      <3> HIDE DEF d, remainder
      <3>3. remainder \in Int /\ remainder >= 0
        <4>1. remainder = t.receipt - current_data_gas_7623_proxy(t)
          BY DEF remainder, receipt_remainder
        <4>2. current_data_gas_7623_proxy(t) \in Int
          BY <2>1 DEF current_data_gas_7623_proxy, current_7623_floor_gas, standard_calldata_gas
        <4>3. remainder \in Int
          BY <2>3, <4>1, <4>2
        <4> QED
          BY <2>5, <4>3 DEF decomposition_refused, remainder
      <3>4. execution_reference_gas(t)
              = remainder - least(IF is_bal_carrier(t) THEN d.state ELSE 0, remainder)
        BY DEF execution_reference_gas, state_reference_gas_capped, remainder, d
      <3>5. d.state <= remainder /\ d.state \in Nat
        BY <2>5, <3>1, <3>2, <3>3 DEF least
      <3> QED
        BY <3>1, <3>3, <3>4, <3>5 DEF least
    <2>10. /\ floor_gas_8279(t) = eip8279_floor_gas(t)
           /\ charged_regular_gas(t, d.execution).eip8279
                - charged_regular_gas(t, d.execution).eip8131
                = incremental_eip8279_uplift(t, d.execution)
           /\ static_data_bytes_7999(t) + t.runtime
                = static_data_8131_bytes(t) + bal_floor_bytes_8279(t)
      BY <2>1, <2>5, FloorsAgree
    <2>11. ASSUME without_state >= 0, d.state = historical_state_creation_gas(t.created)
           PROVE  glamsterdam_regular_gas_tx(t, without_state)
                    = glamsterdam_regular_gas_from_receipt(t)
      <3>1. /\ standard_calldata_gas(t) \in Nat /\ access_list_cost_2930(t) \in Nat
            /\ d.state \in Nat
        BY <2>1, <2>5 DEF standard_calldata_gas, access_list_cost_2930, PanelRow
      <3>2. without_state = t.receipt - 21000 - d.state - standard_calldata_gas(t)
                              - access_list_cost_2930(t)
        BY DEF receipt_body_gas, TX_BASE_GAS
      <3>3. 21000 = TX_BASE_GAS
        BY DEF TX_BASE_GAS
      <3> HIDE DEF without_state, d
      <3>4. without_state \in Nat
        BY <2>3, <2>11, <3>1, <3>2
      <3>5. t.receipt = TX_BASE_GAS + standard_calldata_gas(t) + access_list_cost_2930(t)
                          + without_state + historical_state_creation_gas(t.created)
        BY <2>3, <2>11, <3>1, <3>2, <3>3, <3>4
      <3> QED
        BY <2>1, <3>4, <3>5, GlamsterdamGasAgrees
    <2>12. d.execution >= 0
      BY <2>5
    <2> HIDE DEF d, without_state
    <2> QED
      BY <2>5, <2>6, <2>8, <2>9, <2>10, <2>11, <2>12
         DEF t, d, gross, counter, after, without_state
  <1> QED
    BY <1>1, BlockInvariant, PTL

-----------------------------------------------------------------------------
(* The refunds of a block.                                                 *)

\* The difference of a slot of the contract.
slot_diff(tx, s) ==
  [address |-> Contract, slot |-> s, from_value |-> tx.before[Contract].storage[s],
   to_value |-> tx.after[Contract].storage[s]]

slot_diffs(tx, P) == {slot_diff(tx, s) : s \in P}

\* There are as many as slots.
LEMMA DiffCount ==
  ASSUME NEW tx, NEW P \in SUBSET Slots
  PROVE  Cardinality(slot_diffs(tx, P)) = Cardinality(P)
  <1> DEFINE f == [s \in P |-> slot_diff(tx, s)]
  <1>1. \A s \in P : slot_diff(tx, s).slot = s
    BY DEF slot_diff
  <1>2. f \in Bijection(P, slot_diffs(tx, P))
    BY <1>1 DEF slot_diffs, Bijection, Injection, Surjection, IsInjective
  <1>3. ExistsBijection(P, slot_diffs(tx, P))
    BY <1>2 DEF ExistsBijection
  <1> QED
    BY <1>3, SlotCount, FS_Bijection

\* What the tables hold of a transaction are the slots its contract changed.
LEMMA DiffsAre ==
  ASSUME NEW tx \in ExecutedTransactions
  PROVE  LET old == tx.before[Contract].storage
             new == tx.after[Contract].storage
             diffs == storage_diffs(tx)
             nonzero == {d \in diffs : d.from_value # 0}
         IN  /\ Cardinality(diffs) = Cardinality(changed(old, new))
             /\ Cardinality({d \in diffs : d.from_value = 0 /\ d.to_value # 0})
                  = Cardinality(made(old, new))
             /\ Cardinality(nonzero) = Cardinality(had(old, new))
             /\ Cardinality({d \in nonzero : d.to_value = 0}) = Cardinality(cleared(old, new))
  <1> DEFINE old == tx.before[Contract].storage
             new == tx.after[Contract].storage
             diffs == storage_diffs(tx)
             nonzero == {d \in diffs : d.from_value # 0}
  <1>1. \A a \in Addresses \ {Contract} : tx.before[a].storage = tx.after[a].storage
    BY DEF ExecutedTransactions, Accounted, SameStorage
  <1>2. diffs = slot_diffs(tx, changed(old, new))
    <2>1. ASSUME NEW d \in diffs PROVE d \in slot_diffs(tx, changed(old, new))
      <3>1. PICK p \in Addresses \X Slots :
               /\ p[2] \in changed_slots(tx, p[1])
               /\ d = [address |-> p[1], slot |-> p[2],
                       from_value |-> tx.before[p[1]].storage[p[2]],
                       to_value |-> tx.after[p[1]].storage[p[2]]]
        BY DEF storage_diffs
      <3>2. p[1] = Contract /\ p[2] \in changed(old, new)
        BY <1>1, <3>1 DEF changed_slots, changed
      <3>3. d = slot_diff(tx, p[2])
        BY <3>1, <3>2 DEF slot_diff
      <3> QED
        BY <3>2, <3>3 DEF slot_diffs
    <2>2. ASSUME NEW s \in changed(old, new) PROVE slot_diff(tx, s) \in diffs
      <3> DEFINE p == <<Contract, s>>
      <3>1. /\ p \in Addresses \X Slots /\ p[1] = Contract /\ p[2] = s
            /\ s \in changed_slots(tx, Contract)
        BY DEF Addresses, changed, changed_slots
      <3> HIDE DEF p
      <3>2. slot_diff(tx, s) = [address |-> p[1], slot |-> p[2],
                                from_value |-> tx.before[p[1]].storage[p[2]],
                                to_value |-> tx.after[p[1]].storage[p[2]]]
        BY <3>1 DEF slot_diff
      <3>3. p \in {q \in Addresses \X Slots : q[2] \in changed_slots(tx, q[1])}
        BY <3>1
      <3> QED
        BY <3>2, <3>3 DEF storage_diffs
    <2> QED
      BY <2>1, <2>2 DEF slot_diffs
  <1>3. \A s \in Slots : /\ slot_diff(tx, s).from_value = old[s]
                         /\ slot_diff(tx, s).to_value = new[s]
    BY DEF slot_diff
  <1>4. /\ changed(old, new) \in SUBSET Slots /\ made(old, new) \in SUBSET Slots
        /\ had(old, new) \in SUBSET Slots /\ cleared(old, new) \in SUBSET Slots
    BY DEF changed, made, had, cleared
  <1> HIDE DEF old, new, diffs
  <1>5. {d \in diffs : d.from_value = 0 /\ d.to_value # 0} = slot_diffs(tx, made(old, new))
    BY <1>2, <1>3 DEF slot_diffs, changed, made
  <1>6. nonzero = slot_diffs(tx, had(old, new))
    BY <1>2, <1>3 DEF slot_diffs, changed, had
  <1>7. {d \in nonzero : d.to_value = 0} = slot_diffs(tx, cleared(old, new))
    BY <1>3, <1>6 DEF slot_diffs, had, cleared
  <1> HIDE DEF nonzero
  <1>8. /\ Cardinality(slot_diffs(tx, changed(old, new))) = Cardinality(changed(old, new))
        /\ Cardinality(slot_diffs(tx, made(old, new))) = Cardinality(made(old, new))
        /\ Cardinality(slot_diffs(tx, had(old, new))) = Cardinality(had(old, new))
        /\ Cardinality(slot_diffs(tx, cleared(old, new))) = Cardinality(cleared(old, new))
    BY <1>4, DiffCount
  <1>9. /\ Cardinality(diffs) = Cardinality(changed(old, new))
        /\ Cardinality({d \in diffs : d.from_value = 0 /\ d.to_value # 0})
             = Cardinality(made(old, new))
        /\ Cardinality(nonzero) = Cardinality(had(old, new))
        /\ Cardinality({d \in nonzero : d.to_value = 0}) = Cardinality(cleared(old, new))
    BY <1>2, <1>5, <1>6, <1>7, <1>8
  <1> QED
    BY <1>9 DEF old, new, diffs, nonzero

\* The gas of the stores of a transaction, as the query adds it up.
store_gas(i) == add_up(events(i, {"SSTORE"}), LAMBDA k : txs[i].events[k].gas)

\* What the query counts of the stores of a transaction.
LEMMA StoresOf ==
  ASSUME BlockInv, NEW i \in DOMAIN txs
  PROVE  LET evs == txs[i].events
         IN  /\ count(events(i, {"SSTORE"})) = number(evs, Stores)
             /\ cold(i, {"SSTORE"}) = number(evs, ColdStores)
             /\ store_gas(i) = weight(evs, Stores, gas_of)
             /\ number(evs, Stores) \in Nat /\ number(evs, ColdStores) \in Nat
             /\ weight(evs, Stores, gas_of) \in Nat
             /\ \A kind \in {"zero", "nonzero"} :
                  /\ number(evs, Resets(kind)) \in Nat
                  /\ resets_of(txs[i], kind)
                       = IF txs[i].failed THEN 0 ELSE number(evs, Resets(kind))
  <1> DEFINE evs == txs[i].events
  <1>1. /\ txs[i] \in ExecutedTransactions
        /\ evs \in Seq(AnyEvent) /\ operations_of(txs[i]) = places(evs, Event)
    BY RowCounts, OperationPlaces
  <1>2. /\ \A k \in DOMAIN evs : evs[k] \in Event \/ evs[k] \in Authorization
        /\ \A e \in Authorization : e.op = "AUTHORIZE"
    <2>1. \A k \in DOMAIN evs : evs[k] \in AnyEvent
      <3> HIDE DEF evs
      <3> QED
        BY <1>1
    <2> QED
      BY <2>1 DEF AnyEvent, Authorization
  <1> HIDE DEF evs
  <1>3. events(i, {"SSTORE"}) = places(evs, Stores)
    <2>1. \A k \in DOMAIN evs : evs[k].op = "SSTORE" <=> evs[k] \in Stores
      BY <1>2, EventSets DEF Stores
    <2> QED
      BY <2>1 DEF events, places, evs
  <1>4. {k \in events(i, {"SSTORE"}) : txs[i].events[k].cold} = places(evs, ColdStores)
    BY <1>3 DEF ColdStores, places, evs
  <1>5. store_gas(i) = weight(evs, Stores, gas_of)
    <2>1. [k \in events(i, {"SSTORE"}) |-> evs[k].gas]
            = [k \in places(evs, Stores) |-> gas_of[evs[k]]]
      <3>1. \A k \in places(evs, Stores) : gas_of[evs[k]] = evs[k].gas
        BY EventSets DEF places
      <3> QED
        BY <1>3, <3>1
    <2> QED
      BY <2>1 DEF store_gas, add_up, weight, evs
  <1>6. /\ Stores \in SUBSET AnyEvent /\ ColdStores \in SUBSET AnyEvent
        /\ \A e \in Stores : gas_of[e] \in Int
        /\ \A kind \in {"zero", "nonzero"} : Resets(kind) \in SUBSET AnyEvent
        /\ \A e \in ColdStores : gas_of[e] \in Int
        /\ \A kind \in {"zero", "nonzero"} : \A e \in Resets(kind) : gas_of[e] \in Int
    BY EventSets
  <1>7. /\ number(evs, Stores) \in Nat /\ number(evs, ColdStores) \in Nat
        /\ \A kind \in {"zero", "nonzero"} : number(evs, Resets(kind)) \in Nat
        /\ IsFiniteSet(places(evs, Stores))
    BY <1>1, <1>6, AppendedEvent
  <1>8. weight(evs, Stores, gas_of) \in Nat
    <2>1. [k \in places(evs, Stores) |-> gas_of[evs[k]]] \in [places(evs, Stores) -> Nat]
      BY EventSets DEF places
    <2> QED
      BY <1>7, <2>1, SumType DEF weight
  <1>9. ASSUME NEW kind \in {"zero", "nonzero"}
        PROVE  resets_of(txs[i], kind) = IF txs[i].failed THEN 0 ELSE number(evs, Resets(kind))
    <2>1. {k \in operations_of(txs[i]) : txs[i].events[k].resets = kind}
            = places(evs, Resets(kind))
      BY <1>1 DEF places, Resets, evs
    <2> QED
      BY <2>1 DEF resets_of, number
  <1> QED
    BY <1>3, <1>4, <1>5, <1>7, <1>8, <1>9 DEF count, cold, number, evs

\* The row of a transaction: its counter is of its authorizations, resets and
\* cleared slots, with stores enough for them, and the gas of its stores is
\* explained by them unless a call or the whole of it reverted.
LEMMA RefundRows ==
  ASSUME BlockInv, NEW i \in DOMAIN txs, NEW loop \in scenario.loops,
         ~(txs[i].failed /\ loop.zero + loop.nonzero > 0)
  PROVE  LET row == query_xatu_refund_transactions(i, loop)
             auth == count(authorizations_of(txs[i]))
             zero == resets_of(txs[i], "zero") + loop.zero
             nonzero == resets_of(txs[i], "nonzero") + loop.nonzero
         IN  /\ row \in RefundRow /\ auth \in Nat /\ zero \in Nat /\ nonzero \in Nat
             /\ auth > 0 => row.set_code
             /\ auth = 0 => ~row.set_code
             /\ row.refund_counter_current
                  = 12500 * auth + 19900 * zero + 2800 * nonzero + 4800 * row.net_cleared_slots
             /\ row.changed_slots + 2 * (zero + nonzero) <= row.sstore_count
             /\ ~txs[i].failed /\ ~txs[i].reverts =>
                  row.sstore_gas_current
                    = 100 * row.sstore_count + 2100 * row.sstore_cold_count
                        + 19900 * (row.zero_to_nonzero_slots + zero)
                        + 2800 * (row.original_nonzero_changed + nonzero)
  <1> DEFINE tx == txs[i]
             evs == tx.events
             old == tx.before[Contract].storage
             new == tx.after[Contract].storage
             row == query_xatu_refund_transactions(i, loop)
             auth == count(authorizations_of(tx))
             lz == loop.zero
             ln == loop.nonzero
             rz == resets_of(tx, "zero")
             rn == resets_of(tx, "nonzero")
             u == number(evs, Stores)
             a == number(evs, ColdStores)
             g == weight(evs, Stores, gas_of)
             r == IF tx.failed THEN 0 ELSE weight(evs, Event, refund_of)
             d == Cardinality(changed(old, new))
             m == Cardinality(made(old, new))
             h == Cardinality(had(old, new))
             c == Cardinality(cleared(old, new))
  <1>1. tx \in ExecutedTransactions
    BY RowCounts
  <1>2. lz \in Nat /\ ln \in Nat
    <2>1. loop \in [zero: Nat, nonzero: Nat]
      BY ScenarioAssumption DEF BlockInv, WorldInv
    <2> QED
      BY <2>1
  <1>3. /\ count(events(i, {"SSTORE"})) = u /\ cold(i, {"SSTORE"}) = a /\ store_gas(i) = g
        /\ u \in Nat /\ a \in Nat /\ g \in Nat
        /\ number(evs, Resets("zero")) \in Nat /\ number(evs, Resets("nonzero")) \in Nat
        /\ rz = IF tx.failed THEN 0 ELSE number(evs, Resets("zero"))
        /\ rn = IF tx.failed THEN 0 ELSE number(evs, Resets("nonzero"))
    BY StoresOf
  <1>4. d \in Nat /\ m \in Nat /\ h \in Nat /\ c \in Nat
    BY CountsOfSlots
  <1>5. /\ auth \in Nat /\ refund_counter(tx) = 12500 * auth + r
        /\ auth > 0 => authorizations_of(tx) # {}
        /\ auth = 0 => authorizations_of(tx) = {}
    <2>1. /\ Cardinality(authorizations_of(tx)) \in Nat /\ IsFiniteSet(DOMAIN tx.events)
          /\ operation_refund(tx) = weight(evs, Event, refund_of)
      BY <1>1, OperationPlaces
    <2>2. IsFiniteSet(authorizations_of(tx))
      BY <2>1, FS_Subset DEF authorizations_of
    <2>3. Cardinality(authorizations_of(tx)) = 0 <=> authorizations_of(tx) = {}
      BY <2>2, FS_EmptySet
    <2>4. refund_counter(tx)
            = 12500 * auth + (IF tx.failed THEN 0 ELSE operation_refund(tx))
      BY DEF refund_counter, operation_refund, count
    <2> HIDE DEF tx, evs
    <2>5. auth = Cardinality(authorizations_of(tx))
      BY DEF count
    <2> HIDE DEF auth
    <2>6. auth \in Nat /\ (auth > 0 <=> authorizations_of(tx) # {})
      BY <2>1, <2>3, <2>5
    <2>7. refund_counter(tx) = 12500 * auth + r
      BY <2>1, <2>4
    <2> QED
      BY <2>6, <2>7
  <1>6. /\ count(storage_diffs(tx)) = d /\ count(zero_to_nonzero(i)) = m
        /\ count({x \in storage_diffs(tx) : x.from_value # 0}) = h
        /\ count({x \in {y \in storage_diffs(tx) : y.from_value # 0} : x.to_value = 0}) = c
    BY <1>1, DiffsAre DEF count, zero_to_nonzero
  <1>7. /\ row.sstore_count = u + 2 * (lz + ln)
        /\ row.sstore_gas_current = g + (20000 + 100) * lz + (2900 + 100) * ln
        /\ row.sstore_cold_count = a
        /\ row.refund_counter_current = refund_counter(tx) + 19900 * lz + 2800 * ln
        /\ row.changed_slots = d /\ row.zero_to_nonzero_slots = m
        /\ row.original_nonzero_changed = h /\ row.net_cleared_slots = c
        /\ row = [sstore_count |-> row.sstore_count,
                  sstore_gas_current |-> row.sstore_gas_current,
                  sstore_cold_count |-> row.sstore_cold_count,
                  refund_counter_current |-> row.refund_counter_current,
                  changed_slots |-> row.changed_slots,
                  zero_to_nonzero_slots |-> row.zero_to_nonzero_slots,
                  original_nonzero_changed |-> row.original_nonzero_changed,
                  net_cleared_slots |-> row.net_cleared_slots, set_code |-> row.set_code]
    <2>1. row = [sstore_count |-> count(events(i, {"SSTORE"})) + 2 * (lz + ln),
                 sstore_gas_current |->
                   store_gas(i) + (20000 + 100) * lz + (2900 + 100) * ln,
                 sstore_cold_count |-> cold(i, {"SSTORE"}),
                 refund_counter_current |-> refund_counter(tx) + 19900 * lz + 2800 * ln,
                 changed_slots |-> count(storage_diffs(tx)),
                 zero_to_nonzero_slots |-> count(zero_to_nonzero(i)),
                 original_nonzero_changed |->
                   count({x \in storage_diffs(tx) : x.from_value # 0}),
                 net_cleared_slots |->
                   count({x \in {y \in storage_diffs(tx) : y.from_value # 0} : x.to_value = 0}),
                 set_code |-> authorizations_of(tx) # {}]
      BY DEF query_xatu_refund_transactions, store_gas
    <2> HIDE DEF tx, row, lz, ln, u, a, g, d, m, h, c, auth
    <2>2. /\ row.sstore_count = u + 2 * (lz + ln)
          /\ row.sstore_gas_current = g + (20000 + 100) * lz + (2900 + 100) * ln
          /\ row.sstore_cold_count = a
          /\ row.refund_counter_current = refund_counter(tx) + 19900 * lz + 2800 * ln
          /\ row.changed_slots = d /\ row.zero_to_nonzero_slots = m
          /\ row.original_nonzero_changed = h /\ row.net_cleared_slots = c
      BY <1>3, <1>6, <2>1
    <2>3. row = [sstore_count |-> row.sstore_count,
                 sstore_gas_current |-> row.sstore_gas_current,
                 sstore_cold_count |-> row.sstore_cold_count,
                 refund_counter_current |-> row.refund_counter_current,
                 changed_slots |-> row.changed_slots,
                 zero_to_nonzero_slots |-> row.zero_to_nonzero_slots,
                 original_nonzero_changed |-> row.original_nonzero_changed,
                 net_cleared_slots |-> row.net_cleared_slots, set_code |-> row.set_code]
      BY <2>1
    <2> QED
      BY <2>2, <2>3
  <1>8. /\ RefundIs(r, rz, rn, c) /\ EnoughStores(u, d, rz, rn)
        /\ ~tx.failed /\ ~tx.reverts => GasIs(g, u, a, rz, m, rn, h)
        /\ tx.failed => lz = 0 /\ ln = 0
    <2>1. CASE tx.failed
      <3>1. \A x \in Addresses : tx.before[x].storage = tx.after[x].storage
        BY <1>1, <2>1 DEF ExecutedTransactions, SameStorage
      <3>2. old = new
        BY <3>1 DEF Addresses
      <3>3. d = 0 /\ c = 0
        <4>1. changed(old, new) = {} /\ cleared(old, new) = {}
          BY <3>2 DEF changed, cleared
        <4> QED
          BY <4>1, FS_EmptySet
      <3>4. r = 0 /\ rz = 0 /\ rn = 0
        BY <1>3, <2>1
      <3>5. lz = 0 /\ ln = 0
        BY <1>2, <2>1
      <3> HIDE DEF d, c, r, rz, rn, u, lz, ln
      <3> QED
        BY <1>3, <2>1, <3>3, <3>4, <3>5 DEF RefundIs, EnoughStores
    <2>2. CASE ~tx.failed
      <3>1. Accounted(tx, tx.after)
        BY <1>1, <2>2 DEF ExecutedTransactions
      <3>2. Ledger(evs, old, new, tx.slots) /\ (~tx.reverts => StoreGas(evs, old, new))
        BY <3>1 DEF Accounted
      <3>3. rz = number(evs, Resets("zero")) /\ rn = number(evs, Resets("nonzero"))
        BY <1>3, <2>2
      <3>4. r = weight(evs, Event, refund_of)
        BY <2>2
      <3> HIDE DEF tx, evs, old, new, rz, rn, r
      <3>5. RefundIs(r, rz, rn, c) /\ EnoughStores(u, d, rz, rn)
        BY <3>2, <3>3, <3>4 DEF Ledger
      <3>6. ~tx.reverts => GasIs(g, u, a, rz, m, rn, h)
        BY <3>2, <3>3 DEF StoreGas
      <3> QED
        BY <2>2, <3>5, <3>6
    <2> QED
      BY <2>1, <2>2
  <1>9. row.set_code = (authorizations_of(tx) # {})
    BY DEF query_xatu_refund_transactions
  <1>10. r \in Int /\ rz \in Nat /\ rn \in Nat
    <2>1. r \in Nat
      BY <1>1, TransactionPaysRefunds
    <2> QED
      BY <1>3, <2>1
  <1> HIDE DEF tx, evs, old, new, row, auth, lz, ln, rz, rn, u, a, g, r, d, m, h, c
  <1>11. (auth > 0 => row.set_code = TRUE) /\ (auth = 0 => row.set_code = FALSE)
    <2>1. ASSUME auth > 0 PROVE row.set_code = TRUE
      <3>1. authorizations_of(tx) # {}
        BY <1>5, <2>1
      <3>2. (authorizations_of(tx) # {}) = TRUE
        BY <3>1
      <3> QED
        BY <1>9, <3>2
    <2>2. ASSUME auth = 0 PROVE row.set_code = FALSE
      <3>1. authorizations_of(tx) = {}
        BY <1>5, <2>2
      <3>2. (authorizations_of(tx) # {}) = FALSE
        BY <3>1
      <3> QED
        BY <1>9, <3>2
    <2> QED
      BY <2>1, <2>2
  <1>12. row.refund_counter_current
           = 12500 * auth + 19900 * (rz + lz) + 2800 * (rn + ln) + 4800 * c
    BY <1>2, <1>4, <1>5, <1>7, <1>8, <1>10 DEF RefundIs
  <1>13. d + 2 * ((rz + lz) + (rn + ln)) <= u + 2 * (lz + ln)
    BY <1>2, <1>3, <1>4, <1>8, <1>10 DEF EnoughStores
  <1>14. ASSUME ~tx.failed, ~tx.reverts
         PROVE  g + (20000 + 100) * lz + (2900 + 100) * ln
                  = 100 * (u + 2 * (lz + ln)) + 2100 * a
                      + 19900 * (m + (rz + lz)) + 2800 * (h + (rn + ln))
    BY <1>2, <1>3, <1>4, <1>8, <1>10, <1>14 DEF GasIs
  <1>15. row \in RefundRow
    <2>1. /\ u + 2 * (lz + ln) \in Nat /\ g + (20000 + 100) * lz + (2900 + 100) * ln \in Nat
          /\ 12500 * auth + 19900 * (rz + lz) + 2800 * (rn + ln) + 4800 * c \in Nat
          /\ (auth > 0) \in BOOLEAN
      BY <1>2, <1>3, <1>4, <1>5, <1>10
    <2>2. /\ row.sstore_count \in Nat /\ row.sstore_gas_current \in Nat
          /\ row.sstore_cold_count \in Nat /\ row.refund_counter_current \in Nat
          /\ row.changed_slots \in Nat /\ row.zero_to_nonzero_slots \in Nat
          /\ row.original_nonzero_changed \in Nat /\ row.net_cleared_slots \in Nat
      BY <1>3, <1>4, <1>7, <1>12, <2>1
    <2>3. row.set_code \in BOOLEAN
      <3>1. auth > 0 \/ auth = 0
        BY <1>5
      <3>2. row.set_code = TRUE \/ row.set_code = FALSE
        BY <1>11, <3>1
      <3> QED
        BY <3>2
    <2>4. row = [sstore_count |-> row.sstore_count,
                 sstore_gas_current |-> row.sstore_gas_current,
                 sstore_cold_count |-> row.sstore_cold_count,
                 refund_counter_current |-> row.refund_counter_current,
                 changed_slots |-> row.changed_slots,
                 zero_to_nonzero_slots |-> row.zero_to_nonzero_slots,
                 original_nonzero_changed |-> row.original_nonzero_changed,
                 net_cleared_slots |-> row.net_cleared_slots, set_code |-> row.set_code]
      BY <1>7
    <2> QED
      BY <2>2, <2>3, <2>4 DEF RefundRow
  <1>16. auth > 0 => row.set_code
    BY <1>11
  <1>17. auth = 0 => ~row.set_code
    BY <1>11
  <1>18. rz + lz \in Nat /\ rn + ln \in Nat
    BY <1>2, <1>10
  <1> QED
    BY <1>5, <1>7, <1>12, <1>13, <1>14, <1>15, <1>16, <1>17, <1>18
       DEF row, tx, auth, lz, ln, rz, rn

\* In every reachable state, whatever the scenario: the resets a transaction made
\* and the authorizations it had refunded are among the solutions of its refund
\* counter, and the preferred ones when no call reverted; and the query's closed
\* form and range are those of the enumeration.
THEOREM RefundsHold == Spec => []RefundsAreRecovered
  <1>1. ASSUME BlockInv PROVE RefundsAreRecovered
    <2>1. ASSUME NEW i \in DOMAIN txs, NEW loop \in scenario.loops,
                 ~(txs[i].failed /\ loop.zero + loop.nonzero > 0)
          PROVE  LET row == query_xatu_refund_transactions(i, loop)
                     done == [auth |-> count(authorizations_of(txs[i])),
                              zero |-> resets_of(txs[i], "zero") + loop.zero,
                              nonzero |-> resets_of(txs[i], "nonzero") + loop.nonzero]
                 IN  /\ done \in solutions(row)
                     /\ ~txs[i].failed /\ ~txs[i].reverts => done \in preferred(row)
                     /\ row \in RefundRow /\ row.changed_slots <= row.sstore_count
      <3> DEFINE row == query_xatu_refund_transactions(i, loop)
                 auth == count(authorizations_of(txs[i]))
                 zero == resets_of(txs[i], "zero") + loop.zero
                 nonzero == resets_of(txs[i], "nonzero") + loop.nonzero
                 done == [auth |-> auth, zero |-> zero, nonzero |-> nonzero]
      <3>1. /\ row \in RefundRow /\ auth \in Nat /\ zero \in Nat /\ nonzero \in Nat
            /\ auth > 0 => row.set_code
            /\ auth = 0 => ~row.set_code
            /\ row.refund_counter_current
                 = 12500 * auth + 19900 * zero + 2800 * nonzero + 4800 * row.net_cleared_slots
            /\ row.changed_slots + 2 * (zero + nonzero) <= row.sstore_count
            /\ ~txs[i].failed /\ ~txs[i].reverts =>
                 row.sstore_gas_current
                   = 100 * row.sstore_count + 2100 * row.sstore_cold_count
                       + 19900 * (row.zero_to_nonzero_slots + zero)
                       + 2800 * (row.original_nonzero_changed + nonzero)
        BY <1>1, <2>1, RefundRows
      <3> HIDE DEF row, auth, zero, nonzero
      <3>2. /\ row.net_cleared_slots \in Nat /\ row.changed_slots \in Nat
            /\ row.sstore_count \in Nat /\ row.sstore_gas_current \in Nat
            /\ row.sstore_cold_count \in Nat /\ row.zero_to_nonzero_slots \in Nat
            /\ row.original_nonzero_changed \in Nat /\ row.refund_counter_current \in Nat
        BY <3>1 DEF RefundRow
      <3>3. residual(row) = 12500 * auth + 19900 * zero + 2800 * nonzero
        BY <3>1, <3>2 DEF residual
      <3>4. auth \in auth_candidates(row)
        <4>1. CASE auth > 0
          <5> DEFINE rest == 19900 * zero + 2800 * nonzero
          <5>1. rest \in Nat /\ residual(row) = 12500 * auth + rest
            BY <3>1, <3>3
          <5> HIDE DEF rest
          <5>2. auth \in 0 .. ((12500 * auth + rest) \div 12500)
            BY <3>1, <5>1
          <5>3. row.set_code
            BY <3>1, <4>1
          <5>4. auth_candidates(row) = 0 .. (residual(row) \div 12500)
            BY <5>3 DEF auth_candidates
          <5> QED
            BY <5>1, <5>2, <5>4
        <4>2. CASE auth = 0
          <5>1. ~(auth > 0)
            BY <4>2
          <5>2. ~row.set_code
            BY <3>1, <4>2
          <5>3. auth_candidates(row) = {0}
            BY <5>2 DEF auth_candidates
          <5> QED
            BY <4>2, <5>3
        <4> QED
          BY <3>1, <4>1, <4>2
      <3>5. solves(row, auth, zero, nonzero)
        <4>1. sstore_refund(row, auth) = 19900 * zero + 2800 * nonzero
          BY <3>1, <3>3 DEF sstore_refund
        <4> QED
          BY <3>1, <4>1 DEF solves, enough_sstores
      <3>6. done \in solutions(row)
        BY <3>1, <3>4, <3>5, SolutionIs
      <3>7. row.changed_slots <= row.sstore_count
        BY <3>1, <3>2
      <3>8. ASSUME ~txs[i].failed, ~txs[i].reverts PROVE done \in preferred(row)
        <4>1. sstore_gas_residual(row, done) = 0
          <5>1. done.zero = zero /\ done.nonzero = nonzero
            OBVIOUS
          <5> DEFINE gas == 100 * row.sstore_count + 2100 * row.sstore_cold_count
                              + 19900 * (row.zero_to_nonzero_slots + zero)
                              + 2800 * (row.original_nonzero_changed + nonzero)
          <5>2. row.sstore_gas_current = gas
            BY <3>1, <3>8
          <5>3. sstore_gas_residual(row, done) = distance(row.sstore_gas_current, gas)
            BY <5>1 DEF sstore_gas_residual
          <5> HIDE DEF gas, done
          <5> QED
            BY <3>2, <5>2, <5>3 DEF distance
        <4>2. ASSUME NEW other \in solutions(row) PROVE 0 <= sstore_gas_residual(row, other)
          <5> DEFINE gas == 100 * row.sstore_count + 2100 * row.sstore_cold_count
                              + 19900 * (row.zero_to_nonzero_slots + other.zero)
                              + 2800 * (row.original_nonzero_changed + other.nonzero)
          <5>1. other.zero \in Nat /\ other.nonzero \in Nat
            BY <3>1, SolutionIs
          <5>2. gas \in Int
            BY <3>2, <5>1
          <5>3. sstore_gas_residual(row, other) = distance(row.sstore_gas_current, gas)
            BY DEF sstore_gas_residual
          <5> HIDE DEF gas
          <5> QED
            BY <3>2, <5>2, <5>3 DEF distance
        <4> HIDE DEF done
        <4> QED
          BY <3>6, <4>1, <4>2 DEF preferred
      <3> HIDE DEF done
      <3> QED
        BY <3>1, <3>6, <3>7, <3>8 DEF done, row, auth, zero, nonzero
    <2>2. ASSUME NEW row \in RefundRow, row.changed_slots <= row.sstore_count
          PROVE  /\ extremes(refund_future(row))
                      = extremes({refund_counter_8038(row, s.zero + s.nonzero) :
                                    s \in preferred(row)})
                 /\ \A auth \in auth_candidates(row) :
                      {s.zero + s.nonzero : s \in {x \in solutions(row) : x.auth = auth}}
                        = sql_resets(row, auth)
      BY <2>2, QueryRangeIsPreferred, ClosedFormIsEnumeration
    <2>3. ASSUME NEW i \in DOMAIN txs, NEW loop \in scenario.loops,
                 ~(txs[i].failed /\ loop.zero + loop.nonzero > 0)
          PROVE  LET row == query_xatu_refund_transactions(i, loop)
                     done == [auth |-> count(authorizations_of(txs[i])),
                              zero |-> resets_of(txs[i], "zero") + loop.zero,
                              nonzero |-> resets_of(txs[i], "nonzero") + loop.nonzero]
                 IN  /\ done \in solutions(row)
                     /\ ~txs[i].failed /\ ~txs[i].reverts => done \in preferred(row)
                     /\ extremes(refund_future(row))
                          = extremes({refund_counter_8038(row, s.zero + s.nonzero) :
                                        s \in preferred(row)})
                     /\ \A auth \in auth_candidates(row) :
                          {s.zero + s.nonzero : s \in {x \in solutions(row) : x.auth = auth}}
                            = sql_resets(row, auth)
      BY <2>1, <2>2, <2>3
    <2> QED
      BY <2>3 DEF RefundsAreRecovered
  <1> QED
    BY <1>1, BlockInvariant, PTL

-----------------------------------------------------------------------------
(* The access list.  An account's entries are joined in the order of the   *)
(* transactions, and what they leave at an index is the last of them.      *)

\* Changes with an index and a value.
Changes(V) == Seq([index: Nat, value: V])

\* Some indices have a greatest one.
LEMMA GreatestIndex ==
  ASSUME NEW n \in Nat, NEW S \in SUBSET (1..n), S # {}
  PROVE  \E m \in S : \A j \in S : j <= m
  <1> DEFINE T == {n - j : j \in S}
  <1>1. T \subseteq Nat /\ T # {}
    <2>1. \A j \in S : n - j \in Nat
      OBVIOUS
    <2>2. PICK j \in S : TRUE
      OBVIOUS
    <2>3. n - j \in T
      OBVIOUS
    <2> QED
      BY <2>1, <2>3
  <1>2. PICK x \in T : \A y \in T : x <= y
    BY <1>1, LeastElement
  <1>3. PICK m \in S : x = n - m
    BY <1>2
  <1>4. ASSUME NEW j \in S PROVE j <= m
    <2>1. n - m <= n - j
      BY <1>2, <1>3
    <2> QED
      BY <2>1
  <1> QED
    BY <1>4

\* What is left of the entries joined by a transaction: their own last value,
\* or what was left before if they are none or come too late.
LEMMA ReplayedJoin ==
  ASSUME NEW V, NEW s \in Changes(V), NEW t \in Changes(V), NEW k \in Nat, NEW before
  PROVE  /\ (\A j \in DOMAIN t : t[j].index > k) =>
              replayed(s \o t, k, before) = replayed(s, k, before)
         /\ t # <<>> /\ t[Len(t)].index <= k => replayed(s \o t, k, before) = t[Len(t)].value
  <1> DEFINE E == [index: Nat, value: V]
             u == s \o t
             seen(c) == {j \in DOMAIN c : c[j].index <= k}
  <1>1. /\ s \in Seq(E) /\ t \in Seq(E) /\ u \in Seq(E)
        /\ Len(s) \in Nat /\ Len(t) \in Nat /\ Len(u) = Len(s) + Len(t)
        /\ DOMAIN s = 1..Len(s) /\ DOMAIN t = 1..Len(t) /\ DOMAIN u = 1..Len(u)
        /\ \A j \in 1..Len(s) : u[j] = s[j]
        /\ \A j \in 1..Len(u) : j > Len(s) => u[j] = t[j - Len(s)] /\ j - Len(s) \in 1..Len(t)
    BY DEF Changes
  <1>2. ASSUME NEW c, NEW b
        PROVE  replayed(c, k, b) = IF seen(c) = {} THEN b ELSE c[Max(seen(c))].value
    BY DEF replayed
  <1>3. ASSUME NEW S \in SUBSET Nat, NEW m \in S, \A j \in S : j <= m PROVE Max(S) = m
    <2>1. \A x \in S : (\A y \in S : x >= y) => x = m
      BY <1>3
    <2>2. \A y \in S : m >= y
      BY <1>3
    <2> QED
      BY <2>1, <2>2 DEF Max
  <1> HIDE DEF E, u
  <1>4. ASSUME \A j \in DOMAIN t : t[j].index > k
        PROVE  replayed(u, k, before) = replayed(s, k, before)
    <2>1. ASSUME NEW j \in 1..Len(u), j > Len(s) PROVE ~(u[j].index <= k)
      <3>1. u[j] = t[j - Len(s)] /\ j - Len(s) \in 1..Len(t)
        BY <1>1, <2>1
      <3>2. t[j - Len(s)].index \in Nat /\ t[j - Len(s)].index > k
        <4>1. t[j - Len(s)] \in E
          BY <1>1, <3>1
        <4> QED
          BY <1>1, <1>4, <3>1, <4>1 DEF E
      <3> QED
        BY <3>1, <3>2
    <2>2. seen(u) = seen(s)
      BY <1>1, <2>1
    <2>3. CASE seen(s) = {}
      BY <1>2, <2>2, <2>3
    <2>4. CASE seen(s) # {}
      <3>1. seen(s) \in SUBSET (1..Len(s))
        BY <1>1
      <3>2. PICK m \in seen(s) : \A j \in seen(s) : j <= m
        BY <1>1, <2>4, <3>1, GreatestIndex
      <3>3. Max(seen(s)) = m /\ m \in 1..Len(s)
        BY <1>1, <1>3, <3>2
      <3> HIDE DEF seen
      <3> QED
        BY <1>1, <1>2, <2>2, <2>4, <3>3
    <2> QED
      BY <2>3, <2>4
  <1>5. ASSUME t # <<>>, t[Len(t)].index <= k PROVE replayed(u, k, before) = t[Len(t)].value
    <2>1. Len(t) > 0
      BY <1>1, <1>5
    <2>2. Len(u) \in 1..Len(u) /\ u[Len(u)] = t[Len(t)]
      BY <1>1, <2>1
    <2>3. Len(u) \in seen(u) /\ \A j \in seen(u) : j <= Len(u)
      BY <1>1, <1>5, <2>2
    <2>4. seen(u) \in SUBSET Nat
      BY <1>1
    <2>5. Max(seen(u)) = Len(u)
      BY <1>3, <2>3, <2>4
    <2> HIDE DEF seen
    <2> QED
      BY <1>2, <2>2, <2>3, <2>5
  <1> QED
    BY <1>4, <1>5 DEF u

\* The entries are those before the transaction joined with its own.
Joins(h, f, n) == h[0] = <<>> /\ \A i \in 1..n : h[i] = h[i - 1] \o f[i]

\* The entries of a block are built one transaction at a time.
LEMMA EntriesAre ==
  ASSUME NEW V, NEW f, Len(txs) \in Nat, \A i \in 1..Len(txs) : f[i] \in Changes(V)
  PROVE  \E h \in [0..Len(txs) -> Changes(V)] :
           Joins(h, f, Len(txs)) /\ entries(f) = h[Len(txs)]
  <1> DEFINE n == Len(txs)
             S == Changes(V)
             step == [i \in Nat |-> [c \in S |-> IF i \in 1..n THEN c \o f[i] ELSE c]]
             added[i \in 0..n] == IF i = 0 THEN <<>> ELSE added[i - 1] \o f[i]
  <1>1. ASSUME NEW i \in 1..n, NEW c \in S PROVE c \o f[i] \in S
    <2> DEFINE E == [index: Nat, value: V]
               own == f[i]
    <2>1. own \in Seq(E) /\ c \in Seq(E) /\ S = Seq(E)
      BY DEF Changes
    <2> HIDE DEF E, own, S
    <2>2. c \o own \in Seq(E)
      BY <2>1
    <2> QED
      BY <2>1, <2>2 DEF own
  <1>2. step \in [Nat -> [S -> S]]
    BY <1>1
  <1>3. <<>> \in S
    BY DEF Changes
  <1> HIDE DEF step
  <1>4. PICK h : h \in Runs(S, <<>>, step, n)
    BY <1>2, <1>3, RunsExist
  <1>5. /\ h \in [0..n -> S] /\ h[0] = <<>>
        /\ \A i \in 1..n : h[i] = step[i][h[i - 1]]
    BY <1>4 DEF Runs
  <1>6. ASSUME NEW i \in 1..n PROVE h[i] = h[i - 1] \o f[i]
    <2>1. h[i - 1] \in S /\ h[i] = step[i][h[i - 1]]
      BY <1>5
    <2>2. i \in Nat /\ step[i] = [c \in S |-> IF i \in 1..n THEN c \o f[i] ELSE c]
      BY DEF step
    <2>3. step[i][h[i - 1]] = IF i \in 1..n THEN h[i - 1] \o f[i] ELSE h[i - 1]
      BY <2>1, <2>2, Zenon
    <2> QED
      BY <2>1, <2>3, Zenon
  <1>7. h = [i \in 0..n |-> IF i = 0 THEN <<>> ELSE h[i - 1] \o f[i]]
    <2>1. ASSUME NEW i \in 0..n PROVE h[i] = IF i = 0 THEN <<>> ELSE h[i - 1] \o f[i]
      <3>1. CASE i = 0
        BY <1>5, <3>1
      <3>2. CASE i # 0
        <4>1. i \in 1..n
          BY <3>2
        <4> QED
          BY <1>6, <3>2, <4>1, Zenon
      <3> QED
        BY <3>1, <3>2
    <2> QED
      BY <1>5, <2>1
  <1>8. added = [i \in 0..n |-> IF i = 0 THEN <<>> ELSE added[i - 1] \o f[i]]
    BY <1>7
  <1>9. \A i \in 0..n : added[i] = h[i]
    <2> DEFINE P == {i \in Nat : i \in 0..n => added[i] = h[i]}
    <2> HIDE DEF added
    <2>1. 0 \in P
      BY <1>5, <1>8
    <2>2. ASSUME NEW i \in Nat, i \in P PROVE i + 1 \in P
      <3>1. ASSUME i + 1 \in 0..n PROVE added[i + 1] = h[i + 1]
        <4>1. i \in 0..n /\ i + 1 \in 1..n /\ i + 1 # 0 /\ (i + 1) - 1 = i
          BY <3>1
        <4>2. added[i + 1] = added[i] \o f[i + 1]
          <5> DEFINE next == i + 1
          <5>1. next \in 0..n /\ next # 0 /\ next - 1 = i
            BY <4>1
          <5> HIDE DEF next
          <5>2. added[next] = IF next = 0 THEN <<>> ELSE added[next - 1] \o f[next]
            BY <1>8, <5>1, Zenon
          <5>3. added[next] = added[i] \o f[next]
            BY <5>1, <5>2, Zenon
          <5> QED
            BY <5>3 DEF next
        <4>3. h[i + 1] = h[i] \o f[i + 1]
          BY <1>6, <4>1
        <4> QED
          BY <2>2, <4>1, <4>2, <4>3
      <3> QED
        BY <3>1
    <2> HIDE DEF P
    <2>3. Nat \subseteq P
      BY <2>1, <2>2, SetInduction
    <2> QED
      BY <2>3 DEF P
  <1>10. entries(f) = added[n]
    BY DEF entries
  <1>11. Joins(h, f, n)
    BY <1>5, <1>6 DEF Joins
  <1>12. entries(f) = h[n]
    <2>1. n \in 0..n
      OBVIOUS
    <2> QED
      BY <1>9, <1>10, <2>1
  <1> QED
    BY <1>5, <1>11, <1>12

\* The own entries of the transactions: each has its transaction's index.
Dated(f, V) ==
  \A i \in 1..Len(txs) : /\ f[i] \in Changes(V)
                         /\ \A j \in DOMAIN f[i] : f[i][j].index = i

\* Entries tell of a change of before to after, or of none.
Tell(own, before, after) ==
  IF own = <<>> THEN after = before ELSE own[Len(own)].value = after

\* Entries that tell of each change up to an index replay to the value there.
LEMMA EntriesReplay ==
  ASSUME NEW V, NEW f, Len(txs) \in Nat, Dated(f, V), NEW k \in 0..Len(txs), NEW v,
         \A i \in 1..k : Tell(f[i], v[i - 1], v[i])
  PROVE  replayed(entries(f), k, v[0]) = v[k]
  <1> DEFINE n == Len(txs)
             E == [index: Nat, value: V]
  <1>1. \A i \in 1..n : f[i] \in Changes(V)
    BY DEF Dated
  <1>2. PICK h \in [0..n -> Changes(V)] : Joins(h, f, n) /\ entries(f) = h[n]
    BY <1>1, EntriesAre
  <1> DEFINE P == {m \in Nat : m \in 0..n =>
                     replayed(h[m], k, v[0]) = v[IF m <= k THEN m ELSE k]}
  <1>3. 0 \in P
    <2>1. replayed(<<>>, k, v[0]) = v[0]
      BY DEF replayed
    <2>2. h[0] = <<>> /\ 0 <= k
      BY <1>2 DEF Joins
    <2> QED
      BY <2>1, <2>2
  <1>4. ASSUME NEW m \in Nat, m \in P PROVE m + 1 \in P
    <2> DEFINE next == m + 1
               own == f[next]
    <2>1. SUFFICES ASSUME next \in 0..n
                   PROVE  replayed(h[next], k, v[0]) = v[IF next <= k THEN next ELSE k]
      OBVIOUS
    <2>2. /\ m \in 0..n /\ next \in 1..n /\ next - 1 = m /\ next \in Nat /\ k \in Nat
          /\ next <= k => m <= k
          /\ ~(next <= k) => next > k
      BY <2>1
    <2>3. replayed(h[m], k, v[0]) = v[IF m <= k THEN m ELSE k]
      BY <1>4, <2>2
    <2>4. own \in Changes(V) /\ \A j \in DOMAIN own : own[j].index = next
      BY <2>2 DEF Dated
    <2> HIDE DEF own, next, P
    <2>5. h[m] \in Changes(V) /\ h[next] = h[m] \o own
      BY <1>2, <2>2 DEF Joins, own
    <2>6. CASE ~(next <= k)
      <3>1. replayed(h[next], k, v[0]) = replayed(h[m], k, v[0])
        <4>1. \A j \in DOMAIN own : own[j].index > k
          BY <2>2, <2>4, <2>6
        <4> QED
          BY <2>2, <2>4, <2>5, <4>1, ReplayedJoin
      <3>2. (IF m <= k THEN m ELSE k) = k
        BY <2>2, <2>6 DEF next
      <3> QED
        BY <2>3, <2>6, <3>1, <3>2
    <2>7. CASE next <= k
      <3>1. Tell(own, v[m], v[next])
        <4>1. next \in 1..k
          BY <2>2, <2>7
        <4> QED
          BY <2>2, <4>1 DEF own
      <3>2. CASE own = <<>>
        <4>1. \A j \in DOMAIN own : own[j].index > k
          BY <3>2
        <4>2. replayed(h[next], k, v[0]) = replayed(h[m], k, v[0])
          BY <2>2, <2>4, <2>5, <4>1, ReplayedJoin
        <4> QED
          BY <2>2, <2>3, <2>7, <3>1, <3>2, <4>2 DEF Tell
      <3>3. CASE own # <<>>
        <4>1. own[Len(own)].index = next
          <5>1. own \in Seq(E)
            BY <2>4 DEF Changes
          <5>2. Len(own) \in DOMAIN own
            BY <3>3, <5>1
          <5> QED
            BY <2>4, <5>2
        <4>2. replayed(h[next], k, v[0]) = own[Len(own)].value
          BY <2>2, <2>4, <2>5, <2>7, <3>3, <4>1, ReplayedJoin
        <4> QED
          BY <2>7, <3>1, <3>3, <4>2 DEF Tell
      <3> QED
        BY <3>2, <3>3
    <2> QED
      BY <2>6, <2>7
  <1> HIDE DEF P
  <1>5. Nat \subseteq P
    BY <1>3, <1>4, SetInduction
  <1>6. n \in P /\ n \in 0..n /\ (IF n <= k THEN n ELSE k) = k
    BY <1>5
  <1> QED
    BY <1>2, <1>6 DEF P

\* The entries are changes with indices of transactions, and none only if no
\* transaction has one.
LEMMA EntriesType ==
  ASSUME NEW V, NEW f, Len(txs) \in Nat, Dated(f, V)
  PROVE  /\ entries(f) \in Changes(V)
         /\ \A j \in DOMAIN entries(f) : entries(f)[j].index \in 1..Len(txs)
         /\ entries(f) = <<>> => \A i \in 1..Len(txs) : f[i] = <<>>
         /\ (\A i \in 1..Len(txs) : Len(f[i]) <= 1) =>
              \A j \in DOMAIN entries(f) :
                entries(f)[j].index = entries(f)[Len(entries(f))].index => j = Len(entries(f))
  <1> DEFINE n == Len(txs)
             E == [index: Nat, value: V]
             Early(c, m) == \A j \in DOMAIN c : c[j].index \in 1..m
             Single(c) == \A i, j \in DOMAIN c : c[i].index = c[j].index => i = j
             short == \A i \in 1..n : Len(f[i]) <= 1
  <1>1. \A i \in 1..n : f[i] \in Changes(V)
    BY DEF Dated
  <1>2. PICK h \in [0..n -> Changes(V)] : Joins(h, f, n) /\ entries(f) = h[n]
    BY <1>1, EntriesAre
  <1> DEFINE P == {m \in Nat : m \in 0..n =>
                     /\ Early(h[m], m)
                     /\ h[m] = <<>> => \A i \in 1..m : f[i] = <<>>
                     /\ short => Single(h[m])}
  <1>3. 0 \in P
    <2>1. h[0] = <<>>
      BY <1>2 DEF Joins
    <2> QED
      BY <2>1
  <1>4. ASSUME NEW m \in Nat, m \in P PROVE m + 1 \in P
    <2> DEFINE next == m + 1
               own == f[next]
               s == h[m]
               u == h[next]
    <2>1. SUFFICES ASSUME next \in 0..n
                   PROVE  /\ Early(u, next)
                          /\ u = <<>> => \A i \in 1..next : f[i] = <<>>
                          /\ short => Single(u)
      OBVIOUS
    <2>2. m \in 0..n /\ next \in 1..n /\ next - 1 = m
      BY <2>1
    <2>3. /\ Early(s, m)
          /\ s = <<>> => \A i \in 1..m : f[i] = <<>>
          /\ short => Single(s)
      BY <1>4, <2>2
    <2>4. own \in Seq(E) /\ \A j \in DOMAIN own : own[j].index = next
      BY <2>2 DEF Dated, Changes
    <2>5. s \in Seq(E) /\ u = s \o own
      <3>1. h[m] \in Changes(V) /\ h[next] = h[m] \o own
        <4> HIDE DEF next
        <4> QED
          BY <1>2, <2>2 DEF Joins
      <3> QED
        BY <3>1 DEF Changes
    <2> HIDE DEF E, P, own, s, u
    <2>6. /\ Len(s) \in Nat /\ Len(own) \in Nat /\ Len(u) = Len(s) + Len(own) /\ u \in Seq(E)
          /\ DOMAIN s = 1..Len(s) /\ DOMAIN own = 1..Len(own) /\ DOMAIN u = 1..Len(u)
          /\ \A j \in 1..Len(s) : u[j] = s[j]
          /\ \A j \in 1..Len(u) : j > Len(s) => u[j] = own[j - Len(s)] /\ j - Len(s) \in 1..Len(own)
      BY <2>4, <2>5
    <2>7. \A j \in DOMAIN u : IF j <= Len(s) THEN j \in DOMAIN s /\ u[j].index = s[j].index
                              ELSE u[j].index = next
      <3>1. ASSUME NEW j \in DOMAIN u, j <= Len(s)
            PROVE  j \in DOMAIN s /\ u[j].index = s[j].index
        BY <2>6, <3>1
      <3>2. ASSUME NEW j \in DOMAIN u, ~(j <= Len(s)) PROVE u[j].index = next
        <4>1. u[j] = own[j - Len(s)] /\ j - Len(s) \in DOMAIN own
          BY <2>6, <3>2
        <4> QED
          BY <2>4, <4>1
      <3> QED
        BY <3>1, <3>2
    <2>8. Early(u, next)
      BY <2>3, <2>6, <2>7
    <2>9. ASSUME u = <<>>, NEW i \in 1..next PROVE f[i] = <<>>
      <3>1. Len(u) = 0
        BY <2>9
      <3>2. Len(s) = 0 /\ Len(own) = 0
        BY <2>6, <3>1
      <3>3. s = <<>> /\ own = <<>>
        BY <2>4, <2>5, <3>2
      <3>4. i = next \/ i \in 1..m
        OBVIOUS
      <3> QED
        BY <2>3, <3>3, <3>4 DEF own
    <2>10. ASSUME short PROVE Single(u)
      <3>1. Len(own) <= 1
        BY <2>2, <2>10 DEF own
      <3>2. ASSUME NEW i \in DOMAIN u, NEW j \in DOMAIN u, u[i].index = u[j].index PROVE i = j
        <4>1. CASE i <= Len(s) /\ j <= Len(s)
          BY <2>3, <2>7, <2>10, <3>2, <4>1
        <4>2. CASE i > Len(s) /\ j > Len(s)
          BY <2>6, <3>1, <4>2
        <4>3. CASE (i <= Len(s)) # (j <= Len(s))
          BY <2>3, <2>6, <2>7, <3>2, <4>3
        <4> QED
          BY <2>6, <4>1, <4>2, <4>3
      <3> QED
        BY <3>2
    <2> HIDE DEF short
    <2> QED
      BY <2>8, <2>9, <2>10
  <1> HIDE DEF P
  <1>5. Nat \subseteq P
    BY <1>3, <1>4, SetInduction
  <1>6. /\ Early(entries(f), n)
        /\ entries(f) = <<>> => \A i \in 1..n : f[i] = <<>>
        /\ short => Single(entries(f))
    BY <1>2, <1>5 DEF P
  <1>7. entries(f) \in Changes(V)
    <2>1. n \in 0..n
      OBVIOUS
    <2> QED
      BY <1>2, <2>1
  <1>8. ASSUME short, NEW j \in DOMAIN entries(f),
               entries(f)[j].index = entries(f)[Len(entries(f))].index
        PROVE  j = Len(entries(f))
    <2>1. entries(f) \in Seq(E)
      BY <1>7 DEF Changes
    <2>2. Len(entries(f)) \in DOMAIN entries(f)
      BY <2>1
    <2> QED
      BY <1>6, <1>8, <2>2
  <1> QED
    BY <1>6, <1>7, <1>8

\* One more entry.
LEMMA OneMore ==
  ASSUME NEW D, NEW s \in Seq(D), NEW t \in Seq(D), Len(t) = 1
  PROVE  /\ Len(s) \in Nat /\ Len(s \o t) = Len(s) + 1 /\ s \o t # <<>>
         /\ DOMAIN (s \o t) = 1..(Len(s) + 1)
         /\ (s \o t)[Len(s) + 1] = t[1]
         /\ \A j \in 1..Len(s) : (s \o t)[j] = s[j]
  <1>1. /\ Len(s) \in Nat /\ Len(s \o t) = Len(s) + 1 /\ DOMAIN (s \o t) = 1..(Len(s) + 1)
    <2>1. /\ s \o t \in Seq(D) /\ Len(s \o t) = Len(s) + Len(t)
          /\ Len(s) \in Nat
      BY ConcatProperties
    <2>2. Len(s \o t) = Len(s) + 1
      BY <2>1
    <2>3. DOMAIN (s \o t) = 1..Len(s \o t)
      BY <2>1
    <2> QED
      BY <2>1, <2>2, <2>3
  <1>2. s \o t # <<>>
    <2>1. Len(<<>>) = 0
      OBVIOUS
    <2> QED
      BY <1>1, <2>1
  <1> QED
    BY <1>1, <1>2

\* The latest balance is one of the changes, the last when no other shares its
\* index.
LEMMA LatestBalance ==
  ASSUME NEW c \in Changes(Nat), NEW otherwise \in Nat
  PROVE  /\ latest_balance(c, otherwise) \in Nat
         /\ c = <<>> => latest_balance(c, otherwise) = otherwise
         /\ c # <<>> /\ (\A j \in DOMAIN c : c[j].index = c[Len(c)].index => j = Len(c)) =>
              latest_balance(c, otherwise) = c[Len(c)].value
  <1> DEFINE E == [index: Nat, value: Nat]
             last == c[Len(c)].index
             First(i) == c[i].index = last /\ \A j \in 1..(i - 1) : c[j].index # last
             first == CHOOSE i \in DOMAIN c : First(i)
  <1>1. c \in Seq(E) /\ DOMAIN c = 1..Len(c) /\ Len(c) \in Nat
    BY DEF Changes
  <1>2. latest_balance(c, otherwise) = IF c = <<>> THEN otherwise ELSE c[first].value
    BY DEF latest_balance
  <1>3. ASSUME c # <<>>
        PROVE  /\ first \in DOMAIN c /\ First(first) /\ Len(c) \in DOMAIN c
               /\ c[first].value \in Nat
    <2>1. Len(c) \in DOMAIN c
      BY <1>1, <1>3
    <2> DEFINE T == {i \in DOMAIN c : c[i].index = last}
    <2>2. T \subseteq Nat /\ T # {}
      BY <1>1, <2>1
    <2>3. PICK i \in T : \A j \in T : i <= j
      BY <2>2, LeastElement
    <2>4. i \in 1..Len(c) /\ c[i].index = last
      BY <1>1
    <2> HIDE DEF last
    <2>5. ASSUME NEW j \in 1..(i - 1) PROVE c[j].index # last
      <3>1. j \in 1..Len(c) /\ ~(i <= j)
        BY <1>1, <2>4
      <3> QED
        BY <1>1, <2>3, <3>1
    <2>6. i \in DOMAIN c /\ First(i)
      BY <1>1, <2>4, <2>5
    <2> HIDE DEF First
    <2>7. first \in DOMAIN c /\ First(first)
      BY <2>6
    <2> HIDE DEF first, E
    <2>8. c[first] \in E
      BY <1>1, <2>7
    <2>9. c[first].value \in Nat
      BY <2>8 DEF E
    <2>10. c[first].index = last /\ \A j \in 1..(first - 1) : c[j].index # last
      BY <2>7 DEF First
    <2> QED
      BY <2>1, <2>7, <2>9, <2>10 DEF First
  <1>4. ASSUME c # <<>>, \A j \in DOMAIN c : c[j].index = c[Len(c)].index => j = Len(c)
        PROVE  first = Len(c)
    BY <1>3, <1>4
  <1> HIDE DEF first, First, E
  <1> QED
    BY <1>2, <1>3, <1>4

\* Withdrawals leave the balances of the others and the entries before them.
\* One or two raise the latest balance of the account by as many.
LEMMA Withdrawn ==
  ASSUME Len(txs) \in Nat, withdrawals \in Seq({"new"}), NEW a, parent[a].balance \in Nat,
         NEW c \in Changes(Nat), \A j \in DOMAIN c : c[j].index \in 1..Len(txs)
  PROVE  /\ a # "new" => withdrawn(c, a) = c
         /\ a = "new" /\ withdrawals # <<>> => withdrawn(c, a) # <<>>
         /\ \A before : \A k \in 0..Len(txs) :
              replayed(withdrawn(c, a), k, before) = replayed(c, k, before)
         /\ a = "new" /\ Len(withdrawals) \in 1..2 =>
              \A before : replayed(withdrawn(c, a), Len(txs) + 1, before)
                            = latest_balance(c, parent[a].balance) + Len(withdrawals)
  <1> DEFINE n == Len(txs)
             m == Len(withdrawals)
             E == [index: Nat, value: Nat]
             S == Changes(Nat)
             latest(x) == latest_balance(x, parent[a].balance)
             own(x) == <<[index |-> n + 1, value |-> latest(x) + 1]>>
             credit(x) == Append(x, [index |-> n + 1, value |-> latest(x) + 1])
             step == [i \in Nat |-> [x \in S |-> IF withdrawals[i] # a THEN x ELSE credit(x)]]
             credited[i \in 0..m] ==
               IF i = 0 THEN c
               ELSE IF withdrawals[i] # a THEN credited[i - 1] ELSE credit(credited[i - 1])
  <1>1. m \in Nat /\ \A i \in 1..m : withdrawals[i] = "new"
    OBVIOUS
  <1>2. ASSUME NEW x \in S
        PROVE  credit(x) = x \o own(x) /\ own(x) \in S /\ credit(x) \in S /\ latest(x) \in Nat
    <2> DEFINE v == latest(x) + 1
               e == [index |-> n + 1, value |-> v]
    <2>1. latest(x) \in Nat
      BY LatestBalance
    <2>2. v \in Nat
      <3> HIDE DEF latest
      <3> QED
        BY <2>1
    <2> HIDE DEF v
    <2>3. e \in E /\ n + 1 \in Nat
      BY <2>2
    <2> HIDE DEF e, E
    <2>4. x \in Seq(E)
      BY DEF Changes, E
    <2>5. Append(x, e) = x \o <<e>> /\ <<e>> \in Seq(E) /\ Append(x, e) \in Seq(E)
      BY <2>3, <2>4
    <2>6. own(x) = <<e>> /\ credit(x) = Append(x, e)
      BY DEF e, v
    <2>7. S = Seq(E)
      BY DEF Changes, E
    <2> HIDE DEF own, credit, S
    <2> QED
      BY <2>1, <2>5, <2>6, <2>7
  <1>3. step \in [Nat -> [S -> S]]
    <2> HIDE DEF credit
    <2> QED
      BY <1>2
  <1> HIDE DEF step, credit
  <1>4. PICK h : h \in Runs(S, c, step, m)
    BY <1>1, <1>3, RunsExist
  <1>5. /\ h \in [0..m -> S] /\ h[0] = c
        /\ \A i \in 1..m : h[i] = step[i][h[i - 1]]
    BY <1>4 DEF Runs
  <1>6. ASSUME NEW i \in 1..m
        PROVE  h[i - 1] \in S /\ h[i] = IF withdrawals[i] # a THEN h[i - 1] ELSE credit(h[i - 1])
    <2>1. h[i - 1] \in S /\ h[i] = step[i][h[i - 1]]
      BY <1>1, <1>5
    <2>2. i \in Nat /\ step[i] = [x \in S |-> IF withdrawals[i] # a THEN x ELSE credit(x)]
      BY <1>1 DEF step
    <2> QED
      BY <2>1, <2>2, Zenon
  <1>7. h = [i \in 0..m |->
               IF i = 0 THEN c
               ELSE IF withdrawals[i] # a THEN h[i - 1] ELSE credit(h[i - 1])]
    <2>1. ASSUME NEW i \in 0..m
          PROVE  h[i] = IF i = 0 THEN c
                        ELSE IF withdrawals[i] # a THEN h[i - 1] ELSE credit(h[i - 1])
      <3>1. CASE i = 0
        BY <1>5, <3>1
      <3>2. CASE i # 0
        <4>1. i \in 1..m
          BY <1>1, <3>2
        <4> QED
          BY <1>6, <3>2, <4>1, Zenon
      <3> QED
        BY <3>1, <3>2
    <2> QED
      BY <1>5, <2>1
  <1>8. credited = [i \in 0..m |->
                      IF i = 0 THEN c
                      ELSE IF withdrawals[i] # a THEN credited[i - 1]
                      ELSE credit(credited[i - 1])]
    BY <1>7
  <1>9. withdrawn(c, a) = credited[m]
    BY DEF withdrawn, credit
  <1> HIDE DEF credited
  <1> DEFINE x == credited[m]
             Same(i) == \A before : \A k \in 0..n :
                          replayed(credited[i], k, before) = replayed(c, k, before)
             P == {i \in Nat : i \in 0..m =>
                     /\ credited[i] \in S
                     /\ a # "new" => credited[i] = c
                     /\ a = "new" /\ i # 0 => credited[i] # <<>>
                     /\ Same(i)}
  <1>10. credited[0] = c
    BY <1>1, <1>8
  <1>11. ASSUME NEW i \in 1..m
         PROVE  credited[i] = IF withdrawals[i] # a THEN credited[i - 1]
                              ELSE credit(credited[i - 1])
    <2>1. i \in 0..m /\ i # 0
      BY <1>1
    <2> QED
      BY <1>8, <2>1, Zenon
  <1>12. 0 \in P
    BY <1>10
  <1>13. ASSUME NEW i \in Nat, i \in P PROVE i + 1 \in P
    <2> DEFINE next == i + 1
    <2>1. SUFFICES ASSUME next \in 0..m
                   PROVE  /\ credited[next] \in S
                          /\ a # "new" => credited[next] = c
                          /\ a = "new" /\ next # 0 => credited[next] # <<>>
                          /\ Same(next)
      OBVIOUS
    <2>2. i \in 0..m /\ next \in 1..m /\ next - 1 = i
      BY <1>1, <2>1
    <2>3. credited[i] \in S /\ Same(i) /\ (a # "new" => credited[i] = c)
      BY <1>13, <2>2
    <2> HIDE DEF next, P
    <2>4. credited[next] = IF a # "new" THEN credited[i] ELSE credit(credited[i])
      BY <1>1, <1>11, <2>2
    <2>5. CASE a # "new"
      BY <2>3, <2>4, <2>5
    <2>6. CASE a = "new"
      <3> DEFINE so_far == credited[i]
      <3>1. /\ credited[next] = so_far \o own(so_far) /\ own(so_far) \in S
            /\ credited[next] \in S
        BY <1>2, <2>3, <2>4, <2>6
      <3>2. own(so_far)[1].index = n + 1 /\ DOMAIN own(so_far) = {1} /\ Len(own(so_far)) = 1
        OBVIOUS
      <3> DEFINE y == own(so_far)
                 z == credited[next]
      <3>5. y \in S /\ z = so_far \o y /\ y[1].index = n + 1 /\ DOMAIN y = {1} /\ Len(y) = 1
        BY <3>1, <3>2
      <3>6. /\ so_far \in S
            /\ \A before : \A k \in 0..n :
                 replayed(so_far, k, before) = replayed(c, k, before)
        BY <2>3
      <3> HIDE DEF own, so_far, y, z
      <3>3. ASSUME NEW k \in 0..n, NEW before
            PROVE  replayed(credited[next], k, before) = replayed(c, k, before)
        <4>1. k \in Nat /\ \A j \in DOMAIN y : y[j].index > k
          BY <3>5
        <4>2. replayed(so_far \o y, k, before) = replayed(so_far, k, before)
          <5>1. so_far \in Changes(Nat) /\ y \in Changes(Nat)
            BY <3>5, <3>6
          <5> QED
            BY <4>1, <5>1, ReplayedJoin
        <4> QED
          BY <3>5, <3>6, <4>2 DEF z
      <3>4. credited[next] # <<>>
        <4>1. so_far \in Seq(E) /\ y \in Seq(E)
          BY <3>5, <3>6 DEF Changes
        <4> HIDE DEF E
        <4>2. z # <<>>
          BY <3>5, <4>1, OneMore
        <4> QED
          BY <4>2 DEF z
      <3> QED
        BY <2>6, <3>1, <3>3, <3>4
    <2> QED
      BY <2>5, <2>6
  <1> HIDE DEF P
  <1>14. Nat \subseteq P
    BY <1>12, <1>13, SetInduction
  <1>15. \A i \in 0..m : i \in P
    BY <1>1, <1>14
  <1>16. /\ x \in S /\ (a # "new" => x = c) /\ Same(m)
         /\ a = "new" /\ withdrawals # <<>> => x # <<>>
    <2>1. m \in 0..m /\ (withdrawals # <<>> => m # 0)
      BY <1>1
    <2> QED
      BY <1>15, <2>1 DEF P
  <1>17. ASSUME a = "new", m \in 1..2, NEW before
         PROVE  replayed(x, n + 1, before) = latest(c) + m
    <2>1. ASSUME NEW i \in 1..m
          PROVE  /\ credited[i - 1] \in S
                 /\ credited[i] = credited[i - 1] \o own(credited[i - 1])
                 /\ credited[i] \in S
      <3>1. i - 1 \in 0..m /\ i - 1 \in P
        BY <1>1, <1>15
      <3>2. credited[i - 1] \in S
        BY <3>1 DEF P
      <3>3. credited[i] = credit(credited[i - 1])
        BY <1>1, <1>11, <1>17
      <3> QED
        BY <1>2, <3>2, <3>3
    <2>2. ASSUME NEW i \in 1..m
          PROVE  replayed(credited[i], n + 1, before) = latest(credited[i - 1]) + 1
      <3> DEFINE y == own(credited[i - 1])
      <3>1. y # <<>> /\ Len(y) = 1 /\ y[1].index = n + 1 /\ y[1].value = latest(credited[i - 1]) + 1
        OBVIOUS
      <3>2. y \in S
        BY <1>2, <2>1
      <3> DEFINE s == credited[i - 1]
      <3>3. s \in S /\ credited[i] = s \o y /\ y[1].value = latest(s) + 1
        BY <2>1
      <3> HIDE DEF y, s
      <3>4. n + 1 \in Nat /\ y[Len(y)].index <= n + 1
        BY <3>1
      <3>5. replayed(s \o y, n + 1, before) = y[Len(y)].value
        BY <3>1, <3>2, <3>3, <3>4, ReplayedJoin
      <3>6. replayed(credited[i], n + 1, before) = latest(s) + 1
        BY <3>1, <3>3, <3>5
      <3> QED
        BY <3>6 DEF s
    <2>3. CASE m = 1
      <3>1. replayed(credited[1], n + 1, before) = latest(credited[0]) + 1
        BY <2>2, <2>3
      <3> QED
        BY <1>10, <2>3, <3>1
    <2>4. CASE m = 2
      <3> DEFINE one == credited[1]
                 y == own(c)
      <3>1. replayed(credited[2], n + 1, before) = latest(one) + 1
        BY <2>2, <2>4
      <3>10. 1 \in 1..m /\ 1 - 1 = 0
        BY <2>4
      <3>2. one = c \o y /\ one \in S
        <4> HIDE DEF own
        <4>1. /\ credited[1] = credited[1 - 1] \o own(credited[1 - 1])
              /\ credited[1] \in S
          BY <2>1, <3>10
        <4>2. credited[1 - 1] = c
          BY <1>10, <3>10
        <4> QED
          BY <4>1, <4>2
      <3>3. y[1].index = n + 1 /\ y[1].value = latest(c) + 1 /\ Len(y) = 1
        OBVIOUS
      <3>4. y \in S /\ latest(c) \in Nat
        BY <1>2
      <3> HIDE DEF one, y, own
      <3>5. /\ c \in Seq(E) /\ y \in Seq(E) /\ one \in Seq(E)
        BY <3>2, <3>4 DEF Changes
      <3> HIDE DEF E
      <3>6. /\ Len(c) \in Nat /\ Len(one) = Len(c) + 1 /\ one # <<>>
            /\ DOMAIN one = 1..(Len(c) + 1)
            /\ one[Len(c) + 1] = y[1]
            /\ \A j \in 1..Len(c) : one[j] = c[j]
        BY <3>2, <3>3, <3>5, OneMore
      <3>7. \A j \in DOMAIN one : one[j].index = one[Len(one)].index => j = Len(one)
        <4>1. ASSUME NEW j \in 1..Len(c) PROVE one[j].index # n + 1
          <5>1. c[j].index \in 1..n
            BY <3>5
          <5> QED
            BY <3>6, <5>1
        <4>2. one[Len(one)].index = n + 1
          BY <3>3, <3>6
        <4>3. ASSUME NEW j \in DOMAIN one, j # Len(one) PROVE j \in 1..Len(c)
          BY <3>6, <4>3
        <4> QED
          BY <4>1, <4>2, <4>3
      <3>8. latest(one) = one[Len(one)].value
        BY <3>2, <3>6, <3>7, LatestBalance
      <3>9. latest(one) = latest(c) + 1
        BY <3>3, <3>6, <3>8
      <3> HIDE DEF latest
      <3> QED
        BY <2>4, <3>1, <3>4, <3>9
    <2> QED
      BY <1>17, <2>3, <2>4
  <1> QED
    BY <1>9, <1>16, <1>17

-----------------------------------------------------------------------------
(* The chain.  The transactions of a block follow each other, and what one *)
(* may change is bounded by what it touched.                               *)

\* The world the first transactions of the block leave.
left_by(i) == IF i = 0 THEN parent ELSE txs[i].after

\* A transaction and a world it made: accounts it did not touch are as it found
\* them, only the account of a create is tried to be made, and no nonce falls.
Fits(tx, w) ==
  /\ {Sender, Contract, fee_recipient} \subseteq tx.touched /\ tx.created \subseteq {"new"}
  /\ \A a \in Addresses : /\ a \notin tx.touched => w[a] = tx.before[a]
                          /\ w[a].nonce >= tx.before[a].nonce

\* All that a failing transaction moves: the fee.
Charged(v, w) ==
  /\ v[Sender].balance >= 2
  /\ \A a \in Addresses :
       w[a].balance = v[a].balance - (IF a = Sender THEN 2 ELSE 0)
                                   + (IF a = fee_recipient THEN 1 ELSE 0)

Credited(v, w, n) ==
  \A a \in Addresses : w[a] = [v[a] EXCEPT !.balance = @ + (IF a = "new" THEN n ELSE 0)]

SettledInv ==
  \A i \in 1..Len(txs) :
    /\ txs[i].before = left_by(i - 1)
    /\ Fits(txs[i], txs[i].after)
    /\ txs[i].failed => Charged(txs[i].before, txs[i].after)

InProgress ==
  open # Closed =>
    /\ open.before = left_by(Len(txs)) /\ withdrawals = <<>>
    /\ Fits(open, world) /\ Fits(open, open.started)
    /\ Charged(open.before, open.started)

\* The transactions of the block follow each other, and the withdrawals them.
ChainInv ==
  /\ parent \in World
  /\ withdrawals \in Seq({"new"})
  /\ SettledInv
  /\ InProgress
  /\ open = Closed => Credited(left_by(Len(txs)), world, Len(withdrawals))

\* What moving value leaves alone.
LEMMA MovedFields ==
  ASSUME NEW w \in World, NEW from \in Addresses, NEW to \in Addresses, NEW value \in Nat,
         NEW a \in Addresses
  PROVE  /\ move(w, from, to, value)[a].nonce = w[a].nonce
         /\ move(w, from, to, value)[a].code = w[a].code
         /\ move(w, from, to, value)[a].storage = w[a].storage
         /\ move(w, from, to, value)[a].balance =
              w[a].balance - (IF a = from THEN value ELSE 0) + (IF a = to THEN value ELSE 0)
         /\ a \notin {from, to} => move(w, from, to, value)[a] = w[a]
  <1> DEFINE b == w[a].balance - (IF a = from THEN value ELSE 0) + (IF a = to THEN value ELSE 0)
  <1>1. w[a] \in AnAccount
    BY DEF World
  <1>2. move(w, from, to, value)[a] = [w[a] EXCEPT !.balance = b]
    BY DEF move
  <1>3. ASSUME a \notin {from, to} PROVE b = w[a].balance
    <2>1. w[a].balance \in Nat
      BY <1>1 DEF AnAccount
    <2> QED
      BY <1>3, <2>1
  <1>4. w[a] = [w[a] EXCEPT !.balance = w[a].balance]
    BY <1>1 DEF AnAccount
  <1> HIDE DEF b
  <1>5. a \notin {from, to} => move(w, from, to, value)[a] = w[a]
    BY <1>2, <1>3, <1>4
  <1>6. /\ move(w, from, to, value)[a].nonce = w[a].nonce
        /\ move(w, from, to, value)[a].code = w[a].code
        /\ move(w, from, to, value)[a].storage = w[a].storage
        /\ move(w, from, to, value)[a].balance = b
    BY <1>1, <1>2 DEF AnAccount
  <1> QED
    BY <1>5, <1>6 DEF b

\* Nothing is credited where nothing is withdrawn.
LEMMA CreditedNone ==
  ASSUME NEW v \in World, NEW w \in World
  PROVE  Credited(v, w, 0) <=> w = v
  <1>1. ASSUME NEW a \in Addresses
        PROVE  [v[a] EXCEPT !.balance = @ + (IF a = "new" THEN 0 ELSE 0)] = v[a]
    <2>1. v[a] \in AnAccount /\ v[a].balance \in Nat
      BY DEF World, AnAccount
    <2>2. v[a].balance + (IF a = "new" THEN 0 ELSE 0) = v[a].balance
      BY <2>1
    <2>3. [v[a] EXCEPT !.balance = v[a].balance] = v[a]
      BY <2>1 DEF AnAccount
    <2> QED
      BY <2>2, <2>3
  <1>2. Credited(v, w, 0) <=> \A a \in Addresses : w[a] = v[a]
    BY <1>1 DEF Credited
  <1>3. w = [a \in Addresses |-> w[a]] /\ v = [a \in Addresses |-> v[a]]
    BY DEF World
  <1> QED
    BY <1>2, <1>3

\* Nothing is executed yet, and the world is the parent's.
LEMMA ChainInit == Init => ChainInv
  <1> SUFFICES ASSUME Init PROVE ChainInv
    OBVIOUS
  <1>1. parent = world /\ txs = <<>> /\ open = Closed /\ withdrawals = <<>>
    BY DEF Init
  <1>2. world \in World
    BY BlockInit DEF BlockInv, WorldInv
  <1>3. Len(txs) = 0 /\ Len(withdrawals) = 0 /\ left_by(0) = parent
    BY <1>1 DEF left_by
  <1>4. Credited(parent, world, 0)
    BY <1>1, <1>2, CreditedNone
  <1>5. SettledInv
    BY <1>3 DEF SettledInv
  <1>6. InProgress
    BY <1>1 DEF InProgress
  <1> QED
    BY <1>1, <1>2, <1>3, <1>4, <1>5, <1>6 DEF ChainInv

\* A transaction takes its fee from the world it finds.
LEMMA ChainBegin ==
  ASSUME BlockInv, ChainInv, NEW evs, evs = <<>> \/ \E a \in Authorization : evs = <<a>>,
         Begin(evs)
  PROVE  ChainInv'
  <1> DEFINE tip == effective_gas_price - base_fee_per_gas
             moved == move(world, Sender, fee_recipient, tip)
             started == [moved EXCEPT
                           ![Sender].balance = @ - base_fee_per_gas,
                           ![Sender].nonce = @ + 1,
                           ![Sender].code = IF evs = <<>> THEN @ ELSE evs[1].code]
  <1>1. /\ world \in World /\ scenario \in Scenarios
        /\ parent \in World /\ withdrawals \in Seq({"new"}) /\ SettledInv
    BY DEF BlockInv, WorldInv, ChainInv
  <1>2. Sender \in Addresses /\ Contract \in Addresses /\ fee_recipient \in Addresses
    BY <1>1, ScenarioAssumption DEF Addresses, fee_recipient
  <1>3. /\ world' = started
        /\ open' = [before |-> world, started |-> started,
                    touched |-> {Sender, Contract, fee_recipient},
                    slots |-> {}, created |-> {}, reverts |-> FALSE, events |-> evs]
        /\ world[Sender].balance >= effective_gas_price
        /\ open = Closed /\ withdrawals = <<>>
        /\ UNCHANGED <<scenario, parent, txs, withdrawals>>
    BY DEF Begin
  <1>4. left_by(Len(txs)) \in World /\ Credited(left_by(Len(txs)), world, 0)
    <2>1. Credited(left_by(Len(txs)), world, 0)
      BY <1>3 DEF ChainInv
    <2>2. left_by(Len(txs)) \in World
      <3>1. txs \in Seq(ExecutedTransactions)
        BY DEF BlockInv
      <3>2. CASE Len(txs) = 0
        BY <1>1, <3>2 DEF left_by
      <3>3. CASE Len(txs) # 0
        <4>1. Len(txs) \in 1..Len(txs)
          BY <3>1, <3>3
        <4>2. txs[Len(txs)] \in Executions
          BY <3>1, <4>1 DEF ExecutedTransactions
        <4> QED
          BY <3>3, <4>2 DEF left_by, Executions
      <3> QED
        BY <3>2, <3>3
    <2> QED
      BY <2>1, <2>2
  <1>5. world = left_by(Len(txs))
    BY <1>1, <1>4, CreditedNone
  <1>6. tip = 1 /\ tip \in Nat
    BY DEF effective_gas_price, base_fee_per_gas
  <1>7. ASSUME NEW a \in Addresses
        PROVE  /\ moved[a].nonce = world[a].nonce
               /\ moved[a].balance = world[a].balance - (IF a = Sender THEN 1 ELSE 0)
                                                      + (IF a = fee_recipient THEN 1 ELSE 0)
               /\ a \notin {Sender, fee_recipient} => moved[a] = world[a]
    <2> HIDE DEF tip
    <2> QED
      BY <1>1, <1>2, <1>6, <1>7, MovedFields
  <1>8. DOMAIN moved = Addresses /\ moved[Sender] \in AnAccount
    <2>1. world[Sender].balance \in Nat /\ world[Sender].balance >= tip
      <3>1. world[Sender].balance \in Nat
        BY <1>1, <1>2 DEF World, AnAccount
      <3>2. world[Sender].balance >= 2
        BY <1>3 DEF effective_gas_price
      <3> HIDE DEF tip
      <3> QED
        BY <1>6, <3>1, <3>2
    <2> HIDE DEF tip
    <2>2. move(world, Sender, fee_recipient, tip) \in World
      BY <1>1, <1>2, <1>6, <2>1, Moved
    <2> QED
      BY <1>2, <2>2 DEF World
  <1> DEFINE b == moved[Sender].balance - base_fee_per_gas
             n == moved[Sender].nonce + 1
             c == IF evs = <<>> THEN moved[Sender].code ELSE evs[1].code
             sender == [moved[Sender] EXCEPT !.balance = b, !.nonce = n, !.code = c]
  <1>9. ASSUME NEW a \in Addresses
        PROVE  started[a] = IF a = Sender THEN sender ELSE moved[a]
    <2> HIDE DEF moved
    <2> QED
      BY <1>2, <1>8
  <1>10. sender.balance = b /\ sender.nonce = n
    <2> HIDE DEF moved, b, n, c
    <2> QED
      BY <1>8 DEF AnAccount
  <1>11. Fits(open', started)
    <2>1. ASSUME NEW a \in Addresses, a \notin {Sender, Contract, fee_recipient}
          PROVE  started[a] = world[a]
      <3> HIDE DEF moved, started
      <3> QED
        BY <1>7, <1>9, <2>1
    <2>2. ASSUME NEW a \in Addresses PROVE started[a].nonce >= world[a].nonce
      <3>1. world[a].nonce \in Nat
        BY <1>1 DEF World, AnAccount
      <3>2. started[a].nonce = IF a = Sender THEN world[a].nonce + 1 ELSE world[a].nonce
        <4> HIDE DEF moved, started, sender
        <4> QED
          BY <1>7, <1>9, <1>10
      <3> HIDE DEF moved, started
      <3> QED
        BY <3>1, <3>2
    <2>3. /\ open'.before = world /\ open'.touched = {Sender, Contract, fee_recipient}
          /\ open'.created = {} /\ fee_recipient' = fee_recipient
      BY <1>3 DEF fee_recipient
    <2> HIDE DEF started
    <2> QED
      BY <2>1, <2>2, <2>3 DEF Fits
  <1>12. Charged(world, started)
    <2>1. world[Sender].balance >= 2
      BY <1>3 DEF effective_gas_price
    <2>2. ASSUME NEW a \in Addresses
          PROVE  started[a].balance = world[a].balance - (IF a = Sender THEN 2 ELSE 0)
                                        + (IF a = fee_recipient THEN 1 ELSE 0)
      <3>1. world[a].balance \in Nat
        BY <1>1 DEF World, AnAccount
      <3>2. started[a].balance = IF a = Sender THEN moved[a].balance - 1 ELSE moved[a].balance
        <4> HIDE DEF moved, started, sender
        <4> QED
          BY <1>9, <1>10 DEF base_fee_per_gas
      <3> HIDE DEF started
      <3>3. moved[a].balance = world[a].balance - (IF a = Sender THEN 1 ELSE 0)
                                                + (IF a = fee_recipient THEN 1 ELSE 0)
        BY <1>7
      <3> HIDE DEF moved
      <3> QED
        BY <3>1, <3>2, <3>3
    <2> HIDE DEF started
    <2> QED
      BY <2>1, <2>2 DEF Charged
  <1> HIDE DEF started
  <1>13. /\ open'.before = world /\ open'.started = started /\ fee_recipient' = fee_recipient
         /\ left_by(Len(txs))' = left_by(Len(txs))
    BY <1>3 DEF fee_recipient, left_by
  <1>14. InProgress'
    BY <1>3, <1>5, <1>11, <1>12, <1>13 DEF InProgress, Fits, Charged
  <1>15. SettledInv'
    BY <1>1, <1>3 DEF SettledInv, Fits, Charged, left_by, fee_recipient
  <1>16. open' # Closed
    <2>1. "started" \in DOMAIN open' /\ "started" \notin DOMAIN Closed
      BY <1>3 DEF Closed
    <2> QED
      BY <2>1
  <1> QED
    BY <1>1, <1>3, <1>14, <1>15, <1>16 DEF ChainInv

\* A step that records an operation keeps the transaction in its bounds.
LEMMA ChainGrows ==
  ASSUME BlockInv, ChainInv, open # Closed,
         NEW w, NEW touched \in SUBSET Addresses, NEW slots \in SUBSET Slots,
         NEW created \in SUBSET {"new"}, NEW reverts \in BOOLEAN, NEW e,
         \A a \in Addresses : /\ a \notin touched \cup {Contract} => w[a] = world[a]
                              /\ w[a].nonce \in Nat /\ w[a].nonce >= world[a].nonce,
         world' = IF reverts THEN world ELSE w,
         open' = recorded(touched, slots, created, reverts, e),
         UNCHANGED <<scenario, parent, txs, withdrawals>>
  PROVE  ChainInv'
  <1>1. /\ open \in Opened /\ world \in World /\ open.before \in World
    BY DEF BlockInv, WorldInv, OpenInv, Opened
  <1>2. /\ open'.before = open.before /\ open'.started = open.started
        /\ open'.touched = open.touched \cup touched
        /\ open'.created = open.created \cup created
        /\ "started" \in DOMAIN open'
    BY <1>1 DEF recorded, Opened
  <1>3. /\ parent \in World /\ withdrawals \in Seq({"new"}) /\ SettledInv
        /\ open.before = left_by(Len(txs)) /\ withdrawals = <<>>
        /\ Fits(open, world) /\ Fits(open, open.started)
        /\ Charged(open.before, open.started)
    BY DEF ChainInv, InProgress
  <1>4. fee_recipient' = fee_recipient
    BY DEF fee_recipient
  <1>5. ASSUME NEW a \in Addresses
        PROVE  /\ a \notin open.touched \cup touched => world'[a] = open.before[a]
               /\ world'[a].nonce >= open.before[a].nonce
    <2>1. /\ world[a].nonce >= open.before[a].nonce
          /\ a \notin open.touched => world[a] = open.before[a]
          /\ Contract \in open.touched
      BY <1>3 DEF Fits
    <2>2. CASE reverts
      BY <2>1, <2>2
    <2>3. CASE ~reverts
      <3>1. world[a].nonce \in Nat /\ open.before[a].nonce \in Nat
        BY <1>1 DEF World, AnAccount
      <3>2. w[a].nonce >= open.before[a].nonce
        <4>1. w[a].nonce \in Nat /\ w[a].nonce >= world[a].nonce
          OBVIOUS
        <4> QED
          BY <2>1, <3>1, <4>1
      <3> QED
        BY <2>1, <2>3, <3>2
    <2> QED
      BY <2>2, <2>3
  <1>6. InProgress'
    <2>1. /\ {Sender, Contract, fee_recipient} \subseteq open'.touched
          /\ open'.created \subseteq {"new"}
      BY <1>2, <1>3 DEF Fits
    <2>2. Fits(open, world)'
      BY <1>2, <1>4, <1>5, <2>1 DEF Fits
    <2>3. Fits(open, open.started)'
      BY <1>2, <1>3, <1>4, <2>1 DEF Fits
    <2>4. Charged(open.before, open.started)'
      BY <1>2, <1>3, <1>4 DEF Charged
    <2>5. (open.before = left_by(Len(txs)) /\ withdrawals = <<>>)'
      BY <1>2, <1>3 DEF left_by
    <2> QED
      BY <2>2, <2>3, <2>4, <2>5 DEF InProgress
  <1>7. SettledInv'
    BY <1>3, <1>4 DEF SettledInv, Fits, Charged, left_by
  <1>8. open' # Closed
    <2>1. "started" \notin DOMAIN Closed
      BY DEF Closed
    <2> QED
      BY <1>2, <2>1
  <1> QED
    BY <1>3, <1>6, <1>7, <1>8 DEF ChainInv

\* An operation changes the contract and an account it touches, and at most
\* raises a nonce.
LEMMA ChainOperate ==
  ASSUME BlockInv, ChainInv, NEW o \in Operations, NEW reverts \in BOOLEAN, Operate(o, reverts)
  PROVE  ChainInv'
  <1>1. /\ open # Closed /\ UNCHANGED <<scenario, parent, txs, withdrawals>>
        /\ world \in World
    BY DEF Operate, BlockInv, WorldInv
  <1>2. /\ Contract \in Addresses /\ "new" \in Addresses /\ Contract # "new"
        /\ world[Contract].balance \in Nat
    BY <1>1 DEF Addresses, Contract, World, AnAccount
  <1>3. \A a \in Addresses : world[a].nonce \in Nat
    BY <1>1 DEF World, AnAccount
  <1>4. ASSUME NEW to \in Addresses, NEW value \in Nat, NEW e,
               world' = IF reverts THEN world ELSE move(world, Contract, to, value),
               open' = recorded({to}, {}, {}, reverts, e)
        PROVE  ChainInv'
    <2> DEFINE w == move(world, Contract, to, value)
    <2>1. ASSUME NEW a \in Addresses
          PROVE  /\ a \notin {to} \cup {Contract} => w[a] = world[a]
                 /\ w[a].nonce \in Nat /\ w[a].nonce >= world[a].nonce
      <3>1. w[a].nonce = world[a].nonce /\ (a \notin {Contract, to} => w[a] = world[a])
        BY <1>1, <1>2, MovedFields
      <3> HIDE DEF w
      <3> QED
        BY <1>3, <3>1
    <2>2. world' = IF reverts THEN world ELSE w
      BY <1>4
    <2> HIDE DEF w
    <2> QED
      BY <1>1, <1>4, <2>1, <2>2, ChainGrows
  <1>5. CASE /\ o.op = "CALL" /\ world[Contract].balance >= o.value
             /\ world' = IF reverts THEN world ELSE move(world, Contract, o.to, o.value)
             /\ open' = recorded({o.to}, {}, {}, reverts,
                                 event("CALL", o.to \notin open.touched, o.value, o.to))
    <2>1. o.to \in Addresses /\ o.value \in Nat
      BY <1>5 DEF Operations
    <2> QED
      BY <1>4, <1>5, <2>1
  <1>6. CASE /\ o.op = "SLOAD"
             /\ world' = IF reverts THEN world ELSE world
             /\ open' = recorded({}, {o.slot}, {}, reverts,
                                 event("SLOAD", o.slot \notin open.slots, 0, Contract))
    <2> DEFINE e == event("SLOAD", o.slot \notin open.slots, 0, Contract)
    <2>1. {o.slot} \in SUBSET Slots
      BY <1>6 DEF Operations
    <2>2. open' = recorded({}, {o.slot}, {}, reverts, e)
      BY <1>6
    <2>3. \A a \in Addresses : world[a].nonce \in Nat /\ world[a].nonce >= world[a].nonce
      BY <1>3
    <2> HIDE DEF e
    <2> QED
      BY <1>1, <1>6, <2>1, <2>2, <2>3, ChainGrows
  <1>7. CASE /\ o.op = "SSTORE"
             /\ world' = IF reverts THEN world
                         ELSE [world EXCEPT ![Contract].storage[o.slot] = o.value]
             /\ open' = recorded({}, {o.slot}, {}, reverts,
                                 store_event(o.slot, o.value, o.slot \notin open.slots, reverts))
    <2> DEFINE e == store_event(o.slot, o.value, o.slot \notin open.slots, reverts)
               w == [world EXCEPT ![Contract].storage[o.slot] = o.value]
    <2>1. {o.slot} \in SUBSET Slots
      BY <1>7 DEF Operations
    <2>2. open' = recorded({}, {o.slot}, {}, reverts, e) /\ world' = IF reverts THEN world ELSE w
      BY <1>7
    <2>3. ASSUME NEW a \in Addresses
          PROVE  /\ a # Contract => w[a] = world[a]
                 /\ w[a].nonce \in Nat /\ w[a].nonce >= world[a].nonce
      <3>1. a # Contract => w[a] = world[a]
        BY <1>1 DEF World
      <3>2. w[Contract].nonce = world[Contract].nonce
        BY <1>1, <1>2 DEF World, AnAccount
      <3> HIDE DEF w
      <3> QED
        BY <1>2, <1>3, <3>1, <3>2
    <2> HIDE DEF e, w
    <2> QED
      BY <1>1, <2>1, <2>2, <2>3, ChainGrows
  <1>8. CASE /\ o.op = "CREATE"
             /\ world["new"].nonce = 0 /\ world[Contract].balance >= o.value
             /\ world' = IF reverts THEN world
                         ELSE [move(world, Contract, "new", o.value) EXCEPT
                                 ![Contract].nonce = @ + 1,
                                 !["new"].nonce = 1, !["new"].code = "contract"]
             /\ open' = recorded({"new"}, {}, {"new"}, reverts,
                                 event("CREATE", FALSE, o.value, "new"))
    <2>1. o.value \in Nat
      BY <1>8 DEF Operations
    <2> DEFINE moved == move(world, Contract, "new", o.value)
               w == [moved EXCEPT ![Contract].nonce = @ + 1,
                                  !["new"].nonce = 1, !["new"].code = "contract"]
               e == event("CREATE", FALSE, o.value, "new")
    <2>2. moved \in World
      BY <1>1, <1>2, <1>8, <2>1, Moved
    <2>3. ASSUME NEW a \in Addresses
          PROVE  /\ moved[a].nonce = world[a].nonce
                 /\ a \notin {Contract, "new"} => moved[a] = world[a]
      BY <1>1, <1>2, <2>1, MovedFields
    <2>4. /\ world' = IF reverts THEN world ELSE w
          /\ open' = recorded({"new"}, {}, {"new"}, reverts, e)
      BY <1>8
    <2> HIDE DEF moved, e
    <2>5. ASSUME NEW a \in Addresses
          PROVE  /\ a \notin {"new"} \cup {Contract} => w[a] = world[a]
                 /\ w[a].nonce \in Nat /\ w[a].nonce >= world[a].nonce
      <3>1. a \notin {"new", Contract} => w[a] = moved[a]
        BY <2>2 DEF World
      <3>2. w[Contract].nonce = moved[Contract].nonce + 1
        <4>1. moved[Contract] \in AnAccount
          BY <1>2, <2>2 DEF World
        <4> DEFINE c == [moved[Contract] EXCEPT !.nonce = @ + 1]
        <4>2. w[Contract] = c
          BY <1>2, <2>2 DEF World
        <4>3. c.nonce = moved[Contract].nonce + 1
          BY <4>1 DEF AnAccount
        <4> HIDE DEF w, c
        <4> QED
          BY <4>2, <4>3
      <3>3. w["new"].nonce = 1
        <4>1. moved["new"] \in AnAccount
          BY <1>2, <2>2 DEF World
        <4> DEFINE c == [moved["new"] EXCEPT !.nonce = 1, !.code = "contract"]
        <4>2. w["new"] = c
          BY <1>2, <2>2, <4>1 DEF World, AnAccount
        <4>3. c.nonce = 1
          BY <4>1 DEF AnAccount
        <4> HIDE DEF w, c
        <4> QED
          BY <4>2, <4>3
      <3> HIDE DEF w
      <3> QED
        BY <1>2, <1>3, <1>8, <2>3, <3>1, <3>2, <3>3
    <2> HIDE DEF w
    <2> QED
      BY <1>1, <1>2, <2>4, <2>5, ChainGrows
  <1>9. CASE /\ o.op = "SELFDESTRUCT"
             /\ world' = IF reverts THEN world
                         ELSE move(world, Contract, o.to, world[Contract].balance)
             /\ open' = recorded({o.to}, {}, {}, reverts,
                                 event("SELFDESTRUCT", o.to \notin open.touched,
                                       world[Contract].balance, o.to))
    <2>1. o.to \in Addresses
      BY <1>9 DEF Operations
    <2> QED
      BY <1>2, <1>4, <1>9, <2>1
  <1> QED
    BY <1>5, <1>6, <1>7, <1>8, <1>9 DEF Operate, recorded

\* A failing transaction leaves the world with its fee paid.
LEMMA ChainClose ==
  ASSUME BlockInv, ChainInv, NEW fails \in BOOLEAN, Close(fails)
  PROVE  ChainInv'
  <1>1. /\ open \in Opened /\ world \in World /\ txs \in Seq(ExecutedTransactions)
        /\ parent \in World /\ withdrawals \in Seq({"new"}) /\ SettledInv
        /\ open.before = left_by(Len(txs)) /\ withdrawals = <<>>
        /\ Fits(open, world) /\ Fits(open, open.started)
        /\ Charged(open.before, open.started)
    BY DEF Close, BlockInv, WorldInv, OpenInv, ChainInv, InProgress
  <1>2. /\ world' = IF fails THEN open.started ELSE world
        /\ open' = Closed /\ UNCHANGED <<scenario, parent, withdrawals>>
    BY DEF Close
  <1>3. fee_recipient' = fee_recipient
    BY <1>2 DEF fee_recipient
  <1> DEFINE tx == [before |-> open.before, after |-> world', touched |-> open.touched,
                    slots |-> open.slots, created |-> open.created,
                    reverts |-> open.reverts, events |-> open.events, failed |-> fails]
  <1>4. txs' = Append(txs, tx)
    BY DEF Close
  <1>5. /\ tx.before = open.before /\ tx.after = world' /\ tx.touched = open.touched
        /\ tx.created = open.created /\ tx.failed = fails
    OBVIOUS
  <1> HIDE DEF tx
  <1>6. PICK n \in Nat : n = Len(txs)
    BY <1>1
  <1>7. /\ Len(txs') = n + 1 /\ txs'[n + 1] = tx
        /\ \A i \in 1..n : txs'[i] = txs[i]
    BY <1>1, <1>4, <1>6
  <1>8. /\ \A i \in 0..n : left_by(i)' = left_by(i)
        /\ left_by(n + 1)' = world'
    <2>1. ASSUME NEW i \in 0..n PROVE left_by(i)' = left_by(i)
      BY <1>2, <1>7 DEF left_by
    <2>2. left_by(n + 1)' = world'
      BY <1>5, <1>7 DEF left_by
    <2> QED
      BY <2>1, <2>2
  <1>9. SettledInv'
    <2>1. SUFFICES ASSUME NEW i \in 1..(n + 1)
                   PROVE  /\ txs'[i].before = left_by(i - 1)'
                          /\ Fits(txs[i], txs[i].after)'
                          /\ txs'[i].failed => Charged(txs[i].before, txs[i].after)'
      BY <1>7 DEF SettledInv
    <2>2. CASE i \in 1..n
      <3>1. /\ txs[i].before = left_by(i - 1) /\ Fits(txs[i], txs[i].after)
            /\ txs[i].failed => Charged(txs[i].before, txs[i].after)
        BY <1>1, <1>6, <2>2 DEF SettledInv
      <3>2. txs'[i] = txs[i] /\ left_by(i - 1)' = left_by(i - 1)
        <4>1. i - 1 \in 0..n
          BY <2>2
        <4> QED
          BY <1>7, <1>8, <2>2, <4>1
      <3> QED
        BY <1>3, <3>1, <3>2 DEF Fits, Charged
    <2>3. CASE i = n + 1
      <3>1. txs'[i] = tx /\ left_by(i - 1)' = open.before
        <4>1. i - 1 = n /\ n \in 0..n
          BY <1>7, <2>3
        <4> QED
          BY <1>1, <1>7, <1>8, <1>6, <2>3, <4>1
      <3>2. Fits(tx, tx.after)
        BY <1>1, <1>2, <1>5 DEF Fits
      <3>3. fails => Charged(tx.before, tx.after)
        BY <1>1, <1>2, <1>5
      <3> QED
        BY <1>3, <1>5, <3>1, <3>2, <3>3 DEF Fits, Charged
    <2> QED
      BY <1>7, <2>2, <2>3
  <1>10. Credited(left_by(Len(txs)), world, Len(withdrawals))'
    <2>1. world' \in World
      BY <1>1, <1>2 DEF Opened
    <2>2. Credited(world', world', 0)
      BY <2>1, CreditedNone
    <2>3. Len(withdrawals') = 0 /\ left_by(Len(txs))' = world'
      BY <1>1, <1>2, <1>7, <1>8
    <2> QED
      BY <2>2, <2>3 DEF Credited
  <1>11. InProgress'
    BY <1>2 DEF InProgress
  <1> QED
    BY <1>1, <1>2, <1>9, <1>10, <1>11 DEF ChainInv

\* A withdrawal credits one account, after every transaction.
LEMMA ChainWithdraw ==
  ASSUME BlockInv, ChainInv, Withdraw("new")
  PROVE  ChainInv'
  <1>1. /\ world \in World /\ txs \in Seq(ExecutedTransactions) /\ open = Closed
        /\ parent \in World /\ withdrawals \in Seq({"new"}) /\ SettledInv
        /\ Credited(left_by(Len(txs)), world, Len(withdrawals))
    BY DEF Withdraw, BlockInv, WorldInv, ChainInv
  <1>2. /\ world' = [world EXCEPT !["new"].balance = @ + 1]
        /\ withdrawals' = Append(withdrawals, "new")
        /\ UNCHANGED <<scenario, parent, txs, open>>
    BY DEF Withdraw
  <1>3. /\ withdrawals' \in Seq({"new"}) /\ Len(withdrawals') = Len(withdrawals) + 1
        /\ Len(withdrawals) \in Nat
    BY <1>1, <1>2
  <1> DEFINE v == left_by(Len(txs))
             m == Len(withdrawals)
  <1>4. left_by(Len(txs))' = v /\ fee_recipient' = fee_recipient
    BY <1>2 DEF left_by, fee_recipient
  <1>5. SettledInv'
    BY <1>1, <1>2, <1>4 DEF SettledInv, Fits, Charged, left_by
  <1>6. v \in World
    <2>1. CASE Len(txs) = 0
      BY <1>1, <2>1 DEF left_by
    <2>2. CASE Len(txs) # 0
      <3>1. Len(txs) \in 1..Len(txs)
        BY <1>1, <2>2
      <3>2. txs[Len(txs)] \in Executions
        BY <1>1, <3>1 DEF ExecutedTransactions
      <3> QED
        BY <2>2, <3>2 DEF left_by, Executions
    <2> QED
      BY <2>1, <2>2
  <1>7. Credited(v, world', m + 1)
    <2>1. SUFFICES ASSUME NEW a \in Addresses
                   PROVE  world'[a] = [v[a] EXCEPT !.balance =
                                         @ + (IF a = "new" THEN m + 1 ELSE 0)]
      BY DEF Credited
    <2>2. world[a] = [v[a] EXCEPT !.balance = @ + (IF a = "new" THEN m ELSE 0)]
      BY <1>1 DEF Credited
    <2>3. CASE a # "new"
      <3>1. world'[a] = world[a]
        BY <1>1, <1>2, <2>3 DEF World
      <3> HIDE DEF v, m
      <3> QED
        BY <2>2, <2>3, <3>1
    <2>4. CASE a = "new"
      <3>1. world'[a] = [world[a] EXCEPT !.balance = @ + 1]
        BY <1>1, <1>2, <2>4 DEF World
      <3>2. v[a] \in AnAccount /\ v[a].balance \in Nat /\ m \in Nat
        BY <1>3, <1>6 DEF World, AnAccount
      <3> HIDE DEF v, m
      <3> DEFINE b == v[a].balance
      <3>3. world[a] = [v[a] EXCEPT !.balance = b + m] /\ (b + m) + 1 = b + (m + 1)
        BY <2>2, <2>4, <3>2
      <3> HIDE DEF b
      <3>4. world[a].balance = b + m
        BY <3>2, <3>3 DEF AnAccount
      <3>5. world'[a] = [world[a] EXCEPT !.balance = (b + m) + 1]
        BY <3>1, <3>4
      <3>6. world'[a] = [v[a] EXCEPT !.balance = (b + m) + 1]
        BY <3>2, <3>3, <3>5 DEF AnAccount
      <3> QED
        BY <2>4, <3>3, <3>6 DEF b
    <2> QED
      BY <2>3, <2>4
  <1>8. InProgress'
    BY <1>1, <1>2 DEF InProgress
  <1> HIDE DEF v, m
  <1>9. Credited(left_by(Len(txs)), world, Len(withdrawals))'
    BY <1>3, <1>4, <1>7 DEF Credited, m
  <1> QED
    BY <1>1, <1>2, <1>3, <1>5, <1>8, <1>9 DEF ChainInv

\* The transactions of a block follow each other, the withdrawals come after
\* them, no transaction changes an account it did not touch, and one that
\* fails moves nothing but its fee.
THEOREM ChainInvariant == Spec => []ChainInv
  <1>1. ASSUME BlockInv, ChainInv, [Next]_vars PROVE ChainInv'
    <2>1. CASE Begin(<<>>)
      BY <1>1, <2>1, ChainBegin
    <2>2. ASSUME NEW o \in scenario.repertoire, o.op = "AUTHORIZE", Begin(<<o>>)
          PROVE  ChainInv'
      <3>1. o \in Operations
        BY <1>1, ScenarioAssumption DEF BlockInv, WorldInv
      <3>2. o \in Authorization
        BY <2>2, <3>1 DEF Operations, Authorization
      <3>3. \E a \in Authorization : <<o>> = <<a>>
        BY <3>2
      <3> QED
        BY <1>1, <2>2, <3>3, ChainBegin
    <2>3. ASSUME NEW o \in scenario.repertoire, NEW reverts \in BOOLEAN, Operate(o, reverts)
          PROVE  ChainInv'
      <3>1. o \in Operations
        BY <1>1, ScenarioAssumption DEF BlockInv, WorldInv
      <3> QED
        BY <1>1, <2>3, <3>1, ChainOperate
    <2>4. ASSUME NEW fails \in BOOLEAN, Close(fails) PROVE ChainInv'
      BY <1>1, <2>4, ChainClose
    <2>5. CASE Withdraw("new")
      BY <1>1, <2>5, ChainWithdraw
    <2>6. CASE UNCHANGED vars
      BY <1>1, <2>6 DEF vars, ChainInv, SettledInv, InProgress, Fits, Charged, Credited,
                        left_by, fee_recipient
    <2> QED
      BY <1>1, <2>1, <2>2, <2>3, <2>4, <2>5, <2>6 DEF Next
  <1> QED
    BY <1>1, ChainInit, BlockInvariant, PTL DEF Spec

-----------------------------------------------------------------------------
(* What the traces tell of a transaction, and the entries made of it.      *)

\* A transaction of the block.
Settled(tx) ==
  /\ tx \in ExecutedTransactions /\ Fits(tx, tx.after)
  /\ tx.failed => Charged(tx.before, tx.after)

\* What a transaction's traces have of an account: it is in the post-state if
\* the transaction changed it, and in the pre-state as well if it was there.
LEMMA TracedAccount ==
  ASSUME NEW tx, Settled(tx), NEW a \in Addresses
  PROVE  /\ tx.before[a] \in AnAccount /\ tx.after[a] \in AnAccount
         /\ a \in DOMAIN diff_post(tx) <=> tx.before[a] # tx.after[a]
         /\ a \in DOMAIN diff_pre(tx) <=> tx.before[a] # tx.after[a] /\ a \notin blank_created(tx)
         /\ a \in DOMAIN full_trace(tx) <=> a \in tx.touched /\ a \notin blank_created(tx)
         /\ a \in blank_created(tx) => /\ tx.before[a].balance = 0 /\ tx.before[a].nonce = 0
                                       /\ tx.before[a].code = ""
                                       /\ tx.before[a].storage = tx.after[a].storage
         /\ tx.failed \/ a # Contract => tx.before[a].storage = tx.after[a].storage
  <1>1. tx \in Executions /\ Fits(tx, tx.after)
    BY DEF Settled, ExecutedTransactions
  <1>2. tx.before[a] \in AnAccount /\ tx.after[a] \in AnAccount
    BY <1>1 DEF Executions, World
  <1>3. tx.before[a] # tx.after[a] => a \in tx.touched
    BY <1>1 DEF Fits
  <1>4. a \in modified(tx) <=> tx.before[a] # tx.after[a]
    BY <1>3 DEF modified
  <1>5. tx.failed \/ a # Contract => tx.before[a].storage = tx.after[a].storage
    <2>1. CASE tx.failed
      BY <2>1 DEF Settled, ExecutedTransactions, SameStorage
    <2>2. CASE ~tx.failed
      <3>1. Accounted(tx, tx.after)
        BY <2>2 DEF Settled, ExecutedTransactions
      <3>2. SameStorage(tx.before, tx.after, Addresses \ {Contract})
        BY <3>1 DEF Accounted
      <3> QED
        BY <2>2, <3>2 DEF SameStorage
    <2> QED
      BY <2>1, <2>2
  <1>6. ASSUME a \in blank_created(tx)
        PROVE  /\ tx.before[a].balance = 0 /\ tx.before[a].nonce = 0 /\ tx.before[a].code = ""
               /\ a # Contract
    <2>1. a \in tx.created /\ ~exists(tx.before[a])
      BY <1>6 DEF blank_created
    <2>2. tx.before[a].balance \in Nat /\ tx.before[a].nonce \in Nat
      BY <1>2 DEF AnAccount
    <2>3. a = "new"
      BY <1>1, <2>1 DEF Fits
    <2>4. ~(tx.before[a].balance > 0) /\ ~(tx.before[a].nonce > 0) /\ tx.before[a].code = ""
      BY <2>1 DEF exists
    <2> QED
      <3>1. \A x \in Nat : ~(x > 0) => x = 0
        OBVIOUS
      <3>2. tx.before[a].balance = 0 /\ tx.before[a].nonce = 0
        BY <2>2, <2>4, <3>1
      <3> QED
        BY <2>3, <2>4, <3>2 DEF Contract
  <1>7. /\ DOMAIN diff_post(tx) = modified(tx)
        /\ DOMAIN diff_pre(tx) = modified(tx) \ blank_created(tx)
        /\ DOMAIN full_trace(tx) = tx.touched \ blank_created(tx)
    BY DEF diff_post, diff_pre, full_trace
  <1> QED
    BY <1>2, <1>4, <1>5, <1>6, <1>7

\* The fields of an account in the traces of a transaction.
LEMMA TracedFields ==
  ASSUME NEW tx, Settled(tx), NEW a \in Addresses
  PROVE  /\ field(diff_pre(tx), a, "balance", 0) =
              IF tx.before[a] # tx.after[a] THEN tx.before[a].balance ELSE 0
         /\ field(diff_pre(tx), a, "nonce", 0) =
              IF tx.before[a] # tx.after[a] THEN tx.before[a].nonce ELSE 0
         /\ field(diff_pre(tx), a, "code", "") =
              IF tx.before[a] # tx.after[a] THEN tx.before[a].code ELSE ""
         /\ field(diff_post(tx), a, "balance", Missing) =
              IF tx.before[a].balance # tx.after[a].balance THEN tx.after[a].balance ELSE Missing
         /\ field(diff_post(tx), a, "nonce", 0) =
              IF tx.before[a].nonce # tx.after[a].nonce THEN tx.after[a].nonce ELSE 0
         /\ field(diff_post(tx), a, "code", "") =
              IF tx.before[a].code # tx.after[a].code THEN tx.after[a].code ELSE ""
         /\ a \in DOMAIN full_trace(tx) => full_trace(tx)[a].balance = tx.before[a].balance
  <1>1. /\ tx.before[a] \in AnAccount /\ tx.after[a] \in AnAccount
        /\ a \in DOMAIN diff_post(tx) <=> tx.before[a] # tx.after[a]
        /\ a \in DOMAIN diff_pre(tx) <=> tx.before[a] # tx.after[a] /\ a \notin blank_created(tx)
        /\ a \in blank_created(tx) => /\ tx.before[a].balance = 0 /\ tx.before[a].nonce = 0
                                      /\ tx.before[a].code = ""
    BY TracedAccount
  <1>2. ASSUME a \in DOMAIN diff_pre(tx)
        PROVE  /\ diff_pre(tx)[a].balance = tx.before[a].balance
               /\ diff_pre(tx)[a].nonce = tx.before[a].nonce
               /\ diff_pre(tx)[a].code = tx.before[a].code
    BY <1>2 DEF diff_pre, traced
  <1>3. ASSUME a \in DOMAIN diff_post(tx)
        PROVE  /\ diff_post(tx)[a].balance =
                    IF tx.after[a].balance # tx.before[a].balance
                    THEN tx.after[a].balance ELSE Missing
               /\ diff_post(tx)[a].nonce =
                    IF tx.after[a].nonce # tx.before[a].nonce THEN tx.after[a].nonce ELSE 0
               /\ diff_post(tx)[a].code =
                    IF tx.after[a].code # tx.before[a].code THEN tx.after[a].code ELSE ""
    BY <1>3 DEF diff_post
  <1>4. ASSUME a \in DOMAIN full_trace(tx)
        PROVE  full_trace(tx)[a].balance = tx.before[a].balance
    BY <1>4 DEF full_trace, traced
  <1>5. /\ field(diff_pre(tx), a, "balance", 0) =
             IF a \in DOMAIN diff_pre(tx) THEN diff_pre(tx)[a].balance ELSE 0
        /\ field(diff_pre(tx), a, "nonce", 0) =
             IF a \in DOMAIN diff_pre(tx) THEN diff_pre(tx)[a].nonce ELSE 0
        /\ field(diff_pre(tx), a, "code", "") =
             IF a \in DOMAIN diff_pre(tx) THEN diff_pre(tx)[a].code ELSE ""
        /\ field(diff_post(tx), a, "balance", Missing) =
             IF a \in DOMAIN diff_post(tx) THEN diff_post(tx)[a].balance ELSE Missing
        /\ field(diff_post(tx), a, "nonce", 0) =
             IF a \in DOMAIN diff_post(tx) THEN diff_post(tx)[a].nonce ELSE 0
        /\ field(diff_post(tx), a, "code", "") =
             IF a \in DOMAIN diff_post(tx) THEN diff_post(tx)[a].code ELSE ""
    BY DEF field
  <1>6. CASE tx.before[a] = tx.after[a]
    BY <1>1, <1>4, <1>5, <1>6
  <1>7. CASE tx.before[a] # tx.after[a] /\ a \in blank_created(tx)
    BY <1>1, <1>3, <1>4, <1>5, <1>7
  <1>8. CASE tx.before[a] # tx.after[a] /\ a \notin blank_created(tx)
    BY <1>1, <1>2, <1>3, <1>4, <1>5, <1>8
  <1> QED
    BY <1>6, <1>7, <1>8

\* The slots of an account in the traces of a transaction.
LEMMA TracedSlots ==
  ASSUME NEW tx, Settled(tx), NEW a \in Addresses, NEW s \in Slots,
         NEW b, b = tx.before[a].storage[s], NEW n, n = tx.after[a].storage[s]
  PROVE  /\ b \in Nat /\ n \in Nat
         /\ get(field(diff_pre(tx), a, "storage", <<>>), s, Missing) =
              IF b # n /\ b # 0 THEN b ELSE Missing
         /\ get(field(diff_post(tx), a, "storage", <<>>), s, Missing) =
              IF b # n /\ n # 0 THEN n ELSE Missing
  <1>1. /\ tx.before[a] \in AnAccount /\ tx.after[a] \in AnAccount
        /\ a \in DOMAIN diff_post(tx) <=> tx.before[a] # tx.after[a]
        /\ a \in DOMAIN diff_pre(tx) <=> tx.before[a] # tx.after[a] /\ a \notin blank_created(tx)
        /\ a \in blank_created(tx) => tx.before[a].storage = tx.after[a].storage
    BY TracedAccount
  <1>2. b \in Nat /\ n \in Nat
    BY <1>1 DEF AnAccount, Storage
  <1>3. s \in changed_slots(tx, a) <=> b # n
    BY DEF changed_slots
  <1>4. ASSUME a \in DOMAIN diff_pre(tx)
        PROVE  get(diff_pre(tx)[a].storage, s, Missing) = IF b # n /\ b # 0 THEN b ELSE Missing
    <2> DEFINE held == {x \in changed_slots(tx, a) : tx.before[a].storage[x] # 0}
    <2>1. diff_pre(tx)[a].storage = [x \in held |-> tx.before[a].storage[x]]
      BY <1>4 DEF diff_pre, traced
    <2>2. s \in held <=> b # n /\ b # 0
      BY <1>3
    <2> HIDE DEF held
    <2> QED
      BY <2>1, <2>2 DEF get
  <1>5. ASSUME a \in DOMAIN diff_post(tx)
        PROVE  get(diff_post(tx)[a].storage, s, Missing) = IF b # n /\ n # 0 THEN n ELSE Missing
    <2> DEFINE has == {x \in changed_slots(tx, a) : tx.after[a].storage[x] # 0}
    <2>1. diff_post(tx)[a].storage = [x \in has |-> tx.after[a].storage[x]]
      BY <1>5 DEF diff_post
    <2>2. s \in has <=> b # n /\ n # 0
      BY <1>3
    <2> HIDE DEF has
    <2> QED
      BY <2>1, <2>2 DEF get
  <1>6. get(<<>>, s, Missing) = Missing
    BY DEF get
  <1>7. /\ field(diff_pre(tx), a, "storage", <<>>) =
             IF a \in DOMAIN diff_pre(tx) THEN diff_pre(tx)[a].storage ELSE <<>>
        /\ field(diff_post(tx), a, "storage", <<>>) =
             IF a \in DOMAIN diff_post(tx) THEN diff_post(tx)[a].storage ELSE <<>>
    BY DEF field
  <1>8. /\ tx.before[a] = tx.after[a] => b = n
        /\ a \in blank_created(tx) => b = n
    BY <1>1
  <1>9. CASE tx.before[a] = tx.after[a]
    BY <1>1, <1>2, <1>6, <1>7, <1>8, <1>9
  <1>10. CASE tx.before[a] # tx.after[a] /\ a \in blank_created(tx)
    BY <1>1, <1>2, <1>5, <1>6, <1>7, <1>8, <1>10
  <1>11. CASE tx.before[a] # tx.after[a] /\ a \notin blank_created(tx)
    BY <1>1, <1>2, <1>4, <1>5, <1>7, <1>11
  <1> QED
    BY <1>9, <1>10, <1>11

\* A transaction's own entries of one kind of change.
Own(own, i, V) == own \in Changes(V) /\ \A j \in DOMAIN own : own[j].index = i

\* No entries tell of no change.
LEMMA OwnNone ==
  ASSUME NEW V, NEW i, NEW v
  PROVE  Own(<<>>, i, V) /\ Len(<<>>) <= 1 /\ Tell(<<>>, v, v)
  BY DEF Own, Changes, Tell

\* One entry tells of a change to its value.
LEMMA OwnOne ==
  ASSUME NEW V, NEW i \in Nat, NEW v \in V, NEW before
  PROVE  LET own == <<[index |-> i, value |-> v]>>
         IN  /\ Own(own, i, V) /\ Len(own) <= 1 /\ own # <<>> /\ Tell(own, before, v)
             /\ DOMAIN own = {1} /\ own[1].value = v
  <1> DEFINE e == [index |-> i, value |-> v]
             E == [index: Nat, value: V]
             own == <<e>>
  <1>1. e \in E /\ e.index = i /\ e.value = v
    OBVIOUS
  <1>2. Changes(V) = Seq(E)
    BY DEF Changes
  <1> HIDE DEF e, E
  <1>3. own \in Seq(E) /\ Len(own) = 1 /\ DOMAIN own = {1} /\ own[1] = e /\ own # <<>>
    BY <1>1
  <1> HIDE DEF own
  <1>4. Own(own, i, V) /\ Len(own) <= 1 /\ own # <<>> /\ Tell(own, before, v)
    BY <1>1, <1>2, <1>3 DEF Own, Tell
  <1> QED
    BY <1>1, <1>3, <1>4 DEF own, e

\* The entries of a transaction, as they are added.
own_storage(i, a, slot) ==
  LET pre == get(field(diff_pre(txs[i]), a, "storage", <<>>), slot, Missing)
      post == get(field(diff_post(txs[i]), a, "storage", <<>>), slot, Missing)
      value == IF post = Missing THEN 0 ELSE post
  IN  IF i \in reverted_tx_indices \/ pre = post THEN <<>>
      ELSE <<[index |-> block_access_index_for_tx(i), value |-> value]>>

own_balance(i, a) ==
  IF i \in reverted_tx_indices
  THEN reverted_balance_changes(i, a, TRUE)
  ELSE IF balance_delta(i, a, TRUE) = 0 THEN <<>>
  ELSE <<[index |-> block_access_index_for_tx(i),
          value |-> field(diff_post(txs[i]), a, "balance", Missing)]>>

own_code(i, a) ==
  LET pre == field(diff_pre(txs[i]), a, "code", "")
      post == field(diff_post(txs[i]), a, "code", "")
  IN  IF i \in reverted_tx_indices \/ post \in {"", pre} THEN <<>>
      ELSE <<[index |-> block_access_index_for_tx(i), value |-> post]>>

own_nonce(i, a) ==
  LET pre == field(diff_pre(txs[i]), a, "nonce", 0)
      post == field(diff_post(txs[i]), a, "nonce", 0)
  IN  IF post <= pre THEN <<>>
      ELSE <<[index |-> block_access_index_for_tx(i), value |-> post]>>

\* The changes of an account are these entries, joined.
LEMMA EntriesOf ==
  ASSUME NEW a
  PROVE  /\ \A s : storage_changes(a, s) = entries([i \in Transactions |-> own_storage(i, a, s)])
         /\ tx_balance_changes(a, TRUE) = entries([i \in Transactions |-> own_balance(i, a)])
         /\ code_changes(a) = entries([i \in Transactions |-> own_code(i, a)])
         /\ nonce_changes(a) = entries([i \in Transactions |-> own_nonce(i, a)])
  BY DEF storage_changes, tx_balance_changes, code_changes, nonce_changes,
         own_storage, own_balance, own_code, own_nonce

\* A slot that changes has an entry, unless the transaction fails.
LEMMA StorageTold ==
  ASSUME Len(txs) \in Nat, NEW i \in 1..Len(txs), i \in DOMAIN txs, Settled(txs[i]),
         NEW a \in Addresses, NEW s \in Slots
  PROVE  /\ Own(own_storage(i, a, s), i, Nat) /\ Len(own_storage(i, a, s)) <= 1
         /\ Tell(own_storage(i, a, s), txs[i].before[a].storage[s], txs[i].after[a].storage[s])
         /\ own_storage(i, a, s) # <<>> <=>
              txs[i].before[a].storage[s] # txs[i].after[a].storage[s]
  <1> DEFINE b == txs[i].before[a].storage[s]
             n == txs[i].after[a].storage[s]
             pre == get(field(diff_pre(txs[i]), a, "storage", <<>>), s, Missing)
             post == get(field(diff_post(txs[i]), a, "storage", <<>>), s, Missing)
             own == own_storage(i, a, s)
  <1>1. /\ b \in Nat /\ n \in Nat
        /\ pre = IF b # n /\ b # 0 THEN b ELSE Missing
        /\ post = IF b # n /\ n # 0 THEN n ELSE Missing
    BY TracedSlots
  <1>2. txs[i].failed => b = n
    BY TracedAccount
  <1>3. own = IF txs[i].failed \/ pre = post THEN <<>>
              ELSE <<[index |-> i, value |-> IF post = Missing THEN 0 ELSE post]>>
    BY DEF own_storage, reverted_tx_indices, Transactions, block_access_index_for_tx
  <1>4. i \in Nat
    OBVIOUS
  <1> HIDE DEF b, n, pre, post, own
  <1>5. pre = post <=> b = n
    BY <1>1 DEF Missing
  <1>6. CASE b = n
    <2>1. own = <<>>
      BY <1>3, <1>5, <1>6
    <2>2. Own(own, i, Nat) /\ Len(own) <= 1 /\ Tell(own, b, n)
      BY <1>6, <2>1, OwnNone
    <2> QED
      BY <1>6, <2>1, <2>2 DEF own, b, n
  <1>7. CASE b # n
    <2>1. own = <<[index |-> i, value |-> n]>>
      <3>1. (IF post = Missing THEN 0 ELSE post) = n
        BY <1>1, <1>7 DEF Missing
      <3> QED
        BY <1>2, <1>3, <1>5, <1>7, <3>1
    <2>2. Own(own, i, Nat) /\ Len(own) <= 1 /\ own # <<>> /\ Tell(own, b, n)
      BY <1>1, <1>4, <2>1, OwnOne
    <2> QED
      BY <1>7, <2>2 DEF own, b, n
  <1> QED
    BY <1>6, <1>7

\* A nonce that rises has an entry, failing transaction or not.
LEMMA NonceTold ==
  ASSUME Len(txs) \in Nat, NEW i \in 1..Len(txs), Settled(txs[i]), NEW a \in Addresses
  PROVE  /\ Own(own_nonce(i, a), i, Nat)
         /\ Tell(own_nonce(i, a), txs[i].before[a].nonce, txs[i].after[a].nonce)
  <1> DEFINE b == txs[i].before[a].nonce
             n == txs[i].after[a].nonce
             pre == field(diff_pre(txs[i]), a, "nonce", 0)
             post == field(diff_post(txs[i]), a, "nonce", 0)
             own == own_nonce(i, a)
  <1>1. /\ pre = (IF txs[i].before[a] # txs[i].after[a] THEN b ELSE 0)
        /\ post = IF b # n THEN n ELSE 0
    BY TracedFields
  <1>2. b \in Nat /\ n \in Nat /\ n >= b
    <2>1. txs[i].before[a] \in AnAccount /\ txs[i].after[a] \in AnAccount
      BY TracedAccount
    <2> QED
      BY <2>1 DEF AnAccount, Settled, Fits
  <1>3. own = IF post <= pre THEN <<>> ELSE <<[index |-> i, value |-> post]>>
    BY DEF own_nonce, block_access_index_for_tx
  <1>4. b # n => txs[i].before[a] # txs[i].after[a]
    OBVIOUS
  <1>5. i \in Nat
    OBVIOUS
  <1> HIDE DEF b, n, pre, post, own
  <1>6. CASE b = n
    <2>1. own = <<>>
      <3>1. post <= pre
        BY <1>1, <1>2, <1>6
      <3> QED
        BY <1>3, <3>1
    <2>2. Own(own, i, Nat) /\ Tell(own, b, n)
      BY <1>6, <2>1, OwnNone
    <2> QED
      BY <2>2 DEF own, b, n
  <1>7. CASE b # n
    <2>1. own = <<[index |-> i, value |-> n]>>
      <3>1. post = n /\ ~(post <= pre)
        BY <1>1, <1>2, <1>4, <1>7
      <3> QED
        BY <1>3, <3>1
    <2>2. Own(own, i, Nat) /\ Tell(own, b, n)
      BY <1>2, <1>5, <2>1, OwnOne
    <2> QED
      BY <2>2 DEF own, b, n
  <1> QED
    BY <1>6, <1>7

\* What an account's code may be.
Codes == {"", "contract", "delegation"}

\* Code that changes has an entry, unless the transaction fails or clears it.
LEMMA CodeTold ==
  ASSUME Len(txs) \in Nat, NEW i \in 1..Len(txs), i \in DOMAIN txs, Settled(txs[i]),
         NEW a \in Addresses
  PROVE  /\ Own(own_code(i, a), i, Codes)
         /\ \/ txs[i].before[a].code = txs[i].after[a].code
            \/ ~txs[i].failed /\ txs[i].after[a].code # ""
            => Tell(own_code(i, a), txs[i].before[a].code, txs[i].after[a].code)
  <1> DEFINE b == txs[i].before[a].code
             n == txs[i].after[a].code
             pre == field(diff_pre(txs[i]), a, "code", "")
             post == field(diff_post(txs[i]), a, "code", "")
             own == own_code(i, a)
  <1>1. /\ pre = (IF txs[i].before[a] # txs[i].after[a] THEN b ELSE "")
        /\ post = IF b # n THEN n ELSE ""
    BY TracedFields
  <1>2. b \in Codes /\ n \in Codes
    <2>1. txs[i].before[a] \in AnAccount /\ txs[i].after[a] \in AnAccount
      BY TracedAccount
    <2> QED
      BY <2>1 DEF AnAccount, Codes
  <1>3. own = IF txs[i].failed \/ post \in {"", pre} THEN <<>>
              ELSE <<[index |-> i, value |-> post]>>
    BY DEF own_code, block_access_index_for_tx, reverted_tx_indices, Transactions
  <1>4. b # n => txs[i].before[a] # txs[i].after[a]
    OBVIOUS
  <1>5. i \in Nat
    OBVIOUS
  <1> HIDE DEF b, n, pre, post, own
  <1>6. CASE txs[i].failed \/ post \in {"", pre}
    <2>1. own = <<>>
      BY <1>3, <1>6
    <2>2. Own(own, i, Codes) /\ Tell(own, b, b)
      BY <2>1, OwnNone
    <2>3. b = n \/ (~txs[i].failed /\ n # "") => b = n
      BY <1>1, <1>4, <1>6
    <2> QED
      BY <2>2, <2>3 DEF own, b, n
  <1>7. CASE ~(txs[i].failed \/ post \in {"", pre})
    <2>1. own = <<[index |-> i, value |-> n]>>
      BY <1>1, <1>3, <1>7
    <2>2. Own(own, i, Codes) /\ Tell(own, b, n)
      BY <1>2, <1>5, <2>1, OwnOne
    <2> QED
      BY <2>2 DEF own, b, n
  <1> QED
    BY <1>6, <1>7

\* A balance that changes has an entry; a failing transaction's are those of
\* its fee, two for a sender that is paid its own tip.
LEMMA BalanceTold ==
  ASSUME Len(txs) \in Nat, NEW i \in 1..Len(txs), i \in DOMAIN txs, Settled(txs[i]),
         fee_recipient \in Addresses, NEW a \in Addresses
  PROVE  /\ Own(own_balance(i, a), i, Nat)
         /\ ~(a = Sender /\ fee_recipient = Sender /\ txs[i].failed) =>
              /\ Len(own_balance(i, a)) <= 1
              /\ Tell(own_balance(i, a), txs[i].before[a].balance, txs[i].after[a].balance)
  <1> DEFINE tx == txs[i]
             b == tx.before[a].balance
             n == tx.after[a].balance
             own == own_balance(i, a)
  <1>1. /\ tx.before[a] \in AnAccount /\ tx.after[a] \in AnAccount
        /\ a \in DOMAIN diff_pre(tx) <=> tx.before[a] # tx.after[a] /\ a \notin blank_created(tx)
        /\ a \in DOMAIN full_trace(tx) <=> a \in tx.touched /\ a \notin blank_created(tx)
        /\ a \in blank_created(tx) => b = 0
        /\ b # n => a \in tx.touched
    BY TracedAccount DEF Settled, Fits
  <1>2. b \in Nat /\ n \in Nat /\ i \in Nat
    <2>1. b \in Nat /\ n \in Nat
      BY <1>1 DEF AnAccount
    <2>2. i \in Nat
      OBVIOUS
    <2> QED
      BY <2>1, <2>2
  <1> DEFINE touches == extract_balance_touches(i, TRUE)
  <1>3. touches = [x \in DOMAIN full_trace(tx) |-> full_trace(tx)[x].balance]
    BY DEF extract_balance_touches
  <1>4. ASSUME NEW x \in Addresses, x \in tx.touched PROVE get(touches, x, 0) = tx.before[x].balance
    <2>1. /\ x \in DOMAIN full_trace(tx) <=> x \in tx.touched /\ x \notin blank_created(tx)
          /\ x \in blank_created(tx) => tx.before[x].balance = 0
      BY TracedAccount
    <2>2. x \in DOMAIN full_trace(tx) => full_trace(tx)[x].balance = tx.before[x].balance
      BY TracedFields
    <2>3. get(touches, x, 0) = IF x \in DOMAIN full_trace(tx) THEN full_trace(tx)[x].balance ELSE 0
      BY <1>3 DEF get
    <2> HIDE DEF touches, tx
    <2>4. CASE x \in blank_created(tx)
      BY <2>1, <2>3, <2>4
    <2>5. CASE x \notin blank_created(tx)
      BY <1>4, <2>1, <2>2, <2>3, <2>5
    <2> QED
      BY <2>4, <2>5
  <1>5. CASE tx.failed
    <2>1. /\ Charged(tx.before, tx.after)
          /\ Sender \in tx.touched /\ fee_recipient \in tx.touched
          /\ Sender \in Addresses
      BY <1>5 DEF Settled, Fits, Addresses
    <2> DEFINE s == tx.before[Sender].balance
               r == tx.before[fee_recipient].balance
               paid == get(touches, Sender, 0) - effective_gas_price
               tip == get(touches, fee_recipient, 0) + effective_gas_price - base_fee_per_gas
               one(v) == <<[index |-> i, value |-> v]>>
               first == IF a = Sender THEN one(IF paid > 0 THEN paid ELSE 0) ELSE <<>>
               second == IF a = fee_recipient THEN one(tip) ELSE <<>>
    <2>2. own = first \o second
      <3>1. own = reverted_balance_changes(i, a, TRUE)
        BY <1>5 DEF own_balance, reverted_tx_indices, Transactions
      <3> QED
        BY <3>1 DEF reverted_balance_changes, block_access_index_for_tx
    <2>3. /\ s \in Nat /\ r \in Nat /\ s >= 2
          /\ n = b - (IF a = Sender THEN 2 ELSE 0) + (IF a = fee_recipient THEN 1 ELSE 0)
      <3>1. tx.before[Sender] \in AnAccount /\ tx.before[fee_recipient] \in AnAccount
        BY <2>1, TracedAccount
      <3> QED
        BY <2>1, <3>1 DEF AnAccount, Charged
    <2>4. (IF paid > 0 THEN paid ELSE 0) = s - 2 /\ tip = r + 1 /\ s - 2 \in Nat /\ r + 1 \in Nat
      <3>1. get(touches, Sender, 0) = s /\ get(touches, fee_recipient, 0) = r
        BY <1>4, <2>1
      <3> HIDE DEF s, r, touches
      <3> QED
        BY <2>3, <3>1 DEF effective_gas_price, base_fee_per_gas
    <2>5. /\ first = IF a = Sender THEN one(s - 2) ELSE <<>>
          /\ second = IF a = fee_recipient THEN one(r + 1) ELSE <<>>
      BY <2>4
    <2>6. /\ Own(one(s - 2), i, Nat) /\ Own(one(r + 1), i, Nat) /\ Own(<<>>, i, Nat)
          /\ Len(one(s - 2)) <= 1 /\ Len(one(r + 1)) <= 1 /\ Len(<<>>) <= 1
          /\ Tell(one(s - 2), b, s - 2) /\ Tell(one(r + 1), b, r + 1) /\ Tell(<<>>, b, b)
      BY <1>2, <2>4, OwnOne, OwnNone
    <2> HIDE DEF first, second, own, one, s, r
    <2>7. /\ first \in Changes(Nat) /\ second \in Changes(Nat)
          /\ \A x : x \in Changes(Nat) => x \o <<>> = x /\ <<>> \o x = x
      BY <2>5, <2>6 DEF Own, Changes
    <2>8. CASE a = Sender /\ fee_recipient = Sender
      <3>1. first = one(s - 2) /\ second = one(r + 1)
        BY <2>5, <2>8
      <3>2. Own(own, i, Nat)
        <4> DEFINE E == [index: Nat, value: Nat]
        <4>1. first \in Seq(E) /\ second \in Seq(E)
          BY <2>7 DEF Changes
        <4>2. \A j \in DOMAIN first : first[j].index = i
          BY <2>6, <3>1 DEF Own
        <4>3. \A j \in DOMAIN second : second[j].index = i
          BY <2>6, <3>1 DEF Own
        <4>4. Changes(Nat) = Seq(E)
          BY DEF Changes
        <4> HIDE DEF E
        <4>5. own \in Seq(E) /\ \A j \in DOMAIN own : own[j].index = i
          <5>1. /\ own \in Seq(E) /\ DOMAIN own = 1..(Len(first) + Len(second))
                /\ \A j \in 1..(Len(first) + Len(second)) :
                     own[j] = IF j <= Len(first) THEN first[j] ELSE second[j - Len(first)]
                /\ Len(first) \in Nat /\ Len(second) \in Nat
                /\ DOMAIN first = 1..Len(first) /\ DOMAIN second = 1..Len(second)
            BY <2>2, <4>1
          <5>2. ASSUME NEW j \in DOMAIN own PROVE own[j].index = i
            <6>1. CASE j <= Len(first)
              BY <4>2, <5>1, <6>1
            <6>2. CASE ~(j <= Len(first))
              <7>1. j - Len(first) \in DOMAIN second
                BY <5>1, <6>2
              <7> QED
                BY <4>3, <5>1, <6>2, <7>1
            <6> QED
              BY <6>1, <6>2
          <5> QED
            BY <5>1, <5>2
        <4> QED
          BY <4>4, <4>5 DEF Own
      <3> QED
        BY <1>5, <2>8, <3>2 DEF own
    <2>9. CASE ~(a = Sender /\ fee_recipient = Sender)
      <3>1. Own(own, i, Nat) /\ Len(own) <= 1 /\ Tell(own, b, n)
        <4>1. CASE a = Sender
          <5>1. own = one(s - 2) /\ n = s - 2
            <6>1. a = Sender /\ ~(a = Sender /\ a = fee_recipient)
              BY <2>9, <4>1
            <6>2. b = s
              BY <6>1 DEF s
            <6>3. own = one(s - 2)
              BY <2>2, <2>5, <2>7, <6>1
            <6> HIDE DEF b, n
            <6>4. n = s - 2
              BY <2>3, <6>1, <6>2
            <6> QED
              BY <6>3, <6>4
          <5> QED
            BY <2>6, <5>1
        <4>2. CASE a = fee_recipient
          <5>1. own = one(r + 1) /\ n = r + 1
            <6>1. a = fee_recipient /\ ~(a = Sender /\ a = fee_recipient)
              BY <2>9, <4>2
            <6>2. b = r
              BY <6>1 DEF r
            <6>3. own = one(r + 1)
              BY <2>2, <2>5, <2>7, <6>1
            <6> HIDE DEF b, n
            <6>4. n = r + 1
              BY <2>3, <6>1, <6>2
            <6> QED
              BY <6>3, <6>4
          <5> QED
            BY <2>6, <5>1
        <4>3. CASE a # Sender /\ a # fee_recipient
          <5>1. own = <<>> /\ n = b
            BY <1>2, <2>2, <2>3, <2>5, <2>7, <4>3
          <5> QED
            BY <2>6, <5>1
        <4> QED
          BY <4>1, <4>2, <4>3
      <3> QED
        BY <3>1 DEF own
    <2> QED
      BY <2>8, <2>9
  <1>6. CASE ~tx.failed
    <2> DEFINE pre == IF a \in DOMAIN touches /\ a \notin DOMAIN diff_pre(tx)
                      THEN touches[a] ELSE field(diff_pre(tx), a, "balance", 0)
               post == field(diff_post(tx), a, "balance", Missing)
               delta == balance_delta(i, a, TRUE)
    <2>1. own = IF delta = 0 THEN <<>> ELSE <<[index |-> i, value |-> post]>>
      BY <1>6 DEF own_balance, block_access_index_for_tx, reverted_tx_indices, Transactions
    <2>2. delta = IF post = Missing THEN 0 ELSE post - pre
      BY DEF balance_delta
    <2>3. post = (IF b # n THEN n ELSE Missing) /\ (b # n => pre = b)
      <3>1. post = (IF b # n THEN n ELSE Missing)
        BY TracedFields
      <3>2. ASSUME b # n PROVE pre = b
        <4>1. field(diff_pre(tx), a, "balance", 0) = b
          <5>1. tx.before[a] # tx.after[a]
            BY <3>2
          <5> QED
            BY <5>1, TracedFields
        <4>2. a \in DOMAIN touches => touches[a] = b
          <5>1. a \in DOMAIN full_trace(tx) => full_trace(tx)[a].balance = tx.before[a].balance
            BY TracedFields
          <5> QED
            BY <1>3, <5>1
        <4> QED
          BY <4>1, <4>2
      <3> QED
        BY <3>1, <3>2
    <2> HIDE DEF pre, post, delta, own, b, n
    <2>4. CASE b = n
      <3>1. own = <<>>
        BY <2>1, <2>2, <2>3, <2>4
      <3>2. Own(own, i, Nat) /\ Len(own) <= 1 /\ Tell(own, b, n)
        BY <2>4, <3>1, OwnNone
      <3> QED
        BY <3>2 DEF own, b, n
    <2>5. CASE b # n
      <3>1. own = <<[index |-> i, value |-> n]>>
        <4>1. post = n /\ pre = b /\ n # Missing
          BY <1>2, <2>3, <2>5 DEF Missing
        <4>2. delta # 0
          BY <1>2, <2>2, <2>5, <4>1
        <4> QED
          BY <2>1, <4>1, <4>2
      <3>2. Own(own, i, Nat) /\ Len(own) <= 1 /\ Tell(own, b, n)
        BY <1>2, <3>1, OwnOne
      <3> QED
        BY <3>2 DEF own, b, n
    <2> QED
      BY <2>4, <2>5
  <1> QED
    BY <1>5, <1>6

-----------------------------------------------------------------------------
(* The list replays.                                                       *)

\* The transactions of the block, each from the world the one before it left.
LEMMA BlockIs ==
  ASSUME BlockInv, ChainInv
  PROVE  /\ Len(txs) \in Nat /\ DOMAIN txs = 1..Len(txs) /\ Transactions = 1..Len(txs)
         /\ fee_recipient \in Addresses /\ left_by(0) = parent
         /\ \A i \in 0..Len(txs) : left_by(i) \in World
         /\ \A i \in 1..Len(txs) : /\ Settled(txs[i]) /\ txs[i].before = left_by(i - 1)
                                   /\ txs[i].after = left_by(i)
  <1>1. /\ txs \in Seq(ExecutedTransactions) /\ scenario \in Scenarios
        /\ parent \in World /\ SettledInv
    BY DEF BlockInv, WorldInv, ChainInv
  <1>2. Len(txs) \in Nat /\ DOMAIN txs = 1..Len(txs) /\ Transactions = 1..Len(txs)
    BY <1>1 DEF Transactions
  <1>3. fee_recipient \in Addresses
    BY <1>1, ScenarioAssumption DEF fee_recipient
  <1>4. ASSUME NEW i \in 1..Len(txs)
        PROVE  /\ Settled(txs[i]) /\ txs[i].before = left_by(i - 1)
               /\ txs[i].after = left_by(i) /\ left_by(i) \in World
    <2>1. txs[i] \in ExecutedTransactions
      BY <1>1
    <2>2. left_by(i) = txs[i].after
      BY DEF left_by
    <2>3. txs[i].after \in World
      BY <2>1 DEF ExecutedTransactions, Executions
    <2> QED
      BY <1>1, <2>1, <2>2, <2>3 DEF SettledInv, Settled
  <1>5. left_by(0) = parent
    BY DEF left_by
  <1>6. ASSUME NEW i \in 0..Len(txs) PROVE left_by(i) \in World
    <2>1. i = 0 \/ i \in 1..Len(txs)
      BY <1>2
    <2> QED
      BY <1>1, <1>4, <1>5, <2>1
  <1> QED
    BY <1>2, <1>3, <1>4, <1>5, <1>6

\* Past the last of their indices entries leave the last of their values.
LEMMA ReplayedAll ==
  ASSUME NEW V, NEW c \in Changes(V), NEW n \in Nat, \A j \in DOMAIN c : c[j].index \in 1..n,
         NEW k \in Nat, k >= n, NEW before
  PROVE  /\ replayed(c, k, before) = replayed(c, n, before)
         /\ c = <<>> => replayed(c, n, before) = before
         /\ c # <<>> => replayed(c, n, before) = c[Len(c)].value
  <1> DEFINE E == [index: Nat, value: V]
             seen(x) == {j \in DOMAIN c : c[j].index <= x}
  <1>1. c \in Seq(E) /\ DOMAIN c = 1..Len(c) /\ Len(c) \in Nat
    BY DEF Changes
  <1>2. seen(k) = DOMAIN c /\ seen(n) = DOMAIN c
    <2>1. ASSUME NEW x \in 1..n PROVE x <= n /\ x <= k
      OBVIOUS
    <2>2. \A j \in DOMAIN c : c[j].index <= n /\ c[j].index <= k
      BY <2>1
    <2> QED
      BY <2>2
  <1>3. \A x : replayed(c, x, before) = IF seen(x) = {} THEN before ELSE c[Max(seen(x))].value
    BY DEF replayed
  <1> HIDE DEF seen, E
  <1>4. ASSUME c # <<>> PROVE DOMAIN c # {} /\ Max(DOMAIN c) = Len(c)
    <2>1. Len(c) # 0
      BY <1>1, <1>4
    <2>2. Len(c) \in 1..Len(c) /\ \A y \in 1..Len(c) : Len(c) >= y
      BY <1>1, <2>1
    <2>3. \A x \in 1..Len(c) : (\A y \in 1..Len(c) : x >= y) => x = Len(c)
      BY <1>1, <2>2
    <2>4. Max(1..Len(c)) = Len(c)
      BY <2>2, <2>3 DEF Max
    <2> QED
      BY <1>1, <2>2, <2>4
  <1>5. c = <<>> => DOMAIN c = {}
    OBVIOUS
  <1> QED
    BY <1>2, <1>3, <1>4, <1>5

\* The last transaction a step comes after.
upto(k) == IF k > Len(txs) THEN Len(txs) ELSE k

\* A value that the entries of the transactions tell of replays to what it is
\* after any step, if the withdrawals leave it alone.
LEMMA FieldReplays ==
  ASSUME NEW V, NEW f, Len(txs) \in Nat, Dated(f, V), NEW k \in Nat, NEW v,
         \A i \in 1..upto(k) : Tell(f[i], v[i - 1], v[i])
  PROVE  replayed(entries(f), k, v[0]) = v[upto(k)]
  <1>1. upto(k) \in 0..Len(txs)
    BY DEF upto
  <1>2. replayed(entries(f), upto(k), v[0]) = v[upto(k)]
    BY <1>1, EntriesReplay
  <1>3. CASE k <= Len(txs)
    BY <1>2, <1>3 DEF upto
  <1>4. CASE k > Len(txs)
    <2>1. /\ entries(f) \in Changes(V)
          /\ \A j \in DOMAIN entries(f) : entries(f)[j].index \in 1..Len(txs)
      BY EntriesType
    <2>2. k >= Len(txs) /\ upto(k) = Len(txs)
      BY <1>4 DEF upto
    <2> DEFINE c == entries(f)
    <2> HIDE DEF c
    <2>3. c \in Changes(V) /\ \A j \in DOMAIN c : c[j].index \in 1..Len(txs)
      BY <2>1 DEF c
    <2>4. replayed(c, k, v[0]) = replayed(c, Len(txs), v[0])
      BY <2>2, <2>3, ReplayedAll
    <2> QED
      BY <1>2, <2>2, <2>4 DEF c
  <1> QED
    BY <1>3, <1>4

\* A step, and the world after it.
LEMMA StepIs ==
  ASSUME BlockInv, ChainInv, open = Closed, NEW k \in Steps
  PROVE  /\ k \in Nat /\ upto(k) \in 0..Len(txs)
         /\ k > Len(txs) => k = Len(txs) + 1 /\ withdrawals # <<>>
         /\ \A a \in Addresses :
              LET old == left_by(upto(k))[a]
                  new == world_after(k)[a]
              IN  /\ new.storage = old.storage /\ new.nonce = old.nonce /\ new.code = old.code
                  /\ a # "new" \/ k <= Len(txs) => new = old
                  /\ k > Len(txs) /\ a = "new" => new.balance = old.balance + Len(withdrawals)
  <1>1. Len(txs) \in Nat /\ \A i \in 0..Len(txs) : left_by(i) \in World
    BY BlockIs
  <1>2. /\ k \in Nat /\ k >= 1 /\ upto(k) \in 0..Len(txs)
        /\ k > Len(txs) => k = Len(txs) + 1 /\ withdrawals # <<>>
    BY <1>1 DEF Steps, upto
  <1>3. ASSUME NEW a \in Addresses, k <= Len(txs)
        PROVE  world_after(k)[a] = left_by(upto(k))[a]
    <2>1. k # 0 /\ upto(k) = k /\ ~(k > Len(txs))
      BY <1>1, <1>2, <1>3 DEF upto
    <2> QED
      BY <2>1 DEF world_after, left_by
  <1>4. ASSUME NEW a \in Addresses, k > Len(txs)
        PROVE  LET old == left_by(upto(k))[a]
                   new == world_after(k)[a]
               IN  /\ new.storage = old.storage /\ new.nonce = old.nonce /\ new.code = old.code
                   /\ a # "new" => new = old
                   /\ a = "new" => new.balance = old.balance + Len(withdrawals)
    <2> DEFINE old == left_by(Len(txs))[a]
               new == world[a]
               b == IF a = "new" THEN Len(withdrawals) ELSE 0
    <2>1. upto(k) = Len(txs) /\ world_after(k) = world
      BY <1>4 DEF upto, world_after
    <2>2. new = [old EXCEPT !.balance = @ + b]
      BY DEF ChainInv, Credited
    <2>3. old \in AnAccount
      <3>1. Len(txs) \in 0..Len(txs)
        BY <1>1
      <3> QED
        BY <1>1, <3>1 DEF World
    <2> HIDE DEF old, new
    <2>4. /\ new.storage = old.storage /\ new.nonce = old.nonce /\ new.code = old.code
          /\ new.balance = old.balance + b
      BY <2>2, <2>3 DEF AnAccount
    <2>5. ASSUME a # "new" PROVE new = old
      <3>1. old.balance + 0 = old.balance
        <4>1. old.balance \in Nat
          BY <2>3 DEF AnAccount
        <4> QED
          BY <4>1
      <3>2. old = [old EXCEPT !.balance = old.balance]
        BY <2>3 DEF AnAccount
      <3> QED
        BY <2>2, <2>5, <3>1, <3>2
    <2> QED
      BY <2>1, <2>4, <2>5 DEF old, new
  <1>5. k <= Len(txs) \/ k > Len(txs)
    BY <1>1, <1>2
  <1> QED
    BY <1>2, <1>3, <1>4, <1>5

\* The slots of an account replay.
LEMMA StorageReplays ==
  ASSUME BlockInv, ChainInv, open = Closed, NEW a \in Addresses, NEW s \in Slots, NEW k \in Steps
  PROVE  replayed(storage_changes(a, s), k, parent[a].storage[s]) = world_after(k)[a].storage[s]
  <1> DEFINE f == [i \in Transactions |-> own_storage(i, a, s)]
             v == [i \in 0..Len(txs) |-> left_by(i)[a].storage[s]]
  <1>1. /\ Len(txs) \in Nat /\ DOMAIN txs = 1..Len(txs) /\ Transactions = 1..Len(txs)
        /\ left_by(0) = parent
        /\ \A i \in 1..Len(txs) : /\ Settled(txs[i]) /\ txs[i].before = left_by(i - 1)
                                  /\ txs[i].after = left_by(i)
    BY BlockIs
  <1>2. k \in Nat /\ upto(k) \in 0..Len(txs)
    BY StepIs
  <1>3. ASSUME NEW i \in 1..Len(txs) PROVE Own(f[i], i, Nat) /\ Tell(f[i], v[i - 1], v[i])
    <2>1. f[i] = own_storage(i, a, s) /\ i - 1 \in 0..Len(txs) /\ i \in 0..Len(txs)
      BY <1>1
    <2>2. /\ v[i - 1] = txs[i].before[a].storage[s] /\ v[i] = txs[i].after[a].storage[s]
          /\ Settled(txs[i]) /\ i \in DOMAIN txs
      BY <1>1, <2>1
    <2> HIDE DEF f, v
    <2> QED
      BY <1>1, <2>1, <2>2, StorageTold
  <1>4. storage_changes(a, s) = entries(f)
    BY EntriesOf
  <1>5. v[0] = parent[a].storage[s] /\ v[upto(k)] = left_by(upto(k))[a].storage[s]
    BY <1>1, <1>2
  <1>6. world_after(k)[a].storage = left_by(upto(k))[a].storage
    BY StepIs
  <1> HIDE DEF f, v
  <1>7. Dated(f, Nat)
    BY <1>3 DEF Dated, Own
  <1>8. \A i \in 1..upto(k) : Tell(f[i], v[i - 1], v[i])
    BY <1>1, <1>2, <1>3
  <1>9. replayed(entries(f), k, v[0]) = v[upto(k)]
    BY <1>1, <1>2, <1>7, <1>8, FieldReplays
  <1> QED
    BY <1>4, <1>5, <1>6, <1>9

\* Its nonces replay, failing transactions' too.
LEMMA NoncesReplay ==
  ASSUME BlockInv, ChainInv, open = Closed, NEW a \in Addresses, NEW k \in Steps
  PROVE  replayed(nonce_changes(a), k, parent[a].nonce) = world_after(k)[a].nonce
  <1> DEFINE f == [i \in Transactions |-> own_nonce(i, a)]
             v == [i \in 0..Len(txs) |-> left_by(i)[a].nonce]
  <1>1. /\ Len(txs) \in Nat /\ DOMAIN txs = 1..Len(txs) /\ Transactions = 1..Len(txs)
        /\ left_by(0) = parent
        /\ \A i \in 1..Len(txs) : /\ Settled(txs[i]) /\ txs[i].before = left_by(i - 1)
                                  /\ txs[i].after = left_by(i)
    BY BlockIs
  <1>2. k \in Nat /\ upto(k) \in 0..Len(txs)
    BY StepIs
  <1>3. ASSUME NEW i \in 1..Len(txs) PROVE Own(f[i], i, Nat) /\ Tell(f[i], v[i - 1], v[i])
    <2>1. f[i] = own_nonce(i, a) /\ i - 1 \in 0..Len(txs) /\ i \in 0..Len(txs)
      BY <1>1
    <2>2. /\ v[i - 1] = txs[i].before[a].nonce /\ v[i] = txs[i].after[a].nonce
          /\ Settled(txs[i])
      BY <1>1, <2>1
    <2> HIDE DEF f, v
    <2> QED
      BY <1>1, <2>1, <2>2, NonceTold
  <1>4. nonce_changes(a) = entries(f)
    BY EntriesOf
  <1>5. v[0] = parent[a].nonce /\ v[upto(k)] = left_by(upto(k))[a].nonce
    BY <1>1, <1>2
  <1>6. world_after(k)[a].nonce = left_by(upto(k))[a].nonce
    BY StepIs
  <1> HIDE DEF f, v
  <1>7. Dated(f, Nat)
    BY <1>3 DEF Dated, Own
  <1>8. \A i \in 1..upto(k) : Tell(f[i], v[i - 1], v[i])
    BY <1>1, <1>2, <1>3
  <1>9. replayed(entries(f), k, v[0]) = v[upto(k)]
    BY <1>1, <1>2, <1>7, <1>8, FieldReplays
  <1> QED
    BY <1>4, <1>5, <1>6, <1>9

\* Its code replays where the traces show it.
LEMMA CodeReplays ==
  ASSUME BlockInv, ChainInv, open = Closed, NEW a \in Addresses, NEW k \in Steps,
         ~code_unseen(a, k)
  PROVE  replayed(code_changes(a), k, parent[a].code) = world_after(k)[a].code
  <1> DEFINE f == [i \in Transactions |-> own_code(i, a)]
             v == [i \in 0..Len(txs) |-> left_by(i)[a].code]
  <1>1. /\ Len(txs) \in Nat /\ DOMAIN txs = 1..Len(txs) /\ Transactions = 1..Len(txs)
        /\ left_by(0) = parent
        /\ \A i \in 1..Len(txs) : /\ Settled(txs[i]) /\ txs[i].before = left_by(i - 1)
                                  /\ txs[i].after = left_by(i)
    BY BlockIs
  <1>2. k \in Nat /\ upto(k) \in 0..Len(txs) /\ upto(k) <= k
    BY <1>1, StepIs DEF upto
  <1>3. ASSUME NEW i \in 1..Len(txs)
        PROVE  /\ Own(f[i], i, Codes)
               /\ i <= k => Tell(f[i], v[i - 1], v[i])
    <2>1. f[i] = own_code(i, a) /\ i - 1 \in 0..Len(txs) /\ i \in 0..Len(txs)
      BY <1>1
    <2>2. /\ v[i - 1] = txs[i].before[a].code /\ v[i] = txs[i].after[a].code
          /\ Settled(txs[i]) /\ i \in DOMAIN txs
      BY <1>1, <2>1
    <2> HIDE DEF f, v
    <2>3. ASSUME i <= k
          PROVE  \/ txs[i].before[a].code = txs[i].after[a].code
                 \/ ~txs[i].failed /\ txs[i].after[a].code # ""
      <3>1. i \in 1..k /\ i <= Len(txs)
        BY <1>1, <1>2, <2>3
      <3> QED
        BY <3>1 DEF code_unseen
    <2> QED
      BY <1>1, <2>1, <2>2, <2>3, CodeTold
  <1>4. code_changes(a) = entries(f)
    BY EntriesOf
  <1>5. v[0] = parent[a].code /\ v[upto(k)] = left_by(upto(k))[a].code
    BY <1>1, <1>2
  <1>6. world_after(k)[a].code = left_by(upto(k))[a].code
    BY StepIs
  <1> HIDE DEF f, v
  <1>7. Dated(f, Codes)
    BY <1>3 DEF Dated, Own
  <1>8. ASSUME NEW i \in 1..upto(k) PROVE Tell(f[i], v[i - 1], v[i])
    <2>1. i \in 1..Len(txs) /\ i <= k
      BY <1>1, <1>2
    <2> QED
      BY <1>3, <2>1
  <1>9. replayed(entries(f), k, v[0]) = v[upto(k)]
    BY <1>1, <1>2, <1>7, <1>8, FieldReplays
  <1> QED
    BY <1>4, <1>5, <1>6, <1>9

\* Balances replay, those of the withdrawals included.
LEMMA BalancesReplay ==
  ASSUME BlockInv, ChainInv, open = Closed, NEW a \in Addresses, NEW k \in Steps,
         ~balance_unseen(a, k)
  PROVE  replayed(balance_changes(a, TRUE), k, parent[a].balance) = world_after(k)[a].balance
  <1> DEFINE f == [i \in Transactions |-> own_balance(i, a)]
             v == [i \in 0..Len(txs) |-> left_by(i)[a].balance]
             c == entries(f)
             n == Len(txs)
  <1>1. /\ Len(txs) \in Nat /\ DOMAIN txs = 1..Len(txs) /\ Transactions = 1..Len(txs)
        /\ fee_recipient \in Addresses /\ left_by(0) = parent
        /\ \A i \in 0..Len(txs) : left_by(i) \in World
        /\ \A i \in 1..Len(txs) : /\ Settled(txs[i]) /\ txs[i].before = left_by(i - 1)
                                  /\ txs[i].after = left_by(i)
    BY BlockIs
  <1>2. /\ k \in Nat /\ upto(k) \in 0..n /\ upto(k) <= k
        /\ k > n => k = n + 1 /\ withdrawals # <<>> /\ upto(k) = n
    BY <1>1, StepIs DEF upto
  <1>3. ASSUME NEW i \in 1..n
        PROVE  /\ Own(f[i], i, Nat)
               /\ i <= k => Len(f[i]) <= 1 /\ Tell(f[i], v[i - 1], v[i])
    <2>1. f[i] = own_balance(i, a) /\ i - 1 \in 0..n /\ i \in 0..n
      BY <1>1
    <2>2. /\ v[i - 1] = txs[i].before[a].balance /\ v[i] = txs[i].after[a].balance
          /\ Settled(txs[i]) /\ i \in DOMAIN txs
      BY <1>1, <2>1
    <2> HIDE DEF f, v, n
    <2>3. ASSUME i <= k PROVE ~(a = Sender /\ fee_recipient = Sender /\ txs[i].failed)
      <3>1. i \in 1..k /\ i <= Len(txs)
        BY <1>1, <1>2, <2>3 DEF n
      <3> QED
        BY <3>1 DEF balance_unseen, failed_before
    <2> QED
      BY <1>1, <2>1, <2>2, <2>3, BalanceTold DEF n
  <1>4. tx_balance_changes(a, TRUE) = c
    BY EntriesOf
  <1>5. v[0] = parent[a].balance /\ v[upto(k)] = left_by(upto(k))[a].balance
    BY <1>1, <1>2
  <1>6. /\ parent[a].balance \in Nat /\ withdrawals \in Seq({"new"})
        /\ v[0] \in Nat /\ v[upto(k)] \in Nat
    <2>1. /\ parent[a] \in AnAccount /\ left_by(upto(k))[a] \in AnAccount
          /\ withdrawals \in Seq({"new"})
      BY <1>1, <1>2 DEF ChainInv, World
    <2>2. parent[a].balance \in Nat /\ left_by(upto(k))[a].balance \in Nat
      BY <2>1 DEF AnAccount
    <2> QED
      BY <1>5, <2>1, <2>2
  <1>7. /\ a # "new" \/ k <= n => world_after(k)[a].balance = v[upto(k)]
        /\ k > n /\ a = "new" => world_after(k)[a].balance = v[upto(k)] + Len(withdrawals)
    BY <1>5, StepIs
  <1> HIDE DEF f, v, c
  <1>8. Dated(f, Nat)
    BY <1>3 DEF Dated, Own
  <1>9. ASSUME NEW i \in 1..upto(k) PROVE Len(f[i]) <= 1 /\ Tell(f[i], v[i - 1], v[i])
    <2>1. i \in 1..n /\ i <= k
      BY <1>1, <1>2
    <2> QED
      BY <1>3, <2>1
  <1>10. replayed(c, k, v[0]) = v[upto(k)]
    BY <1>1, <1>2, <1>8, <1>9, FieldReplays DEF c
  <1>11. c \in Changes(Nat) /\ \A j \in DOMAIN c : c[j].index \in 1..n
    BY <1>1, <1>8, EntriesType DEF c
  <1>12. balance_changes(a, TRUE) = withdrawn(c, a)
    BY <1>4 DEF balance_changes
  <1>13. CASE a # "new" \/ k <= n
    <2>1. replayed(withdrawn(c, a), k, v[0]) = replayed(c, k, v[0])
      <3>1. CASE a # "new"
        <4>1. withdrawn(c, a) = c
          BY <1>1, <1>6, <1>11, <3>1, Withdrawn
        <4> QED
          BY <4>1
      <3>2. CASE k <= n
        <4>1. k \in 0..Len(txs)
          BY <1>1, <1>2, <3>2
        <4> QED
          BY <1>1, <1>6, <1>11, <4>1, Withdrawn
      <3> QED
        BY <1>13, <3>1, <3>2
    <2> QED
      BY <1>5, <1>7, <1>10, <1>12, <1>13, <2>1
  <1>14. CASE a = "new" /\ k > n
    <2> DEFINE m == Len(withdrawals)
    <2>1. m \in 1..2
      <3>1. m \in Nat /\ m # 0 /\ \A i \in 1..m : withdrawals[i] = a
        BY <1>2, <1>6, <1>14
      <3>2. {i \in DOMAIN withdrawals : withdrawals[i] = a} = 1..m
        BY <1>6, <3>1
      <3>3. Cardinality(1..m) = m
        BY <3>1, FS_Interval
      <3>4. ~(m > 2)
        BY <1>14, <3>2, <3>3 DEF balance_unseen
      <3> QED
        BY <3>1, <3>4
    <2>2. k = n + 1 /\ upto(k) = n
      BY <1>2, <1>14
    <2>3. replayed(withdrawn(c, a), n + 1, v[0]) = latest_balance(c, parent[a].balance) + m
      BY <1>1, <1>6, <1>11, <1>14, <2>1, Withdrawn
    <2>4. latest_balance(c, parent[a].balance) = v[n]
      <3>1. replayed(c, n, v[0]) = v[n]
        <4>1. k >= n /\ n \in Nat
          BY <1>1, <1>2, <1>14
        <4>2. replayed(c, k, v[0]) = replayed(c, n, v[0])
          BY <1>2, <1>11, <4>1, ReplayedAll
        <4> QED
          BY <1>10, <2>2, <4>2
      <3>2. CASE c = <<>>
        <4>1. latest_balance(c, parent[a].balance) = parent[a].balance
          BY <3>2 DEF latest_balance
        <4>2. replayed(c, n, v[0]) = v[0]
          BY <3>2 DEF replayed
        <4> QED
          BY <1>5, <3>1, <4>1, <4>2
      <3>3. CASE c # <<>>
        <4>1. \A i \in 1..Len(txs) : Len(f[i]) <= 1
          BY <1>9, <2>2
        <4>2. \A j \in DOMAIN c : c[j].index = c[Len(c)].index => j = Len(c)
          BY <1>1, <1>8, <4>1, EntriesType DEF c
        <4>3. latest_balance(c, parent[a].balance) = c[Len(c)].value
          BY <1>6, <1>11, <3>3, <4>2, LatestBalance
        <4>4. replayed(c, n, v[0]) = c[Len(c)].value
          <5>1. n >= n /\ n \in Nat
            BY <1>1
          <5> QED
            BY <1>11, <3>3, <5>1, ReplayedAll
        <4> QED
          BY <3>1, <4>3, <4>4
      <3> QED
        BY <3>2, <3>3
    <2> QED
      BY <1>5, <1>7, <1>12, <1>14, <2>2, <2>3, <2>4
  <1>15. (a # "new" \/ k <= n) \/ (a = "new" /\ k > n)
    BY <1>1, <1>2
  <1> QED
    BY <1>13, <1>14, <1>15

\* An account the list does not have is as it was.
LEMMA UnlistedUnchanged ==
  ASSUME BlockInv, ChainInv, open = Closed, NEW a \in Addresses, a \notin listed(TRUE),
         NEW k \in Steps
  PROVE  world_after(k)[a] = parent[a]
  <1>1. /\ Len(txs) \in Nat /\ DOMAIN txs = 1..Len(txs) /\ Transactions = 1..Len(txs)
        /\ left_by(0) = parent
        /\ \A i \in 1..Len(txs) : /\ Settled(txs[i]) /\ txs[i].before = left_by(i - 1)
                                  /\ txs[i].after = left_by(i)
    BY BlockIs
  <1>2. /\ \A i \in Transactions : a \notin DOMAIN diff_post(txs[i])
        /\ balance_changes(a, TRUE) = <<>>
    <2> DEFINE named == collect_touched_addresses
                          \cup UNION {DOMAIN full_trace(txs[i]) : i \in Transactions}
               changed_somehow ==
                 \E c \in {balance_changes(a, TRUE), nonce_changes(a), code_changes(a)} :
                   c # <<>>
    <2>1. a \notin named /\ ~changed_somehow
      <3>1. listed(TRUE) = {x \in Addresses :
                              \/ TRUE /\ x \in named
                              \/ storage_writes(x) # <<>>
                              \/ \E c \in {balance_changes(x, TRUE), nonce_changes(x),
                                           code_changes(x)} : c # <<>>}
        BY DEF listed
      <3> HIDE DEF named
      <3> QED
        BY <3>1
    <2>2. a \notin collect_touched_addresses
      BY <2>1
    <2> QED
      BY <2>1, <2>2 DEF collect_touched_addresses
  <1>3. ASSUME NEW i \in 1..Len(txs) PROVE left_by(i)[a] = left_by(i - 1)[a]
    <2>1. a \notin DOMAIN diff_post(txs[i])
      BY <1>1, <1>2
    <2> QED
      BY <1>1, <2>1, TracedAccount
  <1> DEFINE P == {i \in Nat : i \in 0..Len(txs) => left_by(i)[a] = parent[a]}
  <1>4. 0 \in P
    BY <1>1
  <1>5. ASSUME NEW i \in Nat, i \in P PROVE i + 1 \in P
    <2>1. ASSUME i + 1 \in 0..Len(txs) PROVE left_by(i + 1)[a] = parent[a]
      <3>1. i + 1 \in 1..Len(txs) /\ i \in 0..Len(txs) /\ (i + 1) - 1 = i
        BY <1>1, <2>1
      <3>2. left_by(i + 1)[a] = left_by((i + 1) - 1)[a]
        BY <1>3, <3>1
      <3> QED
        BY <1>5, <3>1, <3>2
    <2> QED
      BY <2>1
  <1> HIDE DEF P
  <1>6. Nat \subseteq P
    BY <1>4, <1>5, SetInduction
  <1>7. left_by(upto(k))[a] = parent[a]
    BY <1>6, StepIs DEF P
  <1>8. CASE k <= Len(txs) \/ a # "new"
    BY <1>7, <1>8, StepIs
  <1>9. CASE k > Len(txs) /\ a = "new"
    <2> DEFINE f == [i \in Transactions |-> own_balance(i, a)]
               c == entries(f)
    <2>1. withdrawals # <<>> /\ withdrawals \in Seq({"new"}) /\ parent[a].balance \in Nat
      <3>1. parent[a] \in AnAccount
        BY DEF ChainInv, World
      <3> QED
        BY <1>9, <3>1, StepIs DEF ChainInv, AnAccount
    <2>2. balance_changes(a, TRUE) = withdrawn(c, a)
      BY EntriesOf DEF balance_changes
    <2>3. Dated(f, Nat)
      <3>1. ASSUME NEW i \in 1..Len(txs) PROVE Own(f[i], i, Nat)
        <4>1. f[i] = own_balance(i, a) /\ i \in DOMAIN txs /\ Settled(txs[i])
          BY <1>1
        <4> HIDE DEF f
        <4> QED
          BY <1>1, <4>1, BalanceTold, BlockIs
      <3> HIDE DEF f
      <3> QED
        BY <3>1 DEF Dated, Own
    <2> HIDE DEF f
    <2>4. c \in Changes(Nat) /\ \A j \in DOMAIN c : c[j].index \in 1..Len(txs)
      BY <1>1, <2>3, EntriesType
    <2> HIDE DEF c
    <2>5. withdrawn(c, a) # <<>>
      BY <1>1, <1>9, <2>1, <2>4, Withdrawn
    <2> QED
      BY <1>2, <2>2, <2>5
  <1>10. k <= Len(txs) \/ k > Len(txs)
    BY <1>1, StepIs
  <1> QED
    BY <1>8, <1>9, <1>10

\* The access list of every block, replayed up to any index over the parent
\* state, gives the world after that transaction or the withdrawals.
THEOREM AccessListHolds == Spec => []AccessListReplays
  <1>1. ASSUME BlockInv, ChainInv PROVE AccessListReplays
    <2> DEFINE list == build_accounts(TRUE)
    <2>1. SUFFICES ASSUME open = Closed, NEW a \in Addresses, NEW k \in Steps
                   PROVE  LET old == parent[a]
                              new == world_after(k)[a]
                          IN  IF a \notin DOMAIN list THEN new = old
                              ELSE /\ \A s \in Slots :
                                        replayed(get(list[a].storage_writes, s, <<>>), k,
                                                 old.storage[s])
                                          = new.storage[s]
                                   /\ balance_unseen(a, k)
                                        \/ replayed(list[a].balance_changes, k, old.balance)
                                             = new.balance
                                   /\ replayed(list[a].nonce_changes, k, old.nonce) = new.nonce
                                   /\ code_unseen(a, k)
                                        \/ replayed(list[a].code_changes, k, old.code) = new.code
      BY DEF AccessListReplays
    <2>2. DOMAIN list = listed(TRUE)
      BY DEF build_accounts
    <2>3. CASE a \notin DOMAIN list
      BY <1>1, <2>1, <2>2, <2>3, UnlistedUnchanged
    <2>4. CASE a \in DOMAIN list
      <3>1. /\ list[a].storage_writes = storage_writes(a)
            /\ list[a].balance_changes = balance_changes(a, TRUE)
            /\ list[a].nonce_changes = nonce_changes(a)
            /\ list[a].code_changes = code_changes(a)
        BY <2>2, <2>4 DEF build_accounts
      <3>2. ASSUME NEW s \in Slots PROVE get(storage_writes(a), s, <<>>) = storage_changes(a, s)
        BY DEF storage_writes, get
      <3> HIDE DEF list
      <3>3. /\ \A s \in Slots : replayed(get(list[a].storage_writes, s, <<>>), k,
                                         parent[a].storage[s])
                                  = world_after(k)[a].storage[s]
            /\ replayed(list[a].nonce_changes, k, parent[a].nonce) = world_after(k)[a].nonce
        BY <1>1, <2>1, <3>1, <3>2, StorageReplays, NoncesReplay
      <3>4. balance_unseen(a, k)
              \/ replayed(list[a].balance_changes, k, parent[a].balance)
                   = world_after(k)[a].balance
        BY <1>1, <2>1, <3>1, BalancesReplay
      <3>5. code_unseen(a, k)
              \/ replayed(list[a].code_changes, k, parent[a].code) = world_after(k)[a].code
        BY <1>1, <2>1, <3>1, CodeReplays
      <3> QED
        BY <2>4, <3>3, <3>4, <3>5
    <2> QED
      BY <2>3, <2>4
  <1> QED
    BY <1>1, BlockInvariant, ChainInvariant, PTL

-----------------------------------------------------------------------------
(* Sums over the transactions of a block, as running totals.               *)

\* Induction over a range.
LEMMA RangeInduction ==
  ASSUME NEW n \in Nat, NEW P, 0 \in P, \A m \in 1..n : m - 1 \in P => m \in P
  PROVE  \A m \in 0..n : m \in P
  <1> DEFINE Q == {m \in Nat : m <= n => m \in P}
  <1>1. 0 \in Q
    OBVIOUS
  <1>2. ASSUME NEW m \in Nat, m \in Q PROVE m + 1 \in Q
    <2>1. ASSUME m + 1 <= n PROVE m + 1 \in P
      <3> DEFINE next == m + 1
      <3>1. next \in 1..n /\ next - 1 = m /\ m <= n
        BY <2>1
      <3>2. m \in P
        BY <1>2, <3>1
      <3> HIDE DEF next
      <3>3. next \in P
        BY <3>1, <3>2
      <3> QED
        BY <3>3 DEF next
    <2> QED
      BY <2>1
  <1> HIDE DEF Q
  <1>3. Nat \subseteq Q
    BY <1>1, <1>2, SetInduction
  <1>4. ASSUME NEW m \in 0..n PROVE m \in P
    <2>1. m \in Nat /\ m <= n
      OBVIOUS
    <2> QED
      BY <1>3, <2>1 DEF Q
  <1> QED
    BY <1>4

\* The running totals of a function on 1..n.
Totals(h, f, n) == h[0] = 0 /\ \A i \in 1..n : h[i] = h[i - 1] + f[i]

\* A sum over 1..n is the last of its running totals.
LEMMA RunningTotals ==
  ASSUME NEW n \in Nat, NEW f \in [1..n -> Int]
  PROVE  \E h \in [0..n -> Int] : Totals(h, f, n) /\ SumFunction(f) = h[n]
  <1>1. IsFiniteSet(1..n)
    BY FS_Interval
  <1>2. PICK g \in [SUBSET (1..n) -> Int] :
           Adds(f, g, 1..n) /\ g[{}] = 0 /\ SumFunction(f) = g[1..n]
    BY <1>1, SumsOfSubsets
  <1> DEFINE h == [i \in 0..n |-> g[1..i]]
  <1>3. \A i \in 0..n : 1..i \in SUBSET (1..n)
    OBVIOUS
  <1>4. h \in [0..n -> Int]
    BY <1>3
  <1>5. h[0] = 0
    <2>1. 1..0 = {}
      OBVIOUS
    <2> QED
      BY <1>2, <2>1
  <1>6. ASSUME NEW i \in 1..n PROVE h[i] = h[i - 1] + f[i]
    <2>1. i \in 1..i /\ (1..i) \ {i} = 1..(i - 1) /\ i \in 0..n /\ i - 1 \in 0..n
      OBVIOUS
    <2>2. g[1..i] = f[i] + g[(1..i) \ {i}]
      BY <1>2, <1>3, <2>1 DEF Adds
    <2>3. g[1..i] = f[i] + g[1..(i - 1)]
      BY <2>1, <2>2
    <2>4. h[i] = g[1..i] /\ h[i - 1] = g[1..(i - 1)]
      BY <2>1
    <2>5. f[i] \in Int /\ h[i - 1] \in Int
      BY <1>4, <2>1
    <2> QED
      BY <2>3, <2>4, <2>5
  <1>7. h[n] = g[1..n]
    OBVIOUS
  <1> HIDE DEF h
  <1>8. Totals(h, f, n) /\ SumFunction(f) = h[n]
    BY <1>2, <1>5, <1>6, <1>7 DEF Totals
  <1> QED
    BY <1>4, <1>8

\* So it is an integer.
LEMMA SumIsInt ==
  ASSUME NEW n \in Nat, NEW f \in [1..n -> Int]
  PROVE  SumFunction(f) \in Int
  <1>1. PICK h \in [0..n -> Int] : SumFunction(f) = h[n]
    BY RunningTotals
  <1>2. n \in 0..n
    OBVIOUS
  <1> QED
    BY <1>1, <1>2

\* The size of a union of finite sets is at most the sum of theirs, and equal to
\* it when they are apart.
LEMMA UnionCount ==
  ASSUME NEW n \in Nat, NEW S, \A i \in 1..n : IsFiniteSet(S[i])
  PROVE  LET U == UNION {S[i] : i \in 1..n}
             sum == SumFunction([i \in 1..n |-> Cardinality(S[i])])
         IN  /\ IsFiniteSet(U) /\ Cardinality(U) \in Nat /\ sum \in Int
             /\ Cardinality(U) <= sum
             /\ (\A i, j \in 1..n : i # j => S[i] \cap S[j] = {}) => Cardinality(U) = sum
  <1> DEFINE U(k) == UNION {S[i] : i \in 1..k}
             f == [i \in 1..n |-> Cardinality(S[i])]
             apart == \A i, j \in 1..n : i # j => S[i] \cap S[j] = {}
  <1>1. \A i \in 1..n : Cardinality(S[i]) \in Nat
    BY FS_CardinalityType
  <1>2. f \in [1..n -> Int]
    BY <1>1
  <1>3. PICK h \in [0..n -> Int] : Totals(h, f, n) /\ SumFunction(f) = h[n]
    BY <1>2, RunningTotals
  <1> DEFINE P == {k \in Nat : /\ IsFiniteSet(U(k)) /\ Cardinality(U(k)) <= h[k]
                               /\ apart => Cardinality(U(k)) = h[k]}
  <1>4. 0 \in P
    <2>1. U(0) = {}
      OBVIOUS
    <2>2. Cardinality({}) = 0 /\ IsFiniteSet({})
      BY FS_EmptySet
    <2>3. h[0] = 0
      BY <1>3 DEF Totals
    <2> HIDE DEF U, apart
    <2>4. IsFiniteSet(U(0)) /\ Cardinality(U(0)) = 0
      BY <2>1, <2>2
    <2> QED
      BY <2>3, <2>4
  <1>5. ASSUME NEW k \in 1..n, k - 1 \in P PROVE k \in P
    <2> DEFINE V == U(k - 1)
    <2>1. U(k) = V \cup S[k]
      <3>1. 1..k = (1..(k - 1)) \cup {k}
        OBVIOUS
      <3> QED
        BY <3>1
    <2>2. apart => V \cap S[k] = {}
      <3>1. ASSUME apart, NEW i \in 1..(k - 1) PROVE S[i] \cap S[k] = {}
        <4>1. i \in 1..n /\ i # k
          OBVIOUS
        <4> QED
          BY <3>1, <4>1
      <3> QED
        BY <3>1
    <2>3. /\ IsFiniteSet(V) /\ IsFiniteSet(S[k]) /\ IsFiniteSet(V \cap S[k])
          /\ Cardinality(V) <= h[k - 1]
          /\ apart => Cardinality(V) = h[k - 1]
      <3>1. /\ IsFiniteSet(V) /\ Cardinality(V) <= h[k - 1]
            /\ apart => Cardinality(V) = h[k - 1]
        BY <1>5
      <3> HIDE DEF V, P
      <3>2. IsFiniteSet(V \cap S[k])
        BY <3>1, FS_Subset
      <3> QED
        BY <3>1, <3>2
    <2> DEFINE u == Cardinality(V \cup S[k])
               v == Cardinality(V)
               s == Cardinality(S[k])
               c == Cardinality(V \cap S[k])
    <2> HIDE DEF V, P
    <2>4. IsFiniteSet(V \cup S[k]) /\ u = v + s - c
      BY <2>3, FS_Union
    <2>5. u \in Nat /\ v \in Nat /\ s \in Nat /\ c \in Nat
      BY <2>3, <2>4, FS_CardinalityType
    <2>6. apart => c = 0
      BY <2>2, FS_EmptySet
    <2>7. h[k] = h[k - 1] + s /\ h[k - 1] \in Int
      <3>1. k - 1 \in 0..n /\ f[k] = s
        OBVIOUS
      <3> HIDE DEF f
      <3> QED
        BY <1>3, <3>1 DEF Totals
    <2>8. v <= h[k - 1] /\ (apart => v = h[k - 1])
      BY <2>3
    <2> HIDE DEF u, v, s, c, apart
    <2>9. u <= h[k] /\ (apart => u = h[k])
      BY <2>4, <2>5, <2>6, <2>7, <2>8
    <2>10. /\ IsFiniteSet(U(k)) /\ Cardinality(U(k)) <= h[k]
           /\ apart => Cardinality(U(k)) = h[k]
      BY <2>1, <2>4, <2>9 DEF u
    <2>11. k \in Nat
      OBVIOUS
    <2> QED
      BY <2>10, <2>11 DEF P
  <1> HIDE DEF P
  <1>6. n \in P
    <2>1. \A k \in 0..n : k \in P
      BY <1>4, <1>5, RangeInduction
    <2> QED
      BY <2>1
  <1>7. /\ IsFiniteSet(U(n)) /\ Cardinality(U(n)) <= h[n]
        /\ apart => Cardinality(U(n)) = h[n]
    BY <1>6 DEF P
  <1>8. Cardinality(U(n)) \in Nat /\ h[n] \in Int
    BY <1>7, FS_CardinalityType
  <1> HIDE DEF U, f, apart
  <1>9. /\ IsFiniteSet(U(n)) /\ Cardinality(U(n)) \in Nat /\ SumFunction(f) \in Int
        /\ Cardinality(U(n)) <= SumFunction(f)
        /\ apart => Cardinality(U(n)) = SumFunction(f)
    BY <1>3, <1>7, <1>8
  <1> QED
    BY <1>9 DEF U, f, apart

\* Only one place has something to add.
LEMMA SumOfOne ==
  ASSUME NEW S, IsFiniteSet(S), NEW f \in [S -> Int], NEW c, \A x \in S \ {c} : f[x] = 0
  PROVE  SumFunction(f) = IF c \in S THEN f[c] ELSE 0
  <1>1. PICK g \in [SUBSET S -> Int] : Adds(f, g, S) /\ g[{}] = 0 /\ SumFunction(f) = g[S]
    BY SumsOfSubsets
  <1> DEFINE Q == {T \in SUBSET S : g[T] = IF c \in T THEN f[c] ELSE 0}
  <1>2. {} \in Q
    BY <1>1
  <1>3. ASSUME NEW T \in SUBSET S, T # {}, \A y \in T : T \ {y} \in Q
        PROVE  T \in Q
    <2>1. PICK y \in T : TRUE
      BY <1>3
    <2>2. g[T] = f[y] + g[T \ {y}] /\ f[y] \in Int
      BY <1>1 DEF Adds
    <2>3. g[T \ {y}] = IF c \in T \ {y} THEN f[c] ELSE 0
      BY <1>3
    <2>4. CASE y = c
      BY <2>2, <2>3, <2>4
    <2>5. CASE y # c
      <3>1. f[y] = 0 /\ (c \in T <=> c \in T \ {y})
        BY <2>5
      <3>2. c \in T => f[c] \in Int
        OBVIOUS
      <3> QED
        BY <2>2, <2>3, <3>1, <3>2
    <2> QED
      BY <2>4, <2>5
  <1> HIDE DEF Q
  <1>4. S \in Q
    BY <1>2, <1>3, SubsetInduction
  <1> QED
    BY <1>1, <1>4 DEF Q

-----------------------------------------------------------------------------
(* The runtime bytes of a block.                                           *)

\* The bytes of counts of which the deployed code is that of the creates.
bytes_of(cs, sv, ca, pc, pd, pe, ic) ==
  32 * cs + 32 * sv + 20 * ca + 32 * pc + 32 * pd + 32 * pe + (28 + ContractBytes) * ic

\* So they are the attributed bytes of a row.
LEMMA BytesAre ==
  ASSUME NEW n, n.cold_storage_accesses \in Int, n.storage_value_entries_observed \in Int,
         n.cold_account_accesses \in Int, n.positive_value_calls \in Int,
         n.positive_value_selfdestructs \in Int, n.internal_create_endowments \in Int,
         n.internal_creates \in Int,
         n.internal_deployed_code_bytes = ContractBytes * n.internal_creates
  PROVE  /\ bal_runtime_bytes(n) \in Int
         /\ bal_runtime_bytes(n)
              = bytes_of(n.cold_storage_accesses, n.storage_value_entries_observed,
                         n.cold_account_accesses, n.positive_value_calls,
                         n.positive_value_selfdestructs, n.internal_create_endowments,
                         n.internal_creates)
  <1> USE DEF BAL_BYTES_PER_STORAGE_KEY, BAL_BYTES_PER_STORAGE_VALUE, BAL_BYTES_PER_ADDRESS,
              BAL_BYTES_PER_BALANCE, BAL_BYTES_PER_NONCE, ContractBytes
  <1>1. /\ compute_eip8279_runtime_bytes(n).storage_key = 32 * n.cold_storage_accesses
        /\ compute_eip8279_runtime_bytes(n).storage_value
             = 32 * n.storage_value_entries_observed
        /\ compute_eip8279_runtime_bytes(n).account_access = 20 * n.cold_account_accesses
        /\ compute_eip8279_runtime_bytes(n).value_transfer
             = 32 * n.positive_value_calls + 32 * n.positive_value_selfdestructs
                 + 32 * n.internal_create_endowments
        /\ compute_eip8279_runtime_bytes(n).contract_creation
             = 20 * n.internal_creates + 8 * n.internal_creates
        /\ compute_eip8279_runtime_bytes(n).deployed_code = 3 * n.internal_creates
    BY DEF compute_eip8279_runtime_bytes
  <1> QED
    BY <1>1 DEF bal_runtime_bytes, component_sum, bytes_of

\* The bytes of some counts, for each of 1..m.
BytesEach(f, g, m) ==
  /\ f \in [1..7 -> [1..m -> Int]] /\ g \in [1..m -> Int]
  /\ \A i \in 1..m :
       g[i] = bytes_of(f[1][i], f[2][i], f[3][i], f[4][i], f[5][i], f[6][i], f[7][i])

\* Bytes are linear in the counts: those of the sums are the sum of those.
LEMMA BytesOfSums ==
  ASSUME NEW m \in Nat, NEW f, NEW g, BytesEach(f, g, m)
  PROVE  SumFunction(g)
           = bytes_of(SumFunction(f[1]), SumFunction(f[2]), SumFunction(f[3]),
                      SumFunction(f[4]), SumFunction(f[5]), SumFunction(f[6]),
                      SumFunction(f[7]))
  <1> DEFINE f1 == f[1] f2 == f[2] f3 == f[3] f4 == f[4] f5 == f[5] f6 == f[6] f7 == f[7]
  <1>1. /\ f1 \in [1..m -> Int] /\ f2 \in [1..m -> Int] /\ f3 \in [1..m -> Int]
        /\ f4 \in [1..m -> Int] /\ f5 \in [1..m -> Int] /\ f6 \in [1..m -> Int]
        /\ f7 \in [1..m -> Int] /\ g \in [1..m -> Int]
    <2>1. /\ 1 \in 1..7 /\ 2 \in 1..7 /\ 3 \in 1..7 /\ 4 \in 1..7 /\ 5 \in 1..7
          /\ 6 \in 1..7 /\ 7 \in 1..7
      OBVIOUS
    <2> QED
      BY <2>1 DEF BytesEach
  <1>2. \A i \in 1..m : g[i] = bytes_of(f1[i], f2[i], f3[i], f4[i], f5[i], f6[i], f7[i])
    BY DEF BytesEach
  <1> HIDE DEF f1, f2, f3, f4, f5, f6, f7
  <1>3. PICK h1 \in [0..m -> Int] : Totals(h1, f1, m) /\ SumFunction(f1) = h1[m]
    BY <1>1, RunningTotals
  <1>4. PICK h2 \in [0..m -> Int] : Totals(h2, f2, m) /\ SumFunction(f2) = h2[m]
    BY <1>1, RunningTotals
  <1>5. PICK h3 \in [0..m -> Int] : Totals(h3, f3, m) /\ SumFunction(f3) = h3[m]
    BY <1>1, RunningTotals
  <1>6. PICK h4 \in [0..m -> Int] : Totals(h4, f4, m) /\ SumFunction(f4) = h4[m]
    BY <1>1, RunningTotals
  <1>7. PICK h5 \in [0..m -> Int] : Totals(h5, f5, m) /\ SumFunction(f5) = h5[m]
    BY <1>1, RunningTotals
  <1>8. PICK h6 \in [0..m -> Int] : Totals(h6, f6, m) /\ SumFunction(f6) = h6[m]
    BY <1>1, RunningTotals
  <1>9. PICK h7 \in [0..m -> Int] : Totals(h7, f7, m) /\ SumFunction(f7) = h7[m]
    BY <1>1, RunningTotals
  <1>10. PICK h \in [0..m -> Int] : Totals(h, g, m) /\ SumFunction(g) = h[m]
    BY <1>1, RunningTotals
  <1> DEFINE P == {k \in 0..m :
                     h[k] = bytes_of(h1[k], h2[k], h3[k], h4[k], h5[k], h6[k], h7[k])}
  <1>11. 0 \in P
    BY <1>3, <1>4, <1>5, <1>6, <1>7, <1>8, <1>9, <1>10 DEF Totals, bytes_of, ContractBytes
  <1>12. ASSUME NEW k \in 1..m, k - 1 \in P PROVE k \in P
    <2> DEFINE j == k - 1
    <2>1. j \in 0..m /\ k \in 0..m
      OBVIOUS
    <2>2. h[j] = bytes_of(h1[j], h2[j], h3[j], h4[j], h5[j], h6[j], h7[j])
      BY <1>12
    <2>3. /\ h1[k] = h1[j] + f1[k] /\ h2[k] = h2[j] + f2[k] /\ h3[k] = h3[j] + f3[k]
          /\ h4[k] = h4[j] + f4[k] /\ h5[k] = h5[j] + f5[k] /\ h6[k] = h6[j] + f6[k]
          /\ h7[k] = h7[j] + f7[k] /\ h[k] = h[j] + g[k]
      BY <1>3, <1>4, <1>5, <1>6, <1>7, <1>8, <1>9, <1>10 DEF Totals
    <2> HIDE DEF j, P
    <2>4. /\ h1[j] \in Int /\ h2[j] \in Int /\ h3[j] \in Int /\ h4[j] \in Int
          /\ h5[j] \in Int /\ h6[j] \in Int /\ h7[j] \in Int
          /\ f1[k] \in Int /\ f2[k] \in Int /\ f3[k] \in Int /\ f4[k] \in Int
          /\ f5[k] \in Int /\ f6[k] \in Int /\ f7[k] \in Int
      BY <1>1, <2>1
    <2>5. g[k] = bytes_of(f1[k], f2[k], f3[k], f4[k], f5[k], f6[k], f7[k])
      BY <1>2
    <2>6. h[k] = bytes_of(h1[j] + f1[k], h2[j] + f2[k], h3[j] + f3[k], h4[j] + f4[k],
                          h5[j] + f5[k], h6[j] + f6[k], h7[j] + f7[k])
      <3>1. bytes_of(h1[j], h2[j], h3[j], h4[j], h5[j], h6[j], h7[j])
              + bytes_of(f1[k], f2[k], f3[k], f4[k], f5[k], f6[k], f7[k])
              = bytes_of(h1[j] + f1[k], h2[j] + f2[k], h3[j] + f3[k], h4[j] + f4[k],
                         h5[j] + f5[k], h6[j] + f6[k], h7[j] + f7[k])
        <4> DEFINE a1 == h1[j] a2 == h2[j] a3 == h3[j] a4 == h4[j]
                   a5 == h5[j] a6 == h6[j] a7 == h7[j]
                   c1 == f1[k] c2 == f2[k] c3 == f3[k] c4 == f4[k]
                   c5 == f5[k] c6 == f6[k] c7 == f7[k]
        <4>1. /\ a1 \in Int /\ a2 \in Int /\ a3 \in Int /\ a4 \in Int
              /\ a5 \in Int /\ a6 \in Int /\ a7 \in Int
              /\ c1 \in Int /\ c2 \in Int /\ c3 \in Int /\ c4 \in Int
              /\ c5 \in Int /\ c6 \in Int /\ c7 \in Int
          BY <2>4
        <4> HIDE DEF a1, a2, a3, a4, a5, a6, a7, c1, c2, c3, c4, c5, c6, c7
        <4>2. bytes_of(a1, a2, a3, a4, a5, a6, a7) + bytes_of(c1, c2, c3, c4, c5, c6, c7)
                = bytes_of(a1 + c1, a2 + c2, a3 + c3, a4 + c4, a5 + c5, a6 + c6, a7 + c7)
          BY <4>1 DEF bytes_of, ContractBytes
        <4> QED
          BY <4>2 DEF a1, a2, a3, a4, a5, a6, a7, c1, c2, c3, c4, c5, c6, c7
      <3>2. h[k] = h[j] + g[k]
        BY <2>3
      <3> QED
        BY <2>2, <2>5, <3>1, <3>2
    <2>7. h[k] = bytes_of(h1[k], h2[k], h3[k], h4[k], h5[k], h6[k], h7[k])
      BY <2>3, <2>6
    <2> QED
      BY <2>1, <2>7 DEF P
  <1>13. m \in P
    <2> HIDE DEF P
    <2>1. \A k \in 0..m : k \in P
      BY <1>11, <1>12, RangeInduction
    <2> QED
      BY <2>1
  <1>14. h[m] = bytes_of(h1[m], h2[m], h3[m], h4[m], h5[m], h6[m], h7[m])
    BY <1>13
  <1> HIDE DEF P
  <1>15. SumFunction(g)
           = bytes_of(SumFunction(f1), SumFunction(f2), SumFunction(f3), SumFunction(f4),
                      SumFunction(f5), SumFunction(f6), SumFunction(f7))
    BY <1>3, <1>4, <1>5, <1>6, <1>7, <1>8, <1>9, <1>10, <1>14
  <1> QED
    BY <1>15 DEF f1, f2, f3, f4, f5, f6, f7

\* The slots a transaction changed in its contract, and how often it does so.
slots_changed(i) == changed(txs[i].before[Contract].storage, txs[i].after[Contract].storage)

\* The storage values the tables show of a transaction are its changed slots.
LEMMA ValueEntries ==
  ASSUME BlockInv, NEW i \in DOMAIN txs
  PROVE  /\ storage_value_entries(i) = {<<Contract, s>> : s \in slots_changed(i)}
         /\ IsFiniteSet(storage_value_entries(i))
         /\ count(storage_value_entries(i)) = Cardinality(slots_changed(i))
         /\ Cardinality({<<i, p>> : p \in storage_value_entries(i)})
              = count(storage_value_entries(i))
         /\ IsFiniteSet({<<i, p>> : p \in storage_value_entries(i)})
  <1>1. txs[i] \in ExecutedTransactions
    BY DEF BlockInv
  <1>2. \A a \in Addresses \ {Contract} : txs[i].before[a].storage = txs[i].after[a].storage
    BY <1>1 DEF ExecutedTransactions, Accounted, SameStorage
  <1>3. storage_value_entries(i) = {<<Contract, s>> : s \in slots_changed(i)}
    <2>1. ASSUME NEW e \in storage_value_entries(i)
          PROVE  \E s \in slots_changed(i) : e = <<Contract, s>>
      <3>1. PICK d \in storage_diffs(txs[i]) : e = <<d.address, d.slot>>
        BY DEF storage_value_entries
      <3>2. PICK p \in Addresses \X Slots :
              p[2] \in changed_slots(txs[i], p[1]) /\ d.address = p[1] /\ d.slot = p[2]
        BY DEF storage_diffs
      <3>3. p[1] = Contract /\ p[2] \in slots_changed(i)
        BY <1>2, <3>2 DEF changed_slots, changed, slots_changed
      <3> QED
        BY <3>1, <3>2, <3>3
    <2>2. ASSUME NEW s \in slots_changed(i) PROVE <<Contract, s>> \in storage_value_entries(i)
      <3> DEFINE p == <<Contract, s>>
                 d == [address |-> p[1], slot |-> p[2],
                       from_value |-> txs[i].before[p[1]].storage[p[2]],
                       to_value |-> txs[i].after[p[1]].storage[p[2]]]
      <3>1. /\ p \in Addresses \X Slots /\ p[1] = Contract /\ p[2] = s
            /\ s \in changed_slots(txs[i], Contract)
        BY DEF Addresses, slots_changed, changed, changed_slots
      <3>2. d.address = p[1] /\ d.slot = p[2]
        OBVIOUS
      <3> HIDE DEF p
      <3>3. p \in {q \in Addresses \X Slots : q[2] \in changed_slots(txs[i], q[1])}
        BY <3>1
      <3>4. d \in storage_diffs(txs[i])
        BY <3>3 DEF storage_diffs
      <3> HIDE DEF d
      <3>5. <<d.address, d.slot>> \in storage_value_entries(i)
        BY <3>4 DEF storage_value_entries
      <3>6. <<d.address, d.slot>> = <<Contract, s>>
        BY <3>1, <3>2
      <3> QED
        BY <3>5, <3>6
    <2> QED
      BY <2>1, <2>2
  <1>4. slots_changed(i) \in SUBSET Slots
    BY DEF slots_changed, changed
  <1>5. IsFiniteSet(slots_changed(i))
    BY <1>4, SlotCount
  <1> DEFINE T == storage_value_entries(i)
             f == [s \in slots_changed(i) |-> <<Contract, s>>]
             h == [p \in T |-> <<i, p>>]
  <1>6. f \in Bijection(slots_changed(i), T)
    BY <1>3 DEF Bijection, Injection, Surjection, IsInjective
  <1>7. ExistsBijection(slots_changed(i), T)
    BY <1>6 DEF ExistsBijection
  <1> HIDE DEF T, f
  <1>8. IsFiniteSet(T) /\ Cardinality(T) = Cardinality(slots_changed(i))
    BY <1>5, <1>7, FS_Bijection
  <1>9. h \in Bijection(T, {<<i, p>> : p \in T})
    BY DEF Bijection, Injection, Surjection, IsInjective
  <1>10. ExistsBijection(T, {<<i, p>> : p \in T})
    BY <1>9 DEF ExistsBijection
  <1>11. /\ IsFiniteSet({<<i, p>> : p \in T})
         /\ Cardinality({<<i, p>> : p \in T}) = Cardinality(T)
    BY <1>8, <1>10, FS_Bijection
  <1> QED
    BY <1>3, <1>8, <1>11 DEF T, count

\* Two sums over the same range are one.
LEMMA SumsTogether ==
  ASSUME NEW n \in Nat, NEW f \in [1..n -> Int], NEW g \in [1..n -> Int],
         NEW e \in [1..n -> Int], \A i \in 1..n : e[i] = f[i] + g[i]
  PROVE  /\ SumFunction(f) \in Int /\ SumFunction(g) \in Int
         /\ SumFunction(e) = SumFunction(f) + SumFunction(g)
  <1>1. PICK hf \in [0..n -> Int] : Totals(hf, f, n) /\ SumFunction(f) = hf[n]
    BY RunningTotals
  <1>2. PICK hg \in [0..n -> Int] : Totals(hg, g, n) /\ SumFunction(g) = hg[n]
    BY RunningTotals
  <1>3. PICK h \in [0..n -> Int] : Totals(h, e, n) /\ SumFunction(e) = h[n]
    BY RunningTotals
  <1> DEFINE P == {k \in 0..n : h[k] = hf[k] + hg[k]}
  <1>4. 0 \in P
    BY <1>1, <1>2, <1>3 DEF Totals
  <1>5. ASSUME NEW k \in 1..n, k - 1 \in P PROVE k \in P
    <2> DEFINE j == k - 1
    <2>1. j \in 0..n /\ k \in 0..n /\ e[k] = f[k] + g[k]
      OBVIOUS
    <2>2. h[j] = hf[j] + hg[j]
      BY <1>5
    <2>3. h[k] = h[j] + e[k] /\ hf[k] = hf[j] + f[k] /\ hg[k] = hg[j] + g[k]
      BY <1>1, <1>2, <1>3 DEF Totals
    <2> HIDE DEF j
    <2>4. hf[j] \in Int /\ hg[j] \in Int /\ f[k] \in Int /\ g[k] \in Int
      BY <2>1
    <2>5. h[k] = hf[k] + hg[k]
      BY <2>1, <2>2, <2>3, <2>4
    <2> QED
      BY <2>1, <2>5
  <1> HIDE DEF P
  <1>6. n \in P
    <2>1. \A k \in 0..n : k \in P
      BY <1>4, <1>5, RangeInduction
    <2> QED
      BY <2>1
  <1>7. h[n] = hf[n] + hg[n]
    BY <1>6 DEF P
  <1>8. hf[n] \in Int /\ hg[n] \in Int
    OBVIOUS
  <1> QED
    BY <1>1, <1>2, <1>3, <1>7, <1>8

\* A sum over slots.
LEMMA SumOverSlots ==
  ASSUME NEW D \in SUBSET Slots, NEW f \in [D -> Int]
  PROVE  SumFunction(f) = (IF 1 \in D THEN f[1] ELSE 0) + (IF 2 \in D THEN f[2] ELSE 0)
  <1>1. IsFiniteSet(D)
    BY SlotCount
  <1>2. PICK g \in [SUBSET D -> Int] : Adds(f, g, D) /\ g[{}] = 0 /\ SumFunction(f) = g[D]
    BY <1>1, SumsOfSubsets
  <1>3. \A s \in SUBSET D : \A x \in s : g[s] = f[x] + g[s \ {x}]
    BY <1>2 DEF Adds
  <1>4. ASSUME NEW x \in D PROVE f[x] \in Int /\ g[{x}] = f[x]
    <2>1. {x} \ {x} = {} /\ {x} \in SUBSET D /\ x \in {x}
      OBVIOUS
    <2>2. g[{x}] = f[x] + g[{x} \ {x}]
      BY <1>3, <2>1
    <2>3. f[x] \in Int
      OBVIOUS
    <2>4. g[{x}] = f[x] + 0
      BY <1>2, <2>1, <2>2
    <2> QED
      BY <2>3, <2>4
  <1>5. CASE 1 \in D /\ 2 \in D
    <2>1. \A x \in D \ {1} : x = 2
      BY DEF Slots
    <2>2. D \ {1} = {2}
      BY <1>5, <2>1
    <2>3. g[D] = f[1] + g[D \ {1}]
      BY <1>3, <1>5
    <2> QED
      BY <1>2, <1>4, <1>5, <2>2, <2>3
  <1>6. CASE 1 \in D /\ 2 \notin D
    <2>1. D = {1}
      BY <1>6 DEF Slots
    <2>2. g[D] = f[1] /\ f[1] \in Int
      BY <1>4, <1>6, <2>1
    <2> QED
      BY <1>2, <1>6, <2>2
  <1>7. CASE 1 \notin D /\ 2 \in D
    <2>1. D = {2}
      BY <1>7 DEF Slots
    <2>2. g[D] = f[2] /\ f[2] \in Int
      BY <1>4, <1>7, <2>1
    <2> QED
      BY <1>2, <1>7, <2>2
  <1>8. CASE 1 \notin D /\ 2 \notin D
    <2>1. D = {}
      BY <1>8 DEF Slots
    <2> QED
      BY <1>2, <1>8, <2>1
  <1> QED
    BY <1>5, <1>6, <1>7, <1>8

\* There are as many entries as the transactions have.
LEMMA EntriesLength ==
  ASSUME NEW V, NEW f, Len(txs) \in Nat, \A i \in 1..Len(txs) : f[i] \in Changes(V)
  PROVE  /\ entries(f) \in Changes(V) /\ Len(entries(f)) \in Nat
         /\ Len(entries(f)) = SumFunction([i \in 1..Len(txs) |-> Len(f[i])])
  <1> DEFINE n == Len(txs)
             E == [index: Nat, value: V]
             g == [i \in 1..n |-> Len(f[i])]
  <1>1. PICK h \in [0..n -> Changes(V)] : Joins(h, f, n) /\ entries(f) = h[n]
    BY EntriesAre
  <1>2. \A c \in Changes(V) : c \in Seq(E) /\ Len(c) \in Nat
    BY DEF Changes
  <1>3. \A i \in 1..n : Len(f[i]) \in Int
    BY <1>2
  <1>4. g \in [1..n -> Int]
    BY <1>3
  <1>5. PICK t \in [0..n -> Int] : Totals(t, g, n) /\ SumFunction(g) = t[n]
    BY <1>4, RunningTotals
  <1> DEFINE P == {k \in 0..n : Len(h[k]) = t[k]}
  <1>6. 0 \in P
    BY <1>1, <1>5 DEF Joins, Totals
  <1>7. ASSUME NEW k \in 1..n, k - 1 \in P PROVE k \in P
    <2> DEFINE own == f[k]
               seen == h[k - 1]
    <2>1. k - 1 \in 0..n /\ k \in 0..n /\ Len(seen) = t[k - 1]
      BY <1>7
    <2>2. own \in Seq(E) /\ seen \in Seq(E)
      BY <1>2, <2>1
    <2>3. h[k] = seen \o own /\ t[k] = t[k - 1] + g[k] /\ g[k] = Len(own)
      BY <1>1, <1>5 DEF Joins, Totals
    <2> HIDE DEF own, seen, P, E, g
    <2>4. Len(seen \o own) = Len(seen) + Len(own)
      BY <2>2
    <2>5. Len(h[k]) = t[k]
      BY <2>1, <2>3, <2>4
    <2> QED
      BY <2>1, <2>5 DEF P
  <1> HIDE DEF P
  <1>8. n \in P
    <2>1. \A k \in 0..n : k \in P
      BY <1>6, <1>7, RangeInduction
    <2> QED
      BY <2>1
  <1>9. Len(h[n]) = t[n]
    BY <1>8 DEF P
  <1>10. h[n] \in Changes(V)
    OBVIOUS
  <1> HIDE DEF E, g
  <1>11. /\ entries(f) \in Changes(V) /\ Len(entries(f)) \in Nat
         /\ Len(entries(f)) = SumFunction(g)
    BY <1>1, <1>2, <1>5, <1>9, <1>10
  <1> QED
    BY <1>11 DEF g

\* The blocks' query counts the storage values of all transactions, each of them
\* the slots it changed.
LEMMA ValuesAddUp ==
  ASSUME BlockInv, ChainInv
  PROVE  LET seen == query_xatu_eip8279_runtime_blocks.storage_value_entries_observed
         IN  /\ seen = SumFunction([i \in 1..Len(txs) |-> count(storage_value_entries(i))])
             /\ seen = SumFunction([i \in 1..Len(txs) |-> Cardinality(slots_changed(i))])
  <1> DEFINE n == Len(txs)
             S == [i \in 1..n |-> {<<i, p>> : p \in storage_value_entries(i)}]
             seen == query_xatu_eip8279_runtime_blocks.storage_value_entries_observed
             e == [i \in 1..n |-> count(storage_value_entries(i))]
             c == [i \in 1..n |-> Cardinality(slots_changed(i))]
             sizes == [i \in 1..n |-> Cardinality(S[i])]
  <1>1. n \in Nat /\ DOMAIN txs = 1..n
    BY BlockIs
  <1>2. ASSUME NEW i \in 1..n
        PROVE  /\ S[i] = {<<i, p>> : p \in storage_value_entries(i)} /\ IsFiniteSet(S[i])
               /\ Cardinality(S[i]) = count(storage_value_entries(i))
               /\ Cardinality(S[i]) = Cardinality(slots_changed(i))
    <2>1. i \in DOMAIN txs
      BY <1>1
    <2>2. S[i] = {<<i, p>> : p \in storage_value_entries(i)}
      OBVIOUS
    <2> HIDE DEF S
    <2> QED
      BY <2>1, <2>2, ValueEntries
  <1>3. e = sizes /\ c = sizes
    BY <1>2
  <1>4. \A i, j \in 1..n : i # j => S[i] \cap S[j] = {}
    OBVIOUS
  <1>5. seen = Cardinality(UNION {S[i] : i \in 1..n})
    <2>1. {{<<i, p>> : p \in storage_value_entries(i)} : i \in DOMAIN txs}
            = {S[i] : i \in 1..n}
      BY <1>1
    <2> HIDE DEF S
    <2> QED
      BY <2>1 DEF query_xatu_eip8279_runtime_blocks, count
  <1> HIDE DEF S, n
  <1>6. Cardinality(UNION {S[i] : i \in 1..n}) = SumFunction(sizes)
    BY <1>1, <1>2, <1>4, UnionCount
  <1>7. seen = SumFunction(e) /\ seen = SumFunction(c)
    BY <1>3, <1>5, <1>6
  <1> QED
    BY <1>7 DEF n

\* The blocks' query counts what the rows of the transactions count.
LEMMA BytesAddUp ==
  ASSUME BlockInv, ChainInv
  PROVE  aggregate_state_execution_runtime_blocks.bal_runtime_bytes_8279
           = bal_runtime_bytes(query_xatu_eip8279_runtime_blocks)
  <1> DEFINE m == Len(txs)
             b == query_xatu_eip8279_runtime_blocks
             f1 == [i \in DOMAIN txs |-> cold(i, {"SLOAD", "SSTORE"})]
             f2 == [i \in 1..m |-> count(storage_value_entries(i))]
             f3 == [i \in DOMAIN txs |-> cold(i, AccountOperations)]
             f4 == [i \in DOMAIN txs |-> valued(i, "CALL")]
             f5 == [i \in DOMAIN txs |-> valued(i, "SELFDESTRUCT")]
             f6 == [i \in DOMAIN txs |-> valued(i, "CREATE")]
             f7 == [i \in DOMAIN txs |-> count(events(i, {"CREATE"}))]
             g == [i \in DOMAIN txs |-> attributed(i).total]
  <1>1. m \in Nat /\ DOMAIN txs = 1..m
    BY BlockIs
  <1>2. ASSUME NEW i \in 1..m
        PROVE  /\ f1[i] \in Int /\ f2[i] \in Int /\ f3[i] \in Int /\ f4[i] \in Int
               /\ f5[i] \in Int /\ f6[i] \in Int /\ f7[i] \in Int /\ g[i] \in Int
               /\ g[i] = bytes_of(f1[i], f2[i], f3[i], f4[i], f5[i], f6[i], f7[i])
    <2> DEFINE n == query_xatu_eip8279_runtime_meter(i)
    <2>1. i \in DOMAIN txs
      BY <1>1
    <2>2. n \in RuntimeCounts
      BY <2>1, RowCounts
    <2>3. /\ f1[i] = n.cold_storage_accesses /\ f2[i] = n.storage_value_entries_observed
          /\ f3[i] = n.cold_account_accesses /\ f4[i] = n.positive_value_calls
          /\ f5[i] = n.positive_value_selfdestructs /\ f6[i] = n.internal_create_endowments
          /\ f7[i] = n.internal_creates
          /\ n.internal_deployed_code_bytes = ContractBytes * n.internal_creates
      BY <2>1 DEF query_xatu_eip8279_runtime_meter
    <2>4. g[i] = bal_runtime_bytes(n)
      BY <2>1 DEF attributed, attribute_direct_state_runtime_bytes
    <2> HIDE DEF n, f1, f2, f3, f4, f5, f6, f7, g
    <2>5. /\ n.cold_storage_accesses \in Int /\ n.storage_value_entries_observed \in Int
          /\ n.cold_account_accesses \in Int /\ n.positive_value_calls \in Int
          /\ n.positive_value_selfdestructs \in Int /\ n.internal_create_endowments \in Int
          /\ n.internal_creates \in Int
      BY <2>2 DEF RuntimeCounts
    <2>6. /\ bal_runtime_bytes(n) \in Int
          /\ bal_runtime_bytes(n)
               = bytes_of(n.cold_storage_accesses, n.storage_value_entries_observed,
                          n.cold_account_accesses, n.positive_value_calls,
                          n.positive_value_selfdestructs, n.internal_create_endowments,
                          n.internal_creates)
      BY <2>3, <2>5, BytesAre
    <2> QED
      BY <2>3, <2>4, <2>5, <2>6
  <1>3. /\ b.cold_storage_accesses = SumFunction(f1)
        /\ b.cold_account_accesses = SumFunction(f3)
        /\ b.positive_value_calls = SumFunction(f4)
        /\ b.positive_value_selfdestructs = SumFunction(f5)
        /\ b.internal_create_endowments = SumFunction(f6)
        /\ b.internal_creates = SumFunction(f7)
        /\ b.internal_deployed_code_bytes = ContractBytes * b.internal_creates
    BY DEF query_xatu_eip8279_runtime_blocks, sum_txs
  <1>4. b.storage_value_entries_observed = SumFunction(f2)
    BY ValuesAddUp
  <1>5. aggregate_state_execution_runtime_blocks.bal_runtime_bytes_8279 = SumFunction(g)
    BY DEF aggregate_state_execution_runtime_blocks, sum_txs
  <1>6. /\ DOMAIN f1 = 1..m /\ DOMAIN f2 = 1..m /\ DOMAIN f3 = 1..m /\ DOMAIN f4 = 1..m
        /\ DOMAIN f5 = 1..m /\ DOMAIN f6 = 1..m /\ DOMAIN f7 = 1..m /\ DOMAIN g = 1..m
        /\ f1 = [i \in 1..m |-> f1[i]] /\ f2 = [i \in 1..m |-> f2[i]]
        /\ f3 = [i \in 1..m |-> f3[i]] /\ f4 = [i \in 1..m |-> f4[i]]
        /\ f5 = [i \in 1..m |-> f5[i]] /\ f6 = [i \in 1..m |-> f6[i]]
        /\ f7 = [i \in 1..m |-> f7[i]] /\ g = [i \in 1..m |-> g[i]]
    BY <1>1
  <1> HIDE DEF m, b, f1, f2, f3, f4, f5, f6, f7, g
  <1>7. /\ f1 \in [1..m -> Int] /\ f2 \in [1..m -> Int] /\ f3 \in [1..m -> Int]
        /\ f4 \in [1..m -> Int] /\ f5 \in [1..m -> Int] /\ f6 \in [1..m -> Int]
        /\ f7 \in [1..m -> Int] /\ g \in [1..m -> Int]
    BY <1>2, <1>6
  <1> DEFINE f == <<f1, f2, f3, f4, f5, f6, f7>>
  <1>8. /\ SumFunction(f1) \in Int /\ SumFunction(f2) \in Int /\ SumFunction(f3) \in Int
        /\ SumFunction(f4) \in Int /\ SumFunction(f5) \in Int /\ SumFunction(f6) \in Int
        /\ SumFunction(f7) \in Int
    BY <1>1, <1>7, SumIsInt
  <1>9. SumFunction(g)
          = bytes_of(SumFunction(f1), SumFunction(f2), SumFunction(f3), SumFunction(f4),
                     SumFunction(f5), SumFunction(f6), SumFunction(f7))
    <2>1. f \in [1..7 -> [1..m -> Int]]
      BY <1>7
    <2>2. /\ f[1] = f1 /\ f[2] = f2 /\ f[3] = f3 /\ f[4] = f4 /\ f[5] = f5
          /\ f[6] = f6 /\ f[7] = f7
      OBVIOUS
    <2> HIDE DEF f
    <2>3. \A i \in 1..m :
            g[i] = bytes_of(f[1][i], f[2][i], f[3][i], f[4][i], f[5][i], f[6][i], f[7][i])
      BY <1>2, <2>2
    <2>4. SumFunction(g)
            = bytes_of(SumFunction(f[1]), SumFunction(f[2]), SumFunction(f[3]),
                       SumFunction(f[4]), SumFunction(f[5]), SumFunction(f[6]),
                       SumFunction(f[7]))
      <3>1. BytesEach(f, g, m)
        BY <1>7, <2>1, <2>3 DEF BytesEach
      <3> QED
        BY <1>1, <3>1, BytesOfSums
    <2> QED
      BY <2>2, <2>4
  <1>10. bal_runtime_bytes(b)
          = bytes_of(b.cold_storage_accesses, b.storage_value_entries_observed,
                     b.cold_account_accesses, b.positive_value_calls,
                     b.positive_value_selfdestructs, b.internal_create_endowments,
                     b.internal_creates)
    BY <1>3, <1>4, <1>8, BytesAre
  <1>11. aggregate_state_execution_runtime_blocks.bal_runtime_bytes_8279
           = bal_runtime_bytes(b)
    BY <1>3, <1>4, <1>5, <1>9, <1>10
  <1> QED
    BY <1>11 DEF b

\* A slot's entries in the list are the transactions that changed it.
LEMMA SlotEntries ==
  ASSUME BlockInv, ChainInv, NEW a \in Addresses, NEW s \in Slots
  PROVE  /\ Len(storage_changes(a, s)) \in Nat
         /\ storage_changes(a, s) = <<>> <=> Len(storage_changes(a, s)) = 0
         /\ Len(storage_changes(a, s))
              = SumFunction([i \in 1..Len(txs) |->
                               Bit(txs[i].before[a].storage[s] # txs[i].after[a].storage[s])])
  <1> DEFINE f == [i \in Transactions |-> own_storage(i, a, s)]
             lengths == [i \in 1..Len(txs) |-> Len(f[i])]
             bits == [i \in 1..Len(txs) |->
                        Bit(txs[i].before[a].storage[s] # txs[i].after[a].storage[s])]
  <1>1. /\ Len(txs) \in Nat /\ DOMAIN txs = 1..Len(txs) /\ Transactions = 1..Len(txs)
        /\ \A i \in 1..Len(txs) : Settled(txs[i])
    BY BlockIs
  <1>2. ASSUME NEW i \in 1..Len(txs)
        PROVE  /\ f[i] \in Changes(Nat)
               /\ Len(f[i]) = Bit(txs[i].before[a].storage[s] # txs[i].after[a].storage[s])
    <2>1. i \in DOMAIN txs /\ Settled(txs[i]) /\ f[i] = own_storage(i, a, s)
      BY <1>1
    <2> HIDE DEF f
    <2>2. /\ f[i] \in Changes(Nat) /\ Len(f[i]) <= 1
          /\ f[i] # <<>> <=> txs[i].before[a].storage[s] # txs[i].after[a].storage[s]
      BY <1>1, <2>1, StorageTold DEF Own
    <2> DEFINE E == [index: Nat, value: Nat]
    <2>3. f[i] \in Seq(E)
      BY <2>2 DEF Changes
    <2> HIDE DEF E
    <2>4. Len(f[i]) \in Nat /\ (Len(f[i]) = 0 <=> f[i] = <<>>)
      BY <2>3
    <2> QED
      BY <2>2, <2>4 DEF Bit
  <1>3. storage_changes(a, s) = entries(f)
    BY EntriesOf
  <1>4. lengths = bits
    BY <1>2
  <1> HIDE DEF f
  <1>5. /\ entries(f) \in Changes(Nat) /\ Len(entries(f)) \in Nat
        /\ Len(entries(f)) = SumFunction(lengths)
    BY <1>1, <1>2, EntriesLength
  <1>6. entries(f) = <<>> <=> Len(entries(f)) = 0
    <2> DEFINE E == [index: Nat, value: Nat]
    <2>1. entries(f) \in Seq(E)
      BY <1>5 DEF Changes
    <2> HIDE DEF E
    <2> QED
      BY <2>1
  <1> QED
    BY <1>3, <1>4, <1>5, <1>6

\* Only the contract has entries of slots.
LEMMA OthersHaveNone ==
  ASSUME BlockInv, ChainInv, NEW a \in Addresses \ {Contract}, NEW s \in Slots
  PROVE  storage_changes(a, s) = <<>>
  <1> DEFINE n == Len(txs)
             bits == [i \in 1..n |->
                        Bit(txs[i].before[a].storage[s] # txs[i].after[a].storage[s])]
  <1>1. n \in Nat /\ \A i \in 1..n : Settled(txs[i])
    BY BlockIs
  <1>2. \A i \in 1..n : txs[i].before[a].storage = txs[i].after[a].storage
    BY <1>1 DEF Settled, ExecutedTransactions, Accounted, SameStorage
  <1>3. \A i \in 1..n : bits[i] = 0
    BY <1>2 DEF Bit
  <1>4. bits \in [1..n -> Int]
    BY DEF Bit
  <1>5. Len(storage_changes(a, s)) = SumFunction(bits)
    BY SlotEntries
  <1> HIDE DEF bits
  <1>6. SumFunction(bits) = 0
    <2>1. 0 \notin 1..n /\ IsFiniteSet(1..n)
      BY <1>1, FS_Interval
    <2> QED
      BY <1>3, <1>4, <2>1, SumOfOne
  <1> QED
    BY <1>5, <1>6, SlotEntries

\* The entries of an account's slots, as the summary adds them up.
slot_entries(a) ==
  add_up(DOMAIN storage_writes(a), LAMBDA s : Len(storage_writes(a)[s]))

\* They are the lengths of the entries of its two slots.
LEMMA SlotEntriesOf ==
  ASSUME BlockInv, ChainInv, NEW a \in Addresses
  PROVE  slot_entries(a) = Len(storage_changes(a, 1)) + Len(storage_changes(a, 2))
  <1> DEFINE D == DOMAIN storage_writes(a)
             f == [s \in D |-> Len(storage_writes(a)[s])]
  <1>1. /\ D = {s \in Slots : storage_changes(a, s) # <<>>}
        /\ \A s \in D : storage_writes(a)[s] = storage_changes(a, s)
    BY DEF storage_writes
  <1>2. \A s \in Slots : /\ Len(storage_changes(a, s)) \in Nat
                         /\ storage_changes(a, s) = <<>> <=> Len(storage_changes(a, s)) = 0
    BY SlotEntries
  <1>3. slot_entries(a) = SumFunction(f)
    BY DEF slot_entries, add_up
  <1> HIDE DEF D
  <1>4. D \in SUBSET Slots /\ f \in [D -> Int]
    BY <1>1, <1>2
  <1>5. \A s \in Slots : Len(storage_changes(a, s)) = IF s \in D THEN f[s] ELSE 0
    BY <1>1, <1>2
  <1> HIDE DEF f
  <1>6. SumFunction(f) = (IF 1 \in D THEN f[1] ELSE 0) + (IF 2 \in D THEN f[2] ELSE 0)
    BY <1>4, SumOverSlots
  <1>7. 1 \in Slots /\ 2 \in Slots
    BY DEF Slots
  <1> QED
    BY <1>3, <1>5, <1>6, <1>7

\* What the summary of the list counts are the slots the transactions changed.
LEMMA ListCounts ==
  ASSUME BlockInv, ChainInv
  PROVE  summarize_accounts(build_accounts(TRUE)).storage_write_changes
           = SumFunction([i \in 1..Len(txs) |-> Cardinality(slots_changed(i))])
  <1> DEFINE list == build_accounts(TRUE)
             D == listed(TRUE)
             f == [a \in D |-> slot_entries(a)]
             n == Len(txs)
             bits(s) == [i \in 1..n |-> Bit(txs[i].before[Contract].storage[s]
                                              # txs[i].after[Contract].storage[s])]
             sizes == [i \in 1..n |-> Cardinality(slots_changed(i))]
  <1>1. n \in Nat /\ 1 \in Slots /\ 2 \in Slots /\ Contract \in Addresses
    BY BlockIs DEF Slots, Addresses
  <1>2. D \in SUBSET Addresses /\ IsFiniteSet(D)
    <2>1. D \in SUBSET Addresses
      BY DEF listed
    <2> QED
      BY <2>1, FiniteWorld, FS_Subset
  <1>3. summarize_accounts(list).storage_write_changes = SumFunction(f)
    <2>1. DOMAIN list = D /\ \A a \in D : list[a].storage_writes = storage_writes(a)
      BY DEF build_accounts
    <2> HIDE DEF list, D
    <2>2. [a \in DOMAIN list |->
             SumFunction([s \in DOMAIN list[a].storage_writes |->
                            Len(list[a].storage_writes[s])])] = f
      BY <2>1 DEF slot_entries, add_up
    <2> HIDE DEF f
    <2> QED
      BY <2>2 DEF summarize_accounts, add_up
  <1>4. \A a \in Addresses : slot_entries(a) \in Int
    BY <1>1, SlotEntriesOf, SlotEntries
  <1>5. \A a \in Addresses \ {Contract} : slot_entries(a) = 0
    BY <1>1, SlotEntriesOf, OthersHaveNone
  <1>6. Contract \notin D => slot_entries(Contract) = 0
    <2>1. ASSUME Contract \notin D PROVE slot_entries(Contract) = 0
      <3>1. storage_writes(Contract) = <<>>
        BY <1>1, <2>1 DEF listed
      <3>2. DOMAIN storage_writes(Contract) = {}
        BY <3>1
      <3> QED
        BY <3>2, SumOfNone DEF slot_entries, add_up
    <2> QED
      BY <2>1
  <1>7. SumFunction(f) = slot_entries(Contract)
    <2>1. f \in [D -> Int] /\ \A a \in D \ {Contract} : f[a] = 0
      BY <1>2, <1>4, <1>5
    <2>2. Contract \in D => f[Contract] = slot_entries(Contract)
      OBVIOUS
    <2> HIDE DEF f, D
    <2>3. SumFunction(f) = IF Contract \in D THEN f[Contract] ELSE 0
      BY <1>2, <2>1, SumOfOne
    <2> QED
      BY <1>6, <2>2, <2>3
  <1>8. /\ Len(storage_changes(Contract, 1)) = SumFunction(bits(1))
        /\ Len(storage_changes(Contract, 2)) = SumFunction(bits(2))
    BY <1>1, SlotEntries
  <1>9. \A i \in 1..n : sizes[i] = bits(1)[i] + bits(2)[i]
    <2>1. ASSUME NEW i \in 1..n
          PROVE  Cardinality(slots_changed(i)) = bits(1)[i] + bits(2)[i]
      <3>1. slots_changed(i) \in SUBSET Slots
        BY DEF slots_changed, changed
      <3>2. Cardinality(slots_changed(i))
              = Bit(1 \in slots_changed(i)) + Bit(2 \in slots_changed(i))
        BY <3>1, SlotCount
      <3>3. \A s \in Slots : s \in slots_changed(i) <=> txs[i].before[Contract].storage[s]
                                                          # txs[i].after[Contract].storage[s]
        BY DEF slots_changed, changed
      <3> QED
        BY <1>1, <3>2, <3>3
    <2> HIDE DEF bits
    <2> QED
      BY <2>1
  <1>10. bits(1) \in [1..n -> Int] /\ bits(2) \in [1..n -> Int] /\ sizes \in [1..n -> Int]
    <2>1. \A i \in 1..n : slots_changed(i) \in SUBSET Slots
      BY DEF slots_changed, changed
    <2>2. \A i \in 1..n : Cardinality(slots_changed(i)) \in Int
      BY <2>1, SlotCount
    <2> QED
      BY <2>2 DEF Bit
  <1> DEFINE one == bits(1)
             two == bits(2)
  <1>11. /\ one \in [1..n -> Int] /\ two \in [1..n -> Int] /\ sizes \in [1..n -> Int]
         /\ \A i \in 1..n : sizes[i] = one[i] + two[i]
    BY <1>9, <1>10
  <1>12. /\ Len(storage_changes(Contract, 1)) = SumFunction(one)
         /\ Len(storage_changes(Contract, 2)) = SumFunction(two)
    BY <1>8
  <1> HIDE DEF one, two, sizes, bits, n, list, f
  <1>13. SumFunction(sizes) = SumFunction(one) + SumFunction(two)
    BY <1>1, <1>11, SumsTogether
  <1>14. slot_entries(Contract)
           = Len(storage_changes(Contract, 1)) + Len(storage_changes(Contract, 2))
    BY <1>1, SlotEntriesOf
  <1>15. summarize_accounts(list).storage_write_changes = SumFunction(sizes)
    BY <1>3, <1>7, <1>12, <1>13, <1>14
  <1> QED
    BY <1>15 DEF sizes, list, n

\* RuntimeReconciles, in every block: the attribution of no transaction is
\* refused and counts no account twice, the bytes of the block are those of its
\* transactions, and the storage values of the tables are the writes of the list.
THEOREM RuntimeHolds == Spec => []RuntimeReconciles
  <1>1. ASSUME BlockInv, ChainInv PROVE RuntimeReconciles
    <2>1. ASSUME NEW i \in DOMAIN txs
          PROVE  LET n == query_xatu_eip8279_runtime_meter(i)
                     s == query_xatu_tx_state_creation(i)
                 IN  /\ ~refused(n, s)
                     /\ matched_create_accounts(n, s) + matched_account_accesses(n, s)
                          <= s.new_accounts
      <3>1. /\ query_xatu_eip8279_runtime_meter(i) \in RuntimeCounts
            /\ query_xatu_tx_state_creation(i) \in StateCreation
        BY <1>1, <2>1, RowCounts
      <3> QED
        BY <3>1, AttributionNeverRefused, CreatedOnce
    <2>2. ~aggregation_refused
      BY <2>1 DEF aggregation_refused
    <2>3. aggregate_state_execution_runtime_blocks.bal_runtime_bytes_8279
            = bal_runtime_bytes(query_xatu_eip8279_runtime_blocks)
      BY <1>1, BytesAddUp
    <2>4. query_xatu_eip8279_runtime_blocks.storage_value_entries_observed
            = summarize_accounts(build_accounts(TRUE)).storage_write_changes
      BY <1>1, ValuesAddUp, ListCounts
    <2> QED
      BY <2>1, <2>2, <2>3, <2>4 DEF RuntimeReconciles
  <1> QED
    BY <1>1, BlockInvariant, ChainInvariant, PTL

-----------------------------------------------------------------------------
(* State growth.                                                           *)

\* A transaction and a world it made: only at "new", and by a create, has code
\* become a contract, and the balance and the code there are not lost.
Grown(tx, w) ==
  /\ \A a \in Addresses \ {"new"} : w[a].code = tx.before[a].code \/ w[a].code # "contract"
  /\ w["new"].balance >= tx.before["new"].balance
  /\ \/ w["new"].code = tx.before["new"].code
     \/ w["new"].code = "contract" /\ "new" \in tx.created

\* The block starts from a world in which only "new" is empty, and a failing
\* transaction makes no contract.
GrowthInv ==
  /\ parent = Parent
  /\ \A i \in 1..Len(txs) :
       /\ Grown(txs[i], txs[i].after)
       /\ txs[i].failed => txs[i].after["new"].code = txs[i].before["new"].code
  /\ open # Closed =>
       /\ Grown(open, world) /\ Grown(open, open.started)
       /\ open.started["new"].code = open.before["new"].code

\* Nothing has been executed yet.
LEMMA GrowthInit == Init => GrowthInv
  BY DEF Init, GrowthInv

\* Paying the fee and setting the sender's delegation makes no contract.
LEMMA GrowthBegin ==
  ASSUME BlockInv, GrowthInv, NEW evs, evs = <<>> \/ \E a \in Authorization : evs = <<a>>,
         Begin(evs)
  PROVE  GrowthInv'
  <1> DEFINE tip == effective_gas_price - base_fee_per_gas
             moved == move(world, Sender, fee_recipient, tip)
             started == [moved EXCEPT
                           ![Sender].balance = @ - base_fee_per_gas,
                           ![Sender].nonce = @ + 1,
                           ![Sender].code = IF evs = <<>> THEN @ ELSE evs[1].code]
  <1>1. world \in World /\ scenario \in Scenarios
    BY DEF BlockInv, WorldInv
  <1>2. /\ Sender \in Addresses /\ fee_recipient \in Addresses
        /\ "new" \in Addresses /\ Sender # "new"
    BY <1>1, ScenarioAssumption DEF Addresses, fee_recipient, Sender
  <1>3. /\ world' = started
        /\ open' = [before |-> world, started |-> started,
                    touched |-> {Sender, Contract, fee_recipient},
                    slots |-> {}, created |-> {}, reverts |-> FALSE, events |-> evs]
        /\ world[Sender].balance >= effective_gas_price
        /\ UNCHANGED <<parent, txs>>
    BY DEF Begin
  <1>4. tip = 1 /\ tip \in Nat
    BY DEF effective_gas_price, base_fee_per_gas
  <1>5. ASSUME NEW a \in Addresses
        PROVE  /\ moved[a].code = world[a].code
               /\ moved[a].balance = world[a].balance - (IF a = Sender THEN 1 ELSE 0)
                                                      + (IF a = fee_recipient THEN 1 ELSE 0)
    <2> HIDE DEF tip
    <2> QED
      BY <1>1, <1>2, <1>4, <1>5, MovedFields
  <1>6. DOMAIN moved = Addresses /\ moved[Sender] \in AnAccount
    <2>1. world[Sender].balance \in Nat
      BY <1>1, <1>2 DEF World, AnAccount
    <2>2. world[Sender].balance >= 2
      BY <1>3 DEF effective_gas_price
    <2> HIDE DEF tip
    <2>3. move(world, Sender, fee_recipient, tip) \in World
      <3>1. world[Sender].balance >= tip
        BY <1>4, <2>1, <2>2
      <3> QED
        BY <1>1, <1>2, <1>4, <3>1, Moved
    <2> QED
      BY <1>2, <2>3 DEF World
  <1> DEFINE b == moved[Sender].balance - base_fee_per_gas
             n == moved[Sender].nonce + 1
             c == IF evs = <<>> THEN moved[Sender].code ELSE evs[1].code
             sender == [moved[Sender] EXCEPT !.balance = b, !.nonce = n, !.code = c]
  <1>7. ASSUME NEW a \in Addresses
        PROVE  started[a] = IF a = Sender THEN sender ELSE moved[a]
    <2> HIDE DEF moved
    <2> QED
      BY <1>2, <1>6
  <1>8. sender.code = c
    <2> HIDE DEF moved, b, n, c
    <2> QED
      BY <1>6 DEF AnAccount
  <1>9. c = world[Sender].code \/ c # "contract"
    <2>1. CASE evs = <<>>
      BY <1>2, <1>5, <2>1
    <2>2. CASE evs # <<>>
      <3>1. PICK a \in Authorization : evs = <<a>>
        BY <2>2
      <3>2. a.code \in {"", "delegation"}
        BY DEF Authorization
      <3> QED
        BY <2>2, <3>1, <3>2
    <2> QED
      BY <2>1, <2>2
  <1> HIDE DEF c
  <1>10. \A a \in Addresses \ {"new"} :
           started[a].code = world[a].code \/ started[a].code # "contract"
    <2> HIDE DEF sender, started, moved
    <2> QED
      BY <1>5, <1>7, <1>8, <1>9
  <1>11. /\ started["new"].code = world["new"].code
         /\ started["new"].balance >= world["new"].balance
    <2>1. world["new"].balance \in Nat
      BY <1>1, <1>2 DEF World, AnAccount
    <2>2. started["new"] = moved["new"]
      <3> HIDE DEF started, sender, moved
      <3> QED
        BY <1>2, <1>7
    <2> HIDE DEF started, sender, moved
    <2> QED
      BY <1>2, <1>5, <2>1, <2>2
  <1> HIDE DEF started
  <1>12. open'.before = world /\ open'.started = started /\ open'.created = {}
    BY <1>3
  <1>13. /\ Grown(open, world)' /\ Grown(open, open.started)'
         /\ open'.started["new"].code = open'.before["new"].code
    BY <1>3, <1>10, <1>11, <1>12 DEF Grown
  <1> QED
    BY <1>3, <1>13 DEF GrowthInv, Grown

\* A step that records an operation makes a contract only where it creates.
LEMMA GrowthGrows ==
  ASSUME BlockInv, GrowthInv, open # Closed,
         NEW w, NEW touched \in SUBSET Addresses, NEW slots \in SUBSET Slots,
         NEW created \in SUBSET {"new"}, NEW reverts \in BOOLEAN, NEW e,
         \A a \in Addresses \ {"new"} : w[a].code = world[a].code,
         w["new"].balance \in Nat, w["new"].balance >= world["new"].balance,
         w["new"].code = world["new"].code \/ (w["new"].code = "contract" /\ "new" \in created),
         world' = IF reverts THEN world ELSE w,
         open' = recorded(touched, slots, created, reverts, e),
         UNCHANGED <<scenario, parent, txs, withdrawals>>
  PROVE  GrowthInv'
  <1>1. /\ open \in Opened /\ world \in World /\ open.before \in World
    BY DEF BlockInv, WorldInv, OpenInv, Opened
  <1>2. /\ open'.before = open.before /\ open'.started = open.started
        /\ open'.created = open.created \cup created
    BY <1>1 DEF recorded, Opened
  <1>3. /\ parent = Parent
        /\ Grown(open, world) /\ Grown(open, open.started)
        /\ open.started["new"].code = open.before["new"].code
    BY DEF GrowthInv
  <1>4. /\ "new" \in Addresses
        /\ world["new"].balance \in Nat /\ open.before["new"].balance \in Nat
    BY <1>1 DEF Addresses, World, AnAccount
  <1>5. \A a \in Addresses \ {"new"} :
          world'[a].code = open.before[a].code \/ world'[a].code # "contract"
    BY <1>3 DEF Grown
  <1>6. world'["new"].balance >= open.before["new"].balance
    BY <1>3, <1>4 DEF Grown
  <1>7. \/ world'["new"].code = open.before["new"].code
        \/ world'["new"].code = "contract" /\ "new" \in open'.created
    BY <1>2, <1>3 DEF Grown
  <1>8. Grown(open, world)'
    BY <1>2, <1>5, <1>6, <1>7 DEF Grown
  <1>9. Grown(open, open.started)' /\ open'.started["new"].code = open'.before["new"].code
    BY <1>2, <1>3 DEF Grown
  <1> QED
    BY <1>3, <1>8, <1>9 DEF GrowthInv, Grown

\* Only a create makes a contract, and no operation takes from "new".
LEMMA GrowthOperate ==
  ASSUME BlockInv, GrowthInv, NEW o \in Operations, NEW reverts \in BOOLEAN, Operate(o, reverts)
  PROVE  GrowthInv'
  <1>1. /\ open # Closed /\ UNCHANGED <<scenario, parent, txs, withdrawals>>
        /\ world \in World
    BY DEF Operate, BlockInv, WorldInv
  <1>2. /\ Contract \in Addresses /\ "new" \in Addresses /\ Contract # "new"
        /\ world[Contract].balance \in Nat /\ world["new"].balance \in Nat
    BY <1>1 DEF Addresses, Contract, World, AnAccount
  <1>3. ASSUME NEW to \in Addresses, NEW value \in Nat
        PROVE  /\ \A a \in Addresses : move(world, Contract, to, value)[a].code = world[a].code
               /\ move(world, Contract, to, value)["new"].balance \in Nat
               /\ move(world, Contract, to, value)["new"].balance >= world["new"].balance
    <2> DEFINE w == move(world, Contract, to, value)
    <2>1. \A a \in Addresses : w[a].code = world[a].code
      BY <1>1, <1>2, MovedFields
    <2>2. w["new"].balance = world["new"].balance - (IF "new" = Contract THEN value ELSE 0)
                                                  + (IF "new" = to THEN value ELSE 0)
      BY <1>1, <1>2, MovedFields
    <2> HIDE DEF w
    <2>3. w["new"].balance \in Nat /\ w["new"].balance >= world["new"].balance
      BY <1>2, <2>2
    <2> QED
      BY <2>1, <2>3 DEF w
  <1>4. ASSUME NEW to \in Addresses, NEW value \in Nat, NEW e,
               world' = IF reverts THEN world ELSE move(world, Contract, to, value),
               open' = recorded({to}, {}, {}, reverts, e)
        PROVE  GrowthInv'
    <2> DEFINE w == move(world, Contract, to, value)
    <2>1. /\ \A a \in Addresses \ {"new"} : w[a].code = world[a].code
          /\ w["new"].balance \in Nat /\ w["new"].balance >= world["new"].balance
          /\ w["new"].code = world["new"].code
      BY <1>2, <1>3
    <2>2. world' = IF reverts THEN world ELSE w
      BY <1>4
    <2> HIDE DEF w
    <2> QED
      BY <1>1, <1>4, <2>1, <2>2, GrowthGrows
  <1>5. CASE /\ o.op = "CALL" /\ world[Contract].balance >= o.value
             /\ world' = IF reverts THEN world ELSE move(world, Contract, o.to, o.value)
             /\ open' = recorded({o.to}, {}, {}, reverts,
                                 event("CALL", o.to \notin open.touched, o.value, o.to))
    <2>1. o.to \in Addresses /\ o.value \in Nat
      BY <1>5 DEF Operations
    <2> QED
      BY <1>4, <1>5, <2>1
  <1>6. CASE /\ o.op = "SLOAD"
             /\ world' = IF reverts THEN world ELSE world
             /\ open' = recorded({}, {o.slot}, {}, reverts,
                                 event("SLOAD", o.slot \notin open.slots, 0, Contract))
    <2> DEFINE e == event("SLOAD", o.slot \notin open.slots, 0, Contract)
    <2>1. {o.slot} \in SUBSET Slots
      BY <1>6 DEF Operations
    <2>2. open' = recorded({}, {o.slot}, {}, reverts, e)
      BY <1>6
    <2>3. world["new"].balance >= world["new"].balance
      BY <1>2
    <2> HIDE DEF e
    <2> QED
      BY <1>1, <1>2, <1>6, <2>1, <2>2, <2>3, GrowthGrows
  <1>7. CASE /\ o.op = "SSTORE"
             /\ world' = IF reverts THEN world
                         ELSE [world EXCEPT ![Contract].storage[o.slot] = o.value]
             /\ open' = recorded({}, {o.slot}, {}, reverts,
                                 store_event(o.slot, o.value, o.slot \notin open.slots, reverts))
    <2> DEFINE e == store_event(o.slot, o.value, o.slot \notin open.slots, reverts)
               w == [world EXCEPT ![Contract].storage[o.slot] = o.value]
    <2>1. {o.slot} \in SUBSET Slots
      BY <1>7 DEF Operations
    <2>2. open' = recorded({}, {o.slot}, {}, reverts, e) /\ world' = IF reverts THEN world ELSE w
      BY <1>7
    <2>3. \A a \in Addresses : a # Contract => w[a] = world[a]
      BY <1>1 DEF World
    <2>4. w[Contract].code = world[Contract].code
      BY <1>1, <1>2 DEF World, AnAccount
    <2>5. world["new"].balance >= world["new"].balance
      BY <1>2
    <2> HIDE DEF e, w
    <2>6. /\ \A a \in Addresses \ {"new"} : w[a].code = world[a].code
          /\ w["new"] = world["new"]
      BY <1>2, <2>3, <2>4
    <2> QED
      BY <1>1, <1>2, <2>1, <2>2, <2>5, <2>6, GrowthGrows
  <1>8. CASE /\ o.op = "CREATE"
             /\ world["new"].nonce = 0 /\ world[Contract].balance >= o.value
             /\ world' = IF reverts THEN world
                         ELSE [move(world, Contract, "new", o.value) EXCEPT
                                 ![Contract].nonce = @ + 1,
                                 !["new"].nonce = 1, !["new"].code = "contract"]
             /\ open' = recorded({"new"}, {}, {"new"}, reverts,
                                 event("CREATE", FALSE, o.value, "new"))
    <2>1. o.value \in Nat
      BY <1>8 DEF Operations
    <2> DEFINE moved == move(world, Contract, "new", o.value)
               w == [moved EXCEPT ![Contract].nonce = @ + 1,
                                  !["new"].nonce = 1, !["new"].code = "contract"]
               e == event("CREATE", FALSE, o.value, "new")
    <2>2. moved \in World
      BY <1>1, <1>2, <1>8, <2>1, Moved
    <2>3. /\ \A a \in Addresses : moved[a].code = world[a].code
          /\ moved["new"].balance \in Nat /\ moved["new"].balance >= world["new"].balance
      BY <1>2, <1>3, <2>1
    <2>4. /\ world' = IF reverts THEN world ELSE w
          /\ open' = recorded({"new"}, {}, {"new"}, reverts, e)
      BY <1>8
    <2> HIDE DEF moved, e
    <2>5. \A a \in Addresses \ {"new"} : w[a].code = world[a].code
      <3>1. \A a \in Addresses : a \notin {"new", Contract} => w[a] = moved[a]
        BY <2>2 DEF World
      <3>2. w[Contract].code = moved[Contract].code
        <4>1. moved[Contract] \in AnAccount
          BY <1>2, <2>2 DEF World
        <4> DEFINE c == [moved[Contract] EXCEPT !.nonce = @ + 1]
        <4>2. w[Contract] = c
          BY <1>2, <2>2 DEF World
        <4>3. c.code = moved[Contract].code
          BY <4>1 DEF AnAccount
        <4> HIDE DEF w, c
        <4> QED
          BY <4>2, <4>3
      <3> HIDE DEF w
      <3> QED
        BY <1>2, <2>3, <3>1, <3>2
    <2>6. w["new"].code = "contract" /\ w["new"].balance = moved["new"].balance
      <3>1. moved["new"] \in AnAccount
        BY <1>2, <2>2 DEF World
      <3> DEFINE c == [moved["new"] EXCEPT !.nonce = 1, !.code = "contract"]
      <3>2. w["new"] = c
        BY <1>2, <2>2, <3>1 DEF World, AnAccount
      <3>3. c.code = "contract" /\ c.balance = moved["new"].balance
        BY <3>1 DEF AnAccount
      <3> HIDE DEF w, c
      <3> QED
        BY <3>2, <3>3
    <2> HIDE DEF w
    <2> QED
      BY <1>1, <1>2, <2>3, <2>4, <2>5, <2>6, GrowthGrows
  <1>9. CASE /\ o.op = "SELFDESTRUCT"
             /\ world' = IF reverts THEN world
                         ELSE move(world, Contract, o.to, world[Contract].balance)
             /\ open' = recorded({o.to}, {}, {}, reverts,
                                 event("SELFDESTRUCT", o.to \notin open.touched,
                                       world[Contract].balance, o.to))
    <2>1. o.to \in Addresses
      BY <1>9 DEF Operations
    <2> QED
      BY <1>2, <1>4, <1>9, <2>1
  <1> QED
    BY <1>5, <1>6, <1>7, <1>8, <1>9 DEF Operate, recorded

\* A failing transaction leaves the world it started.
LEMMA GrowthClose ==
  ASSUME BlockInv, GrowthInv, NEW fails \in BOOLEAN, Close(fails)
  PROVE  GrowthInv'
  <1>1. /\ txs \in Seq(ExecutedTransactions) /\ parent = Parent
        /\ Grown(open, world) /\ Grown(open, open.started)
        /\ open.started["new"].code = open.before["new"].code
    BY DEF Close, BlockInv, GrowthInv
  <1>2. /\ world' = IF fails THEN open.started ELSE world
        /\ open' = Closed /\ parent' = parent
    BY DEF Close
  <1> DEFINE tx == [before |-> open.before, after |-> world', touched |-> open.touched,
                    slots |-> open.slots, created |-> open.created,
                    reverts |-> open.reverts, events |-> open.events, failed |-> fails]
  <1>3. txs' = Append(txs, tx)
    BY DEF Close
  <1>4. /\ tx.before = open.before /\ tx.after = world'
        /\ tx.created = open.created /\ tx.failed = fails
    OBVIOUS
  <1> HIDE DEF tx
  <1>5. PICK n \in Nat : n = Len(txs)
    BY <1>1
  <1>6. /\ Len(txs') = n + 1 /\ txs'[n + 1] = tx
        /\ \A i \in 1..n : txs'[i] = txs[i]
    BY <1>1, <1>3, <1>5
  <1>7. /\ Grown(tx, tx.after)
        /\ fails => tx.after["new"].code = tx.before["new"].code
    BY <1>1, <1>2, <1>4 DEF Grown
  <1>8. ASSUME NEW i \in 1..(n + 1)
        PROVE  /\ Grown(txs'[i], txs'[i].after)
               /\ txs'[i].failed => txs'[i].after["new"].code = txs'[i].before["new"].code
    <2>1. CASE i \in 1..n
      BY <1>5, <1>6, <2>1 DEF GrowthInv
    <2>2. CASE i = n + 1
      BY <1>4, <1>6, <1>7, <2>2
    <2> QED
      BY <2>1, <2>2
  <1> QED
    BY <1>1, <1>2, <1>6, <1>8 DEF GrowthInv, Grown

\* Only at "new", and by a create of a transaction that does not fail, does a
\* block make a contract; what is there stays.
THEOREM GrowthInvariant == Spec => []GrowthInv
  <1>1. ASSUME BlockInv, GrowthInv, [Next]_vars PROVE GrowthInv'
    <2>1. CASE Begin(<<>>)
      BY <1>1, <2>1, GrowthBegin
    <2>2. ASSUME NEW o \in scenario.repertoire, o.op = "AUTHORIZE", Begin(<<o>>)
          PROVE  GrowthInv'
      <3>1. o \in Operations
        BY <1>1, ScenarioAssumption DEF BlockInv, WorldInv
      <3>2. o \in Authorization
        BY <2>2, <3>1 DEF Operations, Authorization
      <3>3. \E a \in Authorization : <<o>> = <<a>>
        BY <3>2
      <3> QED
        BY <1>1, <2>2, <3>3, GrowthBegin
    <2>3. ASSUME NEW o \in scenario.repertoire, NEW reverts \in BOOLEAN, Operate(o, reverts)
          PROVE  GrowthInv'
      <3>1. o \in Operations
        BY <1>1, ScenarioAssumption DEF BlockInv, WorldInv
      <3> QED
        BY <1>1, <2>3, <3>1, GrowthOperate
    <2>4. ASSUME NEW fails \in BOOLEAN, Close(fails) PROVE GrowthInv'
      BY <1>1, <2>4, GrowthClose
    <2>5. CASE Withdraw("new")
      BY <1>1, <2>5 DEF Withdraw, GrowthInv, Grown
    <2>6. CASE UNCHANGED vars
      BY <1>1, <2>6 DEF vars, GrowthInv, Grown
    <2> QED
      BY <1>1, <2>1, <2>2, <2>3, <2>4, <2>5, <2>6 DEF Next
  <1> QED
    BY <1>1, GrowthInit, BlockInvariant, PTL DEF Spec

\* The slots a transaction finds empty and leaves full, and the row of a slot.
slots_made(i) ==
  {p \in Addresses \X Slots : /\ txs[i].before[p[1]].storage[p[2]] = 0
                              /\ txs[i].after[p[1]].storage[p[2]] # 0}

row_of(i, p) ==
  [address |-> p[1], slot |-> p[2],
   from_value |-> txs[i].before[p[1]].storage[p[2]],
   to_value |-> txs[i].after[p[1]].storage[p[2]]]

\* The rows of the tables and the trace show the slots a transaction made, and
\* a failing one makes none.
LEMMA SlotsMade ==
  ASSUME BlockInv, ChainInv, NEW i \in 1..Len(txs)
  PROVE  /\ {<<d.address, d.slot>> : d \in zero_to_nonzero(i)} = slots_made(i)
         /\ new_slots(i) = slots_made(i)
         /\ IsFiniteSet(slots_made(i))
         /\ count(zero_to_nonzero(i)) = Cardinality(slots_made(i))
         /\ txs[i].failed => slots_made(i) = {}
  <1>1. Settled(txs[i])
    BY BlockIs
  <1>2. zero_to_nonzero(i) = {row_of(i, p) : p \in slots_made(i)}
    <2>1. ASSUME NEW d \in zero_to_nonzero(i) PROVE d \in {row_of(i, p) : p \in slots_made(i)}
      <3>1. d \in storage_diffs(txs[i]) /\ d.from_value = 0 /\ d.to_value # 0
        BY DEF zero_to_nonzero
      <3>2. PICK p \in Addresses \X Slots : d = row_of(i, p)
        BY <3>1 DEF storage_diffs, row_of
      <3>3. p \in slots_made(i)
        BY <3>1, <3>2 DEF row_of, slots_made
      <3> QED
        BY <3>2, <3>3
    <2>2. ASSUME NEW p \in slots_made(i) PROVE row_of(i, p) \in zero_to_nonzero(i)
      <3>1. /\ p \in Addresses \X Slots
            /\ txs[i].before[p[1]].storage[p[2]] = 0
            /\ txs[i].after[p[1]].storage[p[2]] # 0
        BY DEF slots_made
      <3>2. p \in {q \in Addresses \X Slots : q[2] \in changed_slots(txs[i], q[1])}
        <4>1. p[2] \in Slots
          BY <3>1
        <4>2. p[2] \in changed_slots(txs[i], p[1])
          BY <3>1, <4>1 DEF changed_slots
        <4> QED
          BY <3>1, <4>2
      <3>3. row_of(i, p) \in storage_diffs(txs[i])
        BY <3>2 DEF storage_diffs, row_of
      <3>4. row_of(i, p).from_value = 0 /\ row_of(i, p).to_value # 0
        BY <3>1 DEF row_of
      <3> QED
        BY <3>3, <3>4 DEF zero_to_nonzero
    <2> QED
      BY <2>1, <2>2
  <1>3. \A p \in slots_made(i) : <<row_of(i, p).address, row_of(i, p).slot>> = p
    BY DEF row_of, slots_made
  <1>4. {<<d.address, d.slot>> : d \in zero_to_nonzero(i)} = slots_made(i)
    BY <1>2, <1>3
  <1>5. new_slots(i) = slots_made(i)
    <2>1. ASSUME NEW p \in Addresses \X Slots
          PROVE  /\ p[2] \in DOMAIN field(diff_post(txs[i]), p[1], "storage", <<>>)
                 /\ p[2] \notin DOMAIN field(diff_pre(txs[i]), p[1], "storage", <<>>)
                 <=> p \in slots_made(i)
      <3> DEFINE a == p[1]
                 s == p[2]
                 b == txs[i].before[a].storage[s]
                 n == txs[i].after[a].storage[s]
                 pre == field(diff_pre(txs[i]), a, "storage", <<>>)
                 post == field(diff_post(txs[i]), a, "storage", <<>>)
      <3>1. a \in Addresses /\ s \in Slots
        OBVIOUS
      <3>2. /\ a \in DOMAIN diff_post(txs[i]) <=> txs[i].before[a] # txs[i].after[a]
            /\ a \in DOMAIN diff_pre(txs[i]) <=> /\ txs[i].before[a] # txs[i].after[a]
                                                 /\ a \notin blank_created(txs[i])
            /\ a \in blank_created(txs[i]) => txs[i].before[a].storage = txs[i].after[a].storage
        BY <1>1, <3>1, TracedAccount
      <3> HIDE DEF a, s
      <3>3. s \in changed_slots(txs[i], a) <=> b # n
        BY <3>1 DEF changed_slots
      <3>4. s \in DOMAIN pre <=> a \in DOMAIN diff_pre(txs[i]) /\ b # n /\ b # 0
        <4>1. ASSUME a \in DOMAIN diff_pre(txs[i])
              PROVE  s \in DOMAIN diff_pre(txs[i])[a].storage <=> b # n /\ b # 0
          <5> DEFINE held == {x \in changed_slots(txs[i], a) : txs[i].before[a].storage[x] # 0}
          <5>1. diff_pre(txs[i])[a].storage = [x \in held |-> txs[i].before[a].storage[x]]
            BY <4>1 DEF diff_pre, traced
          <5>2. s \in held <=> b # n /\ b # 0
            BY <3>3
          <5> HIDE DEF held
          <5> QED
            BY <5>1, <5>2
        <4>2. pre = IF a \in DOMAIN diff_pre(txs[i])
                    THEN diff_pre(txs[i])[a].storage ELSE <<>>
          BY DEF field
        <4>3. s \notin DOMAIN <<>>
          OBVIOUS
        <4> HIDE DEF pre, b, n
        <4> QED
          BY <4>1, <4>2, <4>3
      <3>5. s \in DOMAIN post <=> a \in DOMAIN diff_post(txs[i]) /\ b # n /\ n # 0
        <4>1. ASSUME a \in DOMAIN diff_post(txs[i])
              PROVE  s \in DOMAIN diff_post(txs[i])[a].storage <=> b # n /\ n # 0
          <5> DEFINE has == {x \in changed_slots(txs[i], a) : txs[i].after[a].storage[x] # 0}
          <5>1. diff_post(txs[i])[a].storage = [x \in has |-> txs[i].after[a].storage[x]]
            BY <4>1 DEF diff_post
          <5>2. s \in has <=> b # n /\ n # 0
            BY <3>3
          <5> HIDE DEF has
          <5> QED
            BY <5>1, <5>2
        <4>2. post = IF a \in DOMAIN diff_post(txs[i])
                     THEN diff_post(txs[i])[a].storage ELSE <<>>
          BY DEF field
        <4>3. s \notin DOMAIN <<>>
          OBVIOUS
        <4> HIDE DEF post, b, n
        <4> QED
          BY <4>1, <4>2, <4>3
      <3>6. /\ txs[i].before[a] = txs[i].after[a] => b = n
            /\ a \in blank_created(txs[i]) => b = n
        BY <3>2
      <3>7. p \in slots_made(i) <=> b = 0 /\ n # 0
        BY DEF slots_made, a, s
      <3> HIDE DEF b, n, pre, post
      <3>8. s \in DOMAIN post /\ s \notin DOMAIN pre <=> b = 0 /\ n # 0
        BY <3>2, <3>4, <3>5, <3>6
      <3> QED
        BY <3>7, <3>8 DEF pre, post, a, s
    <2>2. slots_made(i) \subseteq Addresses \X Slots
      BY DEF slots_made
    <2> QED
      BY <2>1, <2>2 DEF new_slots
  <1>6. IsFiniteSet(slots_made(i))
    <2>1. slots_made(i) \in SUBSET (Addresses \X Slots)
      BY DEF slots_made
    <2> QED
      BY <2>1, FiniteWorld, FS_Subset
  <1>7. count(zero_to_nonzero(i)) = Cardinality(slots_made(i))
    <2> DEFINE S == slots_made(i)
               T == zero_to_nonzero(i)
               f == [p \in S |-> row_of(i, p)]
    <2>1. f \in Bijection(S, T)
      <3>1. \A p, q \in S : row_of(i, p) = row_of(i, q) => p = q
        BY <1>3
      <3> QED
        BY <1>2, <3>1 DEF Bijection, Injection, Surjection, IsInjective
    <2>2. ExistsBijection(S, T)
      BY <2>1 DEF ExistsBijection
    <2> HIDE DEF S, T
    <2>3. Cardinality(T) = Cardinality(S)
      BY <1>6, <2>2, FS_Bijection DEF S
    <2> QED
      BY <2>3 DEF S, T, count
  <1>8. ASSUME txs[i].failed PROVE slots_made(i) = {}
    <2>1. \A a \in Addresses : txs[i].before[a].storage = txs[i].after[a].storage
      BY <1>1, <1>8 DEF Settled, ExecutedTransactions, SameStorage
    <2> QED
      BY <2>1 DEF slots_made
  <1> QED
    BY <1>4, <1>5, <1>6, <1>7, <1>8

\* What is in a slot at the end and was not before the block, a transaction made.
LEMMA StillNewWasMade ==
  ASSUME BlockInv, ChainInv, open = Closed, NEW p \in Addresses \X Slots,
         parent[p[1]].storage[p[2]] = 0, world[p[1]].storage[p[2]] # 0
  PROVE  \E i \in 1..Len(txs) : p \in slots_made(i)
  <1> DEFINE a == p[1]
             s == p[2]
             n == Len(txs)
             P == {k \in 0..n : left_by(k)[a].storage[s] # 0
                                  => \E i \in 1..n : p \in slots_made(i)}
  <1>1. /\ n \in Nat /\ left_by(0) = parent
        /\ \A i \in 1..n : txs[i].before = left_by(i - 1) /\ txs[i].after = left_by(i)
        /\ left_by(n) \in World
    <2>1. n \in Nat /\ left_by(0) = parent /\ \A i \in 0..n : left_by(i) \in World
      BY BlockIs
    <2>2. n \in 0..n
      BY <2>1
    <2> QED
      BY <2>1, <2>2, BlockIs
  <1>2. a \in Addresses /\ s \in Slots
    OBVIOUS
  <1>3. 0 \in P
    BY <1>1
  <1>4. ASSUME NEW k \in 1..n, k - 1 \in P PROVE k \in P
    <2>1. CASE left_by(k - 1)[a].storage[s] = 0
      BY <1>1, <1>4, <2>1 DEF slots_made
    <2>2. CASE left_by(k - 1)[a].storage[s] # 0
      BY <1>4, <2>2
    <2> QED
      BY <2>1, <2>2
  <1>5. left_by(n)[a].storage[s] # 0
    <2> DEFINE old == left_by(n)[a]
    <2>1. old \in AnAccount
      BY <1>1, <1>2 DEF World
    <2>2. world[a] = [old EXCEPT !.balance =
                        @ + (IF a = "new" THEN Len(withdrawals) ELSE 0)]
      BY <1>2 DEF ChainInv, Credited
    <2>3. world[a].storage = old.storage
      <3> HIDE DEF old
      <3> QED
        BY <2>1, <2>2 DEF AnAccount
    <2> QED
      BY <2>3
  <1>6. n \in P
    <2> HIDE DEF P, n
    <2>1. \A k \in 0..n : k \in P
      BY <1>1, <1>3, <1>4, RangeInduction
    <2> QED
      BY <1>1, <2>1
  <1> QED
    BY <1>5, <1>6

\* The slots of a block are the same in the trace and in the rows of its
\* transactions, and the block counts between those that stay and all of them.
LEMMA SlotsAddUp ==
  ASSUME BlockInv, ChainInv, open = Closed
  PROVE  LET rpc == summarize_rpc_state_growth
             block == query_xatu_block_state_growth
             tx == [i \in DOMAIN txs |-> query_xatu_tx_state_creation(i)]
             still_new == {p \in Addresses \X Slots :
                             /\ parent[p[1]].storage[p[2]] = 0
                             /\ world[p[1]].storage[p[2]] # 0}
         IN  /\ rpc.new_storage_slots = sum_txs(LAMBDA i : tx[i].new_storage_slots)
             /\ rpc.new_storage_slots = block.zero_to_nonzero_storage_writes
             /\ block.new_storage_slots \in count(still_new) .. rpc.new_storage_slots
  <1> DEFINE n == Len(txs)
             S == [i \in 1..n |-> slots_made(i)]
             sizes == [i \in 1..n |-> Cardinality(S[i])]
             made_slots == UNION {S[i] : i \in 1..n}
             rpc == summarize_rpc_state_growth
             block == query_xatu_block_state_growth
             tx == [i \in DOMAIN txs |-> query_xatu_tx_state_creation(i)]
             still_new == {p \in Addresses \X Slots :
                             /\ parent[p[1]].storage[p[2]] = 0
                             /\ world[p[1]].storage[p[2]] # 0}
  <1>1. n \in Nat /\ DOMAIN txs = 1..n
    BY BlockIs
  <1>2. \A i \in 1..n :
          /\ {<<d.address, d.slot>> : d \in zero_to_nonzero(i)} = S[i]
          /\ new_slots(i) = S[i]
          /\ IsFiniteSet(S[i])
          /\ count(zero_to_nonzero(i)) = Cardinality(S[i])
          /\ txs[i].failed => S[i] = {}
    BY SlotsMade
  <1>3. rpc.new_storage_slots = SumFunction(sizes)
    <2> DEFINE f == [i \in DOMAIN txs |-> IF txs[i].failed THEN 0 ELSE count(new_slots(i))]
    <2>1. rpc.new_storage_slots = SumFunction(f)
      BY DEF summarize_rpc_state_growth, sum_txs
    <2>2. Cardinality({}) = 0
      BY FS_EmptySet
    <2>3. \A i \in 1..n : (IF txs[i].failed THEN 0 ELSE count(new_slots(i))) = Cardinality(S[i])
      <3> HIDE DEF S
      <3> QED
        BY <1>2, <2>2 DEF count
    <2>4. f = sizes
      <3> HIDE DEF S, n
      <3> QED
        BY <1>1, <2>3
    <2> QED
      BY <2>1, <2>4
  <1>4. sum_txs(LAMBDA i : tx[i].new_storage_slots) = SumFunction(sizes)
    <2> DEFINE f == [i \in DOMAIN txs |-> tx[i].new_storage_slots]
    <2>1. sum_txs(LAMBDA i : tx[i].new_storage_slots) = SumFunction(f)
      BY DEF sum_txs
    <2>2. \A i \in DOMAIN txs :
            tx[i].new_storage_slots
              = count({<<d.address, d.slot>> : d \in zero_to_nonzero(i)})
      BY DEF query_xatu_tx_state_creation
    <2>3. f = sizes
      <3> HIDE DEF S, n, tx
      <3> QED
        BY <1>1, <1>2, <2>2 DEF count
    <2> QED
      BY <2>1, <2>3
  <1>5. block.zero_to_nonzero_storage_writes = SumFunction(sizes)
    <2> DEFINE f == [i \in DOMAIN txs |-> count(zero_to_nonzero(i))]
    <2>1. block.zero_to_nonzero_storage_writes = SumFunction(f)
      BY DEF query_xatu_block_state_growth, sum_txs
    <2>2. f = sizes
      <3> HIDE DEF S, n
      <3> QED
        BY <1>1, <1>2
    <2> QED
      BY <2>1, <2>2
  <1>6. block.new_storage_slots = Cardinality(made_slots)
    <2>1. {{<<d.address, d.slot>> : d \in zero_to_nonzero(i)} : i \in DOMAIN txs}
            = {S[i] : i \in 1..n}
      <3> HIDE DEF S, n
      <3> QED
        BY <1>1, <1>2
    <2>2. block.new_storage_slots
            = count(UNION {{<<d.address, d.slot>> : d \in zero_to_nonzero(i)} :
                             i \in DOMAIN txs})
      BY DEF query_xatu_block_state_growth
    <2> HIDE DEF S, n, block
    <2> QED
      BY <2>1, <2>2 DEF count
  <1>7. /\ IsFiniteSet(made_slots) /\ Cardinality(made_slots) \in Nat
        /\ SumFunction(sizes) \in Int /\ Cardinality(made_slots) <= SumFunction(sizes)
    <2> HIDE DEF S, n
    <2> QED
      BY <1>1, <1>2, UnionCount
  <1>8. IsFiniteSet(still_new) /\ Cardinality(still_new) <= Cardinality(made_slots)
        /\ Cardinality(still_new) \in Nat
    <2>1. still_new \subseteq made_slots
      <3>1. ASSUME NEW p \in still_new PROVE p \in made_slots
        <4>1. /\ p \in Addresses \X Slots
              /\ parent[p[1]].storage[p[2]] = 0
              /\ world[p[1]].storage[p[2]] # 0
          OBVIOUS
        <4>2. PICK i \in 1..n : p \in slots_made(i)
          BY <4>1, StillNewWasMade
        <4> QED
          BY <4>2
      <3> QED
        BY <3>1
    <2> HIDE DEF still_new, made_slots
    <2> QED
      BY <1>7, <2>1, FS_Subset, FS_CardinalityType
  <1> HIDE DEF sizes, made_slots, still_new, S, n, rpc, block, tx
  <1>9. block.new_storage_slots \in count(still_new) .. rpc.new_storage_slots
    BY <1>3, <1>6, <1>7, <1>8 DEF count
  <1> QED
    BY <1>3, <1>4, <1>5, <1>9 DEF rpc, block, tx, still_new

\* "new" has no code or a contract's, at every point of a block.
LEMMA NewHasAContract ==
  ASSUME BlockInv, ChainInv, GrowthInv
  PROVE  \A k \in 0..Len(txs) : left_by(k)["new"].code \in {"", "contract"}
  <1> DEFINE n == Len(txs)
             code(k) == left_by(k)["new"].code
             codes == {"", "contract"}
             P == {k \in 0..n : code(k) \in codes}
  <1>1. /\ n \in Nat /\ left_by(0) = parent
        /\ \A i \in 1..n : txs[i].before = left_by(i - 1) /\ txs[i].after = left_by(i)
    BY BlockIs
  <1>2. code(0) \in codes
    <2>1. Parent["new"] = Empty
      BY DEF Parent, Addresses, Sender, Contract
    <2>2. Empty.code = ""
      BY DEF Empty, Account
    <2> QED
      BY <1>1, <2>1, <2>2 DEF GrowthInv
  <1>3. ASSUME NEW k \in 1..n PROVE code(k - 1) \in codes => code(k) \in codes
    <2>1. Grown(txs[k], txs[k].after)
      BY DEF GrowthInv
    <2> QED
      BY <1>1, <2>1 DEF Grown
  <1> HIDE DEF code, codes
  <1>4. 0 \in P
    BY <1>1, <1>2
  <1>5. ASSUME NEW k \in 1..n, k - 1 \in P PROVE k \in P
    BY <1>1, <1>3, <1>5
  <1> HIDE DEF P, n
  <1>6. \A k \in 0..n : k \in P
    BY <1>1, <1>4, <1>5, RangeInduction
  <1> QED
    BY <1>6 DEF P, n, code, codes

\* The contracts in the tables of a transaction are the code that is new in its
\* trace, and a failing one has none.
LEMMA CodeMade ==
  ASSUME BlockInv, ChainInv, GrowthInv, NEW i \in 1..Len(txs)
  PROVE  /\ contracts(txs[i]) = IF txs[i].failed THEN {} ELSE new_code(i, FALSE)
         /\ contracts(txs[i]) \in SUBSET Addresses
  <1> DEFINE old == txs[i].before
             new == txs[i].after
  <1>1. /\ Settled(txs[i]) /\ Grown(txs[i], new)
        /\ txs[i].failed => new["new"].code = old["new"].code
    BY BlockIs DEF GrowthInv
  <1>2. txs[i].created \subseteq {"new"} /\ "new" \in Addresses
    BY <1>1 DEF Settled, Fits, Addresses
  <1>3. old["new"].code \in {"", "contract"}
    <2>1. old = left_by(i - 1) /\ i - 1 \in 0..Len(txs)
      BY BlockIs
    <2> HIDE DEF old
    <2> QED
      BY <2>1, NewHasAContract
  <1>4. ASSUME NEW a \in Addresses
        PROVE  a \in contracts(txs[i])
                 <=> a = "new" /\ old[a].code = "" /\ new[a].code = "contract"
    <2>1. new["new"].code # "" /\ old["new"].code = ""
            => new["new"].code = "contract" /\ "new" \in txs[i].created
      BY <1>1 DEF Grown
    <2>2. "contract" # ""
      OBVIOUS
    <2> HIDE DEF old, new
    <2>3. a \in contracts(txs[i])
            <=> a \in txs[i].created /\ old[a].code = "" /\ new[a].code # ""
      BY DEF contracts, old, new
    <2> QED
      BY <1>2, <2>1, <2>2, <2>3
  <1>5. contracts(txs[i]) \in SUBSET Addresses
    BY <1>2 DEF contracts
  <1>6. ASSUME txs[i].failed PROVE contracts(txs[i]) = {}
    <2>1. ~(old["new"].code = "" /\ new["new"].code = "contract")
      <3>1. new["new"].code = old["new"].code
        BY <1>1, <1>6
      <3> HIDE DEF old, new
      <3> QED
        BY <3>1
    <2> HIDE DEF old, new
    <2> QED
      BY <1>4, <1>5, <2>1
  <1>7. ASSUME NEW a \in Addresses
        PROVE  a \in new_code(i, FALSE)
                 <=> a = "new" /\ old[a].code = "" /\ new[a].code = "contract"
    <2> DEFINE pre == field(diff_pre(txs[i]), a, "code", "")
               post == field(diff_post(txs[i]), a, "code", "")
    <2>1. a \in new_code(i, FALSE) <=> post \notin {"", pre, "delegation"}
      BY DEF new_code, is_delegation_code
    <2>2. /\ pre = IF old[a] # new[a] THEN old[a].code ELSE ""
          /\ post = IF old[a].code # new[a].code THEN new[a].code ELSE ""
      BY <1>1, TracedFields
    <2>3. old[a] \in AnAccount /\ new[a] \in AnAccount
      BY <1>1, TracedAccount
    <2>4. /\ old[a].code \in {"", "contract", "delegation"}
          /\ new[a].code \in {"", "contract", "delegation"}
      BY <2>3 DEF AnAccount
    <2>5. /\ a # "new" => new[a].code = old[a].code \/ new[a].code # "contract"
          /\ a = "new" => new[a].code = old[a].code \/ new[a].code = "contract"
      BY <1>1 DEF Grown
    <2> HIDE DEF pre, post, old, new
    <2>6. post \notin {"", pre, "delegation"}
            <=> old[a].code # new[a].code /\ new[a].code = "contract"
      BY <2>2, <2>4
    <2> QED
      BY <1>3, <2>1, <2>5, <2>6
  <1>8. new_code(i, FALSE) \in SUBSET Addresses
    BY DEF new_code
  <1>9. contracts(txs[i]) = new_code(i, FALSE) \/ txs[i].failed
    BY <1>4, <1>5, <1>7, <1>8
  <1> QED
    BY <1>5, <1>6, <1>9

\* The code of a block is the same in its trace and in its tables.
LEMMA CodeAddsUp ==
  ASSUME BlockInv, ChainInv, GrowthInv
  PROVE  query_xatu_block_state_growth.code_bytes = summarize_rpc_state_growth.code_bytes
  <1> DEFINE f == [i \in DOMAIN txs |-> count(contracts(txs[i]))]
             g == [i \in DOMAIN txs |-> IF txs[i].failed THEN 0 ELSE count(new_code(i, FALSE))]
  <1>1. query_xatu_block_state_growth.code_bytes = ContractBytes * SumFunction(f)
    BY DEF query_xatu_block_state_growth, sum_txs
  <1>2. summarize_rpc_state_growth.code_bytes = ContractBytes * SumFunction(g)
    BY DEF summarize_rpc_state_growth, sum_txs
  <1>3. ASSUME NEW i \in DOMAIN txs
        PROVE  count(contracts(txs[i]))
                 = IF txs[i].failed THEN 0 ELSE count(new_code(i, FALSE))
    <2>1. i \in 1..Len(txs)
      BY BlockIs
    <2>2. contracts(txs[i]) = IF txs[i].failed THEN {} ELSE new_code(i, FALSE)
      BY <2>1, CodeMade
    <2> QED
      BY <2>2, FS_EmptySet DEF count
  <1>4. f = g
    BY <1>3
  <1> QED
    BY <1>1, <1>2, <1>4

\* An account that has something, a number or code, and one that has nothing.
LEMMA ExistsIs ==
  ASSUME NEW x \in AnAccount
  PROVE  /\ ~exists(x) <=> x.balance = 0 /\ x.nonce = 0 /\ x.code = ""
         /\ x.balance \in Nat /\ x.nonce \in Nat
  <1>1. x.balance \in Nat /\ x.nonce \in Nat
    BY DEF AnAccount
  <1>2. ~(x.balance > 0) <=> x.balance = 0
    BY <1>1
  <1>3. ~(x.nonce > 0) <=> x.nonce = 0
    BY <1>1
  <1> QED
    BY <1>1, <1>2, <1>3 DEF exists

\* Only "new" may be empty.
LEMMA OthersExist ==
  ASSUME BlockInv, ChainInv, GrowthInv, NEW a \in Addresses, a # "new"
  PROVE  \A k \in 0..Len(txs) : exists(left_by(k)[a])
  <1> DEFINE n == Len(txs)
             P == {k \in 0..n : left_by(k)[a].nonce >= 1}
  <1>1. /\ n \in Nat /\ left_by(0) = parent
        /\ \A i \in 0..n : left_by(i) \in World
        /\ \A i \in 1..n : /\ txs[i].before = left_by(i - 1) /\ txs[i].after = left_by(i)
                           /\ Settled(txs[i])
    BY BlockIs
  <1>2. 0 \in P
    <2>1. Parent[a].nonce = 1
      <3> DEFINE empty == [s \in Slots |-> 0]
                 full == [s \in Slots |-> IF s = 1 THEN 1 ELSE 0]
                 nothing == ""
      <3>1. a \in {Sender, "proposer", Contract}
        BY DEF Addresses
      <3>2. /\ Parent[Sender] = Account(20, 1, nothing, empty)
            /\ Parent["proposer"] = Account(0, 1, nothing, empty)
            /\ Parent[Contract] = Account(2, 1, "contract", full)
        BY DEF Parent, Addresses, Sender, Contract
      <3> HIDE DEF empty, full, nothing
      <3>3. /\ Account(20, 1, nothing, empty).nonce = 1
            /\ Account(0, 1, nothing, empty).nonce = 1
            /\ Account(2, 1, "contract", full).nonce = 1
        BY DEF Account
      <3> QED
        BY <3>1, <3>2, <3>3
    <2>2. left_by(0)[a].nonce = 1
      BY <1>1, <2>1 DEF GrowthInv
    <2> QED
      BY <1>1, <2>2
  <1>3. ASSUME NEW k \in 1..n, k - 1 \in P PROVE k \in P
    <2>1. /\ k \in 0..n /\ k - 1 \in 0..n /\ left_by(k - 1)[a].nonce >= 1
      BY <1>1, <1>3
    <2>2. left_by(k)[a].nonce >= left_by(k - 1)[a].nonce
      BY <1>1 DEF Settled, Fits
    <2>3. left_by(k)[a].nonce \in Nat /\ left_by(k - 1)[a].nonce \in Nat
      BY <1>1, <2>1 DEF World, AnAccount
    <2> QED
      BY <2>1, <2>2, <2>3
  <1> HIDE DEF P
  <1>4. \A k \in 0..n : k \in P
    <2> HIDE DEF n
    <2> QED
      BY <1>1, <1>2, <1>3, RangeInduction
  <1>5. ASSUME NEW k \in 0..n PROVE exists(left_by(k)[a])
    <2>1. left_by(k)[a].nonce >= 1
      BY <1>4 DEF P
    <2>2. left_by(k)[a] \in AnAccount
      BY <1>1 DEF World
    <2>3. left_by(k)[a].nonce \in Nat
      BY <2>2 DEF AnAccount
    <2>4. left_by(k)[a].nonce # 0
      BY <2>1, <2>3
    <2> QED
      BY <2>2, <2>4, ExistsIs
  <1> QED
    BY <1>5

\* The addresses a transaction may have created.
LEMMA RawCandidates ==
  ASSUME BlockInv, ChainInv, GrowthInv, NEW i \in 1..Len(txs)
  PROVE  /\ raw_candidates(i) \in SUBSET Addresses
         /\ \A a \in Addresses :
              a \in raw_candidates(i) <=>
                \/ a \in contracts(txs[i])
                \/ txs[i].before[a].balance = 0 /\ txs[i].after[a].balance > 0
                \/ txs[i].before[a].nonce = 0 /\ txs[i].after[a].nonce > 0
  <1> DEFINE old == txs[i].before
             new == txs[i].after
             rows == {e \in balance_diffs(txs[i]) \cup nonce_diffs(txs[i]) :
                        e.from_value = 0 /\ e.to_value > 0}
  <1>1. raw_candidates(i) = contracts(txs[i]) \cup {d.address : d \in rows}
    BY DEF raw_candidates
  <1>2. contracts(txs[i]) \in SUBSET Addresses
    BY CodeMade
  <1>3. ASSUME NEW e \in rows
        PROVE  /\ e.address \in Addresses
               /\ \/ old[e.address].balance = 0 /\ new[e.address].balance > 0
                  \/ old[e.address].nonce = 0 /\ new[e.address].nonce > 0
    BY <1>3 DEF balance_diffs, nonce_diffs
  <1>4. ASSUME NEW a \in Addresses, old[a].balance = 0, new[a].balance > 0
        PROVE  a \in {d.address : d \in rows}
    <2> DEFINE d == [address |-> a, from_value |-> old[a].balance, to_value |-> new[a].balance]
    <2>1. old[a].balance # new[a].balance
      BY <1>4
    <2>2. d \in balance_diffs(txs[i])
      BY <2>1 DEF balance_diffs
    <2>3. d.from_value = 0 /\ d.to_value > 0 /\ d.address = a
      BY <1>4
    <2> HIDE DEF d
    <2> QED
      BY <2>2, <2>3
  <1>5. ASSUME NEW a \in Addresses, old[a].nonce = 0, new[a].nonce > 0
        PROVE  a \in {d.address : d \in rows}
    <2> DEFINE d == [address |-> a, from_value |-> old[a].nonce, to_value |-> new[a].nonce]
    <2>1. old[a].nonce # new[a].nonce
      BY <1>5
    <2>2. d \in nonce_diffs(txs[i])
      BY <2>1 DEF nonce_diffs
    <2>3. d.from_value = 0 /\ d.to_value > 0 /\ d.address = a
      BY <1>5
    <2> HIDE DEF d
    <2> QED
      BY <2>2, <2>3
  <1> HIDE DEF rows
  <1> QED
    BY <1>1, <1>2, <1>3, <1>4, <1>5

\* Whether there is something at "new", and whether a transaction may have
\* created it.
there(k) == exists(left_by(k)["new"])
named(i) == "new" \in raw_candidates(i)

\* There is something once a transaction may have created it, and from then on.
LEMMA ThereOnceNamed ==
  ASSUME BlockInv, ChainInv, GrowthInv
  PROVE  /\ \A k \in 1..Len(txs) : there(k) <=> there(k - 1) \/ named(k)
         /\ \A k \in 0..Len(txs) : there(k) <=> \E j \in 1..k : named(j)
  <1> DEFINE n == Len(txs)
             P == {k \in 0..n : there(k) <=> \E j \in 1..k : named(j)}
  <1>1. /\ n \in Nat /\ left_by(0) = parent
        /\ \A i \in 0..n : left_by(i) \in World
        /\ \A i \in 1..n : /\ txs[i].before = left_by(i - 1) /\ txs[i].after = left_by(i)
                           /\ Settled(txs[i])
    BY BlockIs
  <1>2. "new" \in Addresses
    BY DEF Addresses
  <1>3. ASSUME NEW k \in 1..n PROVE there(k) <=> there(k - 1) \/ named(k)
    <2> DEFINE old == left_by(k - 1)["new"]
               new == left_by(k)["new"]
               made_here == "new" \in contracts(txs[k])
    <2>1. old \in AnAccount /\ new \in AnAccount
      <3>1. k \in 0..n /\ k - 1 \in 0..n
        BY <1>1
      <3> QED
        BY <1>1, <1>2, <3>1 DEF World
    <2>2. named(k) <=> \/ made_here
                       \/ old.balance = 0 /\ new.balance > 0
                       \/ old.nonce = 0 /\ new.nonce > 0
      BY <1>1, <1>2, RawCandidates DEF named
    <2>3. made_here <=> /\ "new" \in txs[k].created /\ old.code = "" /\ new.code # ""
      BY <1>1 DEF contracts
    <2>4. new.balance >= old.balance /\ new.nonce >= old.nonce
      BY <1>1, <1>2 DEF GrowthInv, Grown, Settled, Fits
    <2>5. new.code = old.code \/ (new.code = "contract" /\ "new" \in txs[k].created)
      BY <1>1, <1>2 DEF GrowthInv, Grown
    <2>6. /\ old.balance \in Nat /\ old.nonce \in Nat
          /\ new.balance \in Nat /\ new.nonce \in Nat
      BY <2>1 DEF AnAccount
    <2>7. /\ there(k) <=> ~(new.balance = 0 /\ new.nonce = 0 /\ new.code = "")
          /\ there(k - 1) <=> ~(old.balance = 0 /\ old.nonce = 0 /\ old.code = "")
      BY <2>1, ExistsIs DEF there
    <2> DEFINE was == old.code # ""
               is == new.code # ""
    <2>8. /\ was => is
          /\ ~was => (made_here <=> is)
          /\ made_here => is
      <3> HIDE DEF old, new, made_here
      <3>1. "contract" # ""
        OBVIOUS
      <3> QED
        BY <2>3, <2>5, <3>1
    <2>9. /\ there(k) <=> new.balance # 0 \/ new.nonce # 0 \/ is
          /\ there(k - 1) <=> old.balance # 0 \/ old.nonce # 0 \/ was
      BY <2>7
    <2> HIDE DEF old, new, made_here, was, is
    <2>10. /\ new.balance # 0 <=> old.balance # 0 \/ (old.balance = 0 /\ new.balance > 0)
           /\ new.nonce # 0 <=> old.nonce # 0 \/ (old.nonce = 0 /\ new.nonce > 0)
      BY <2>4, <2>6
    <2> QED
      BY <2>2, <2>8, <2>9, <2>10
  <1>4. 0 \in P
    <2>1. Parent["new"] = Empty
      BY DEF Parent, Addresses, Sender, Contract
    <2>2. Empty.balance = 0 /\ Empty.nonce = 0 /\ Empty.code = ""
      BY DEF Empty, Account
    <2>3. left_by(0)["new"] = Empty /\ left_by(0)["new"] \in AnAccount
      <3>1. 0 \in 0..n
        BY <1>1
      <3> QED
        BY <1>1, <1>2, <2>1, <3>1 DEF GrowthInv, World
    <2>4. ~there(0)
      BY <2>2, <2>3, ExistsIs DEF there
    <2> QED
      BY <1>1, <2>4
  <1>5. ASSUME NEW k \in 1..n, k - 1 \in P PROVE k \in P
    <2>1. k \in 0..n /\ (there(k - 1) <=> \E j \in 1..(k - 1) : named(j))
      BY <1>1, <1>5
    <2>2. (\E j \in 1..k : named(j)) <=> named(k) \/ \E j \in 1..(k - 1) : named(j)
      <3>1. 1..k = 1..(k - 1) \cup {k}
        BY <1>1
      <3> QED
        BY <3>1
    <2> QED
      BY <1>3, <2>1, <2>2
  <1> HIDE DEF P
  <1>6. \A k \in 0..n : k \in P
    <2> HIDE DEF n
    <2> QED
      BY <1>1, <1>4, <1>5, RangeInduction
  <1> QED
    BY <1>3, <1>6 DEF P

\* An account is new in a transaction's trace when it comes to have something.
LEMMA NewInTheTrace ==
  ASSUME BlockInv, ChainInv, NEW i \in 1..Len(txs), NEW a \in Addresses
  PROVE  a \in new_accounts(i) <=> ~exists(txs[i].before[a]) /\ exists(txs[i].after[a])
  <1> DEFINE old == txs[i].before[a]
             new == txs[i].after[a]
             pre == diff_pre(txs[i])
             post == diff_post(txs[i])
             coded(c) == c # ""
  <1>1. Settled(txs[i])
    BY BlockIs
  <1>2. old \in AnAccount /\ new \in AnAccount
    BY <1>1, TracedAccount
  <1>3. /\ old.balance \in Nat /\ old.nonce \in Nat
        /\ new.balance \in Nat /\ new.nonce \in Nat
    BY <1>2 DEF AnAccount
  <1>4. /\ exists(old) <=> old.balance > 0 \/ old.nonce > 0 \/ coded(old.code)
        /\ exists(new) <=> new.balance > 0 \/ new.nonce > 0 \/ coded(new.code)
    BY DEF exists
  <1> DEFINE b0 == field(pre, a, "balance", 0)
             n0 == field(pre, a, "nonce", 0)
             c0 == field(pre, a, "code", "")
             b1 == field(post, a, "balance", 0)
             n1 == field(post, a, "nonce", 0)
             c1 == field(post, a, "code", "")
  <1>5. a \in new_accounts(i) <=> /\ ~(b0 \notin {0, Missing} \/ n0 > 0 \/ coded(c0))
                                  /\ b1 \notin {0, Missing} \/ n1 > 0 \/ coded(c1)
    BY DEF new_accounts, account_exists
  <1>6. /\ b0 = IF old # new THEN old.balance ELSE 0
        /\ n0 = IF old # new THEN old.nonce ELSE 0
        /\ c0 = IF old # new THEN old.code ELSE ""
        /\ n1 = IF old.nonce # new.nonce THEN new.nonce ELSE 0
        /\ c1 = IF old.code # new.code THEN new.code ELSE ""
    BY <1>1, TracedFields
  <1>7. old # new => b1 = IF old.balance # new.balance THEN new.balance ELSE Missing
    <2>1. a \in DOMAIN post <=> old # new
      BY <1>1, TracedAccount
    <2>2. field(post, a, "balance", Missing)
            = IF old.balance # new.balance THEN new.balance ELSE Missing
      BY <1>1, TracedFields
    <2> HIDE DEF old, new, post
    <2> QED
      BY <2>1, <2>2 DEF field
  <1>8. old = new => b1 = 0
    <2>1. a \in DOMAIN post <=> old # new
      BY <1>1, TracedAccount
    <2> HIDE DEF old, new, post
    <2> QED
      BY <2>1 DEF field
  <1>9. ~coded("") /\ Missing = -1
    BY DEF Missing
  <1>10. CASE old = new
    <2>1. ~(b1 \notin {0, Missing} \/ n1 > 0 \/ coded(c1))
      <3>1. b1 = 0 /\ n1 = 0
        BY <1>6, <1>8, <1>10
      <3>2. ~coded(c1)
        BY <1>6, <1>9, <1>10
      <3> HIDE DEF b1, n1, c1, coded
      <3> QED
        BY <3>1, <3>2
    <2> HIDE DEF coded, b0, n0, c0, b1, n1, c1
    <2> QED
      BY <1>5, <1>10, <2>1
  <1>11. CASE old # new
    <2>1. b0 = old.balance /\ n0 = old.nonce /\ c0 = old.code
      BY <1>6, <1>11
    <2>2. coded(c1) <=> old.code # new.code /\ coded(new.code)
      BY <1>6
    <2>3. ~coded(old.code) /\ coded(new.code) => old.code # new.code
      OBVIOUS
    <2>4. /\ n1 = IF old.nonce # new.nonce THEN new.nonce ELSE 0
          /\ b1 = IF old.balance # new.balance THEN new.balance ELSE Missing
      BY <1>6, <1>7, <1>11
    <2>5. Missing = -1
      BY DEF Missing
    <2>6. a \in new_accounts(i) <=> /\ ~(b0 \notin {0, Missing} \/ n0 > 0 \/ coded(c0))
                                    /\ b1 \notin {0, Missing} \/ n1 > 0 \/ coded(c1)
      BY <1>5
    <2>7. coded(c0) <=> coded(old.code)
      BY <2>1
    <2> HIDE DEF old, new, coded, b0, n0, c0, b1, n1, c1, pre, post
    <2>8. b0 \notin {0, Missing} <=> old.balance > 0
      BY <1>3, <2>1, <2>5
    <2>9. n0 > 0 <=> old.nonce > 0
      BY <2>1
    <2>10. ~(old.balance > 0) => (b1 \notin {0, Missing} <=> new.balance > 0)
      BY <1>3, <2>4, <2>5
    <2>11. ~(old.nonce > 0) => (n1 > 0 <=> new.nonce > 0)
      BY <1>3, <2>4
    <2> QED
      BY <1>4, <2>2, <2>3, <2>6, <2>7, <2>8, <2>9, <2>10, <2>11 DEF old, new
  <1> QED
    BY <1>10, <1>11

\* Who comes to be in a transaction of the block: "new", or nobody.
newcomers(i) == IF there(i) /\ ~there(i - 1) THEN {"new"} ELSE {}

\* They are new in its trace, and by its tables; the block's tables have them all.
LEMMA NewcomersAre ==
  ASSUME BlockInv, ChainInv, GrowthInv
  PROVE  /\ \A i \in 1..Len(txs) :
              tx_new_accounts(i) = newcomers(i) /\ new_accounts(i) = newcomers(i)
         /\ block_candidates \cap first_in_block = UNION {newcomers(i) : i \in 1..Len(txs)}
         /\ block_candidates \in SUBSET Addresses
  <1> DEFINE n == Len(txs)
  <1>1. /\ n \in Nat /\ DOMAIN txs = 1..n /\ left_by(0) = parent
        /\ \A i \in 1..n : /\ txs[i].before = left_by(i - 1) /\ txs[i].after = left_by(i)
                           /\ Settled(txs[i])
    BY BlockIs
  <1>2. "new" \in Addresses
    BY DEF Addresses
  <1>3. /\ \A i \in 1..n : there(i) <=> there(i - 1) \/ named(i)
        /\ \A k \in 0..n : there(k) <=> \E j \in 1..k : named(j)
    BY ThereOnceNamed
  <1>4. \A i \in 1..n : raw_candidates(i) \in SUBSET Addresses
    BY RawCandidates
  <1>5. ~there(0)
    BY <1>1, <1>3
  <1>6. \A a \in Addresses : a # "new" => \A k \in 0..n : exists(left_by(k)[a])
    BY OthersExist
  <1>7. first_in_block \subseteq {"new"}
    <2>1. ASSUME NEW a \in first_in_block PROVE a = "new"
      <3>1. PICK i \in 1..n : a \in txs[i].touched
        BY <1>1 DEF first_in_block, first_appearances
      <3>2. a \in Addresses
        BY <1>1, <3>1 DEF Settled, ExecutedTransactions, Executions
      <3>3. ~exists(left_by(0)[a])
        BY <1>1 DEF first_in_block, first_appearances
      <3>4. 0 \in 0..n
        BY <1>1
      <3> QED
        BY <1>6, <3>2, <3>3, <3>4
    <2> QED
      BY <2>1
  <1>8. ASSUME NEW i \in 1..n, there(i), ~there(i - 1) PROVE "new" \in first_in_block
    <2>1. left_by(i)["new"] # left_by(i - 1)["new"]
      BY <1>8 DEF there
    <2>2. "new" \in txs[i].touched
      BY <1>1, <1>2, <2>1 DEF Settled, Fits
    <2> QED
      BY <1>1, <1>5, <2>2 DEF first_in_block, first_appearances, there
  <1>9. ASSUME NEW i \in 1..n PROVE tx_new_accounts(i) = newcomers(i)
    <2>1. tx_new_accounts(i) \subseteq {"new"}
      BY <1>7 DEF tx_new_accounts
    <2>2. "new" \in tx_new_accounts(i)
            <=> named(i) /\ "new" \in first_in_block /\ ~\E j \in 1..(i - 1) : named(j)
      BY DEF tx_new_accounts, named
    <2>3. there(i - 1) <=> \E j \in 1..(i - 1) : named(j)
      <3>1. i - 1 \in 0..n
        BY <1>1
      <3> QED
        BY <1>3, <3>1
    <2>4. "new" \in tx_new_accounts(i) <=> there(i) /\ ~there(i - 1)
      BY <1>3, <1>8, <2>2, <2>3
    <2> QED
      BY <2>1, <2>4 DEF newcomers
  <1>10. ASSUME NEW i \in 1..n PROVE new_accounts(i) = newcomers(i)
    <2>1. ASSUME NEW a \in Addresses
          PROVE  a \in new_accounts(i) <=> a = "new" /\ there(i) /\ ~there(i - 1)
      <3>1. a \in new_accounts(i) <=> ~exists(left_by(i - 1)[a]) /\ exists(left_by(i)[a])
        BY <1>1, NewInTheTrace
      <3>2. i - 1 \in 0..n
        BY <1>1
      <3> QED
        BY <1>6, <3>1, <3>2 DEF there
    <2>2. new_accounts(i) \in SUBSET Addresses
      BY DEF new_accounts
    <2> QED
      BY <1>2, <2>1, <2>2 DEF newcomers
  <1>11. block_candidates \cap first_in_block = UNION {newcomers(i) : i \in 1..n}
    <2>1. ASSUME NEW a \in block_candidates \cap first_in_block
          PROVE  \E i \in 1..n : a \in newcomers(i)
      <3> DEFINE T == {i \in 1..n : named(i)}
      <3>1. a = "new" /\ "new" \in first_in_block
        BY <1>7
      <3>2. T # {}
        BY <1>1, <3>1 DEF block_candidates, named
      <3>3. T \subseteq Nat
        BY <1>1
      <3>4. PICK i \in T : \A j \in T : i <= j
        <4> HIDE DEF T
        <4> QED
          BY <3>2, <3>3, LeastElement
      <3>5. \A j \in 1..(i - 1) : "new" \notin raw_candidates(j)
        <4>1. ASSUME NEW j \in 1..(i - 1), named(j) PROVE FALSE
          BY <1>1, <3>4, <4>1
        <4> QED
          BY <4>1 DEF named
      <3>6. "new" \in tx_new_accounts(i)
        BY <3>1, <3>4, <3>5 DEF tx_new_accounts, named
      <3> QED
        BY <1>9, <3>1, <3>6
    <2>2. ASSUME NEW i \in 1..n, NEW a \in newcomers(i)
          PROVE  a \in block_candidates \cap first_in_block
      <3>1. a \in tx_new_accounts(i)
        BY <1>9, <2>2
      <3> QED
        BY <1>1, <3>1 DEF tx_new_accounts, block_candidates
    <2> QED
      BY <2>1, <2>2
  <1>12. block_candidates \in SUBSET Addresses
    BY <1>1, <1>4 DEF block_candidates
  <1> QED
    BY <1>9, <1>10, <1>11, <1>12

\* No account comes to be twice.
LEMMA NewcomersApart ==
  ASSUME BlockInv, ChainInv, GrowthInv
  PROVE  /\ \A i \in 1..Len(txs) : IsFiniteSet(newcomers(i))
         /\ \A i, j \in 1..Len(txs) : i # j => newcomers(i) \cap newcomers(j) = {}
  <1> DEFINE n == Len(txs)
  <1>1. n \in Nat /\ \A k \in 0..n : there(k) <=> \E j \in 1..k : named(j)
    BY BlockIs, ThereOnceNamed
  <1>2. ASSUME NEW i \in 1..n, NEW j \in 1..n, i < j, there(i) PROVE there(j - 1)
    <2>1. i \in 0..n /\ j - 1 \in 0..n /\ 1..i \subseteq 1..(j - 1)
      BY <1>1, <1>2
    <2> QED
      BY <1>1, <1>2, <2>1
  <1>3. ASSUME NEW i \in 1..n, NEW j \in 1..n, i < j PROVE newcomers(i) \cap newcomers(j) = {}
    BY <1>2, <1>3 DEF newcomers
  <1>4. ASSUME NEW i \in 1..n, NEW j \in 1..n, i # j PROVE newcomers(i) \cap newcomers(j) = {}
    <2>1. i < j \/ j < i
      BY <1>1, <1>4
    <2> QED
      BY <1>3, <2>1
  <1>5. \A i \in 1..n : IsFiniteSet(newcomers(i))
    BY FS_EmptySet, FS_Singleton DEF newcomers
  <1> QED
    BY <1>4, <1>5

\* The accounts of a block are those of its transactions, and those of its
\* trace with the ones that failing transactions made.
LEMMA AccountsAddUp ==
  ASSUME BlockInv, ChainInv, GrowthInv
  PROVE  LET rpc == summarize_rpc_state_growth
             block == query_xatu_block_state_growth
             tx == [i \in DOMAIN txs |-> query_xatu_tx_state_creation(i)]
             made_by_failures == UNION {tx_new_accounts(i) : i \in reverted_tx_indices}
         IN  /\ block.new_accounts = sum_txs(LAMBDA i : tx[i].new_accounts)
             /\ block.new_accounts = rpc.new_accounts + count(made_by_failures)
             /\ block.new_accounts <= block.new_account_candidates
  <1> DEFINE n == Len(txs)
             N == [i \in 1..n |-> newcomers(i)]
             F == [i \in 1..n |-> IF txs[i].failed THEN N[i] ELSE {}]
             sizes == [i \in 1..n |-> Cardinality(N[i])]
             failing == [i \in 1..n |-> Cardinality(F[i])]
             kept == [i \in 1..n |-> IF txs[i].failed THEN 0 ELSE Cardinality(N[i])]
             rpc == summarize_rpc_state_growth
             block == query_xatu_block_state_growth
             tx == [i \in DOMAIN txs |-> query_xatu_tx_state_creation(i)]
             made_by_failures == UNION {tx_new_accounts(i) : i \in reverted_tx_indices}
  <1>1. n \in Nat /\ DOMAIN txs = 1..n /\ Transactions = 1..n
    BY BlockIs
  <1>2. /\ \A i \in 1..n : /\ tx_new_accounts(i) = N[i] /\ new_accounts(i) = N[i]
                           /\ IsFiniteSet(N[i])
        /\ \A i, j \in 1..n : i # j => N[i] \cap N[j] = {}
    BY NewcomersAre, NewcomersApart
  <1>3. /\ block_candidates \cap first_in_block = UNION {N[i] : i \in 1..n}
        /\ block_candidates \in SUBSET Addresses
    <2>1. {N[i] : i \in 1..n} = {newcomers(i) : i \in 1..n}
      OBVIOUS
    <2> HIDE DEF N
    <2> QED
      BY <2>1, NewcomersAre
  <1>4. rpc.new_accounts = SumFunction(kept)
    <2> DEFINE f == [i \in DOMAIN txs |-> IF txs[i].failed THEN 0 ELSE count(new_accounts(i))]
    <2>1. rpc.new_accounts = SumFunction(f)
      BY DEF summarize_rpc_state_growth, sum_txs
    <2>2. f = kept
      <3> HIDE DEF N, n
      <3> QED
        BY <1>1, <1>2 DEF count
    <2> QED
      BY <2>1, <2>2
  <1>5. sum_txs(LAMBDA i : tx[i].new_accounts) = SumFunction(sizes)
    <2> DEFINE f == [i \in DOMAIN txs |-> tx[i].new_accounts]
    <2>1. sum_txs(LAMBDA i : tx[i].new_accounts) = SumFunction(f)
      BY DEF sum_txs
    <2>2. \A i \in DOMAIN txs : tx[i].new_accounts = count(tx_new_accounts(i))
      BY DEF query_xatu_tx_state_creation
    <2>3. f = sizes
      <3> HIDE DEF N, n, tx
      <3> QED
        BY <1>1, <1>2, <2>2 DEF count
    <2> QED
      BY <2>1, <2>3
  <1>6. /\ block.new_accounts = Cardinality(UNION {N[i] : i \in 1..n})
        /\ block.new_account_candidates = Cardinality(block_candidates)
    <2>1. /\ block.new_accounts = count(block_candidates \cap first_in_block)
          /\ block.new_account_candidates = count(block_candidates)
      BY DEF query_xatu_block_state_growth
    <2> HIDE DEF N, n, block
    <2> QED
      BY <1>3, <2>1 DEF count
  <1>7. block.new_accounts <= block.new_account_candidates
    <2>1. IsFiniteSet(block_candidates)
      BY <1>3, FiniteWorld, FS_Subset
    <2>2. UNION {N[i] : i \in 1..n} \subseteq block_candidates
      <3> HIDE DEF N, n
      <3> QED
        BY <1>3
    <2> HIDE DEF N, n, block
    <2> QED
      BY <1>6, <2>1, <2>2, FS_Subset
  <1>8. count(made_by_failures) = Cardinality(UNION {F[i] : i \in 1..n})
    <2>1. made_by_failures = UNION {F[i] : i \in 1..n}
      <3>1. ASSUME NEW a \in made_by_failures PROVE \E i \in 1..n : a \in F[i]
        <4>1. PICK i \in reverted_tx_indices : a \in tx_new_accounts(i)
          OBVIOUS
        <4>2. i \in 1..n /\ txs[i].failed
          BY <1>1 DEF reverted_tx_indices
        <4>3. a \in N[i]
          BY <1>2, <4>1, <4>2
        <4> HIDE DEF N, n, made_by_failures
        <4> QED
          BY <4>2, <4>3
      <3>2. ASSUME NEW i \in 1..n, NEW a \in F[i] PROVE a \in made_by_failures
        <4>1. txs[i].failed /\ a \in N[i]
          <5> HIDE DEF N, n
          <5> QED
            BY <3>2
        <4>2. i \in reverted_tx_indices /\ a \in tx_new_accounts(i)
          BY <1>1, <1>2, <4>1 DEF reverted_tx_indices
        <4> QED
          BY <4>2
      <3> HIDE DEF F, n, made_by_failures
      <3> QED
        BY <3>1, <3>2
    <2> HIDE DEF F, n, made_by_failures
    <2> QED
      BY <2>1 DEF count
  <1>9. /\ \A i \in 1..n : IsFiniteSet(F[i])
        /\ \A i, j \in 1..n : i # j => F[i] \cap F[j] = {}
        /\ \A i \in 1..n : Cardinality(N[i]) \in Int /\ Cardinality(F[i]) \in Int
    <2> HIDE DEF N, n
    <2> QED
      BY <1>2, FS_EmptySet, FS_CardinalityType
  <1>10. Cardinality(UNION {N[i] : i \in 1..n}) = SumFunction(sizes)
    <2> HIDE DEF N, n
    <2> QED
      BY <1>1, <1>2, UnionCount
  <1>11. Cardinality(UNION {F[i] : i \in 1..n}) = SumFunction(failing)
    <2> HIDE DEF F, n
    <2> QED
      BY <1>1, <1>9, UnionCount
  <1>12. \A i \in 1..n : sizes[i] = kept[i] + failing[i]
    <2>1. Cardinality({}) = 0
      BY FS_EmptySet
    <2>2. ASSUME NEW i \in 1..n
          PROVE  Cardinality(N[i])
                   = (IF txs[i].failed THEN 0 ELSE Cardinality(N[i])) + Cardinality(F[i])
      <3>1. Cardinality(F[i]) = IF txs[i].failed THEN Cardinality(N[i]) ELSE 0
        <4> HIDE DEF N, n
        <4> QED
          BY <2>1
      <3>2. Cardinality(N[i]) \in Int
        BY <1>9
      <3> HIDE DEF N, F, n
      <3> QED
        BY <3>1, <3>2
    <2> HIDE DEF N, F, n
    <2> QED
      BY <2>2
  <1>13. sizes \in [1..n -> Int] /\ kept \in [1..n -> Int] /\ failing \in [1..n -> Int]
    <2> HIDE DEF N, F, n
    <2> QED
      BY <1>9
  <1> HIDE DEF N, F, n, sizes, failing, kept, rpc, block, tx, made_by_failures
  <1>14. SumFunction(sizes) = SumFunction(kept) + SumFunction(failing)
    BY <1>1, <1>12, <1>13, SumsTogether
  <1>15. block.new_accounts = rpc.new_accounts + count(made_by_failures)
    BY <1>4, <1>6, <1>8, <1>10, <1>11, <1>14
  <1>16. block.new_accounts = sum_txs(LAMBDA i : tx[i].new_accounts)
    BY <1>5, <1>6, <1>10
  <1> QED
    BY <1>7, <1>15, <1>16 DEF rpc, block, tx, made_by_failures

\* GrowthAddsUp, in every block: the trace and the tables of the transactions
\* show the same slots, of which the block counts each once and those that stay;
\* they show the same accounts, but for those only failing transactions made,
\* and the same code.
THEOREM GrowthHolds == Spec => []GrowthAddsUp
  <1>1. ASSUME BlockInv, ChainInv, GrowthInv PROVE GrowthAddsUp
    <2>1. SUFFICES ASSUME open = Closed
                   PROVE  LET rpc == summarize_rpc_state_growth
                              block == query_xatu_block_state_growth
                              tx == [i \in DOMAIN txs |-> query_xatu_tx_state_creation(i)]
                              made_by_failures ==
                                UNION {tx_new_accounts(i) : i \in reverted_tx_indices}
                              still_new == {p \in Addresses \X Slots :
                                              /\ parent[p[1]].storage[p[2]] = 0
                                              /\ world[p[1]].storage[p[2]] # 0}
                          IN  /\ rpc.new_storage_slots
                                   = sum_txs(LAMBDA i : tx[i].new_storage_slots)
                              /\ rpc.new_storage_slots
                                   = block.zero_to_nonzero_storage_writes
                              /\ block.new_storage_slots
                                   \in count(still_new) .. rpc.new_storage_slots
                              /\ block.new_accounts = sum_txs(LAMBDA i : tx[i].new_accounts)
                              /\ block.new_accounts
                                   = rpc.new_accounts + count(made_by_failures)
                              /\ block.new_accounts <= block.new_account_candidates
                              /\ block.code_bytes = rpc.code_bytes
      BY DEF GrowthAddsUp
    <2> QED
      BY <1>1, <2>1, SlotsAddUp, AccountsAddUp, CodeAddsUp
  <1> QED
    BY <1>1, BlockInvariant, ChainInvariant, GrowthInvariant, PTL
=============================================================================
