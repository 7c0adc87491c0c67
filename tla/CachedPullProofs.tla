--------------------------- MODULE CachedPullProofs ---------------------------
(***************************************************************************)
(* Proofs about the resumable pulls, for any blocks, chunk sizes and       *)
(* quotas and any number of kills: what the checkpoints of the pulls that  *)
(* rename their files hold, and what the pulls that reconcile publish.     *)
(***************************************************************************)
EXTENDS CachedPull, TLAPS, FiniteSetTheorems

-----------------------------------------------------------------------------
(* Chunks.                                                                 *)

\* The blocks before a block are fewer than the blocks.
LEMMA BeforeType ==
  ASSUME NEW S, IsFiniteSet(S), S \subseteq Nat, NEW b \in S
  PROVE  /\ Cardinality(S) \in Nat /\ before(b, S) \in Nat
         /\ before(b, S) < Cardinality(S)
<1> DEFINE P == {c \in S : c < b}
<1>1. /\ IsFiniteSet(S \ {b}) /\ Cardinality(S \ {b}) = Cardinality(S) - 1
      /\ Cardinality(S) \in Nat
  BY FS_RemoveElement, FS_CardinalityType
<1>2. P \in SUBSET (S \ {b})
  OBVIOUS
<1>3. IsFiniteSet(P) /\ Cardinality(P) <= Cardinality(S \ {b})
  BY <1>1, <1>2, FS_Subset
<1>4. Cardinality(P) \in Nat
  BY <1>3, FS_CardinalityType
<1> QED BY <1>1, <1>3, <1>4 DEF before

\* A later block has more before it.
LEMMA BeforeGrows ==
  ASSUME NEW S, IsFiniteSet(S), S \subseteq Nat, NEW b \in S, NEW c \in S, b < c
  PROVE  before(b, S) < before(c, S)
<1> DEFINE P == {x \in S : x < b}
           Q == {x \in S : x < c}
<1>1. P \in SUBSET S /\ Q \in SUBSET S
  OBVIOUS
<1>2. IsFiniteSet(P) /\ IsFiniteSet(Q)
  BY <1>1, FS_Subset
<1>3. IsFiniteSet(P \cup {b}) /\ Cardinality(P \cup {b}) = Cardinality(P) + 1
  <2>1. b \in Nat
    OBVIOUS
  <2>2. b \notin P
    BY <2>1
  <2> HIDE DEF P
  <2> QED BY <1>2, <2>2, FS_AddElement
<1>4. P \cup {b} \in SUBSET Q
  <2>1. b \in Nat /\ c \in Nat
    OBVIOUS
  <2>2. \A x \in P : x \in S /\ x < c
    BY <2>1
  <2> QED BY <2>2
<1>5. Cardinality(P \cup {b}) <= Cardinality(Q)
  BY <1>2, <1>4, FS_Subset
<1>6. Cardinality(P) \in Nat /\ Cardinality(Q) \in Nat
  BY <1>2, FS_CardinalityType
<1> QED BY <1>3, <1>5, <1>6 DEF before

\* The quotient of a number below n is one of the ceiling of n by the divisor.
LEMMA SliceIndex ==
  ASSUME NEW x \in Nat, NEW n \in Nat, NEW d \in Nat \ {0}, x < n
  PROVE  /\ x \div d \in Nat
         /\ (x \div d) + 1 \in 1 .. ((n + d - 1) \div d)
<1> DEFINE q == x \div d
           top == (n + d - 1) \div d
<1>1. q \in Nat /\ d * q <= x
  OBVIOUS
<1>2. n + d - 1 \in Nat
  OBVIOUS
<1>3. top \in Nat /\ n + d - 1 < d * top + d
  BY <1>2
<1> HIDE DEF q, top
<1>4. d * (q + 1) < d * (top + 1)
  <2>1. d * (q + 1) = d * q + d /\ d * (top + 1) = d * top + d
    BY <1>1, <1>3
  <2>2. d * q + d <= n + d - 1
    BY <1>1
  <2> QED BY <1>1, <1>3, <2>1, <2>2
<1>5. q + 1 < top + 1
  BY <1>1, <1>3, <1>4
<1> QED BY <1>1, <1>3, <1>5 DEF q, top

\* No block is in two chunks of the sequence.
Apart(s) == \A i, j \in DOMAIN s : i # j => s[i] \cap s[j] = {}

\* The chunks of a set of blocks are apart and are the blocks.
LEMMA ChunksPartition ==
  ASSUME NEW S, IsFiniteSet(S), S \subseteq Nat, NEW size \in Nat \ {0}
  PROVE  /\ chunks(S, size) \in Seq(SUBSET S)
         /\ Apart(chunks(S, size))
         /\ \A b \in S : \E i \in DOMAIN chunks(S, size) : b \in chunks(S, size)[i]
<1> DEFINE top == (Cardinality(S) + size - 1) \div size
           piece(i) == {b \in S : before(b, S) \div size = i - 1}
<1>1. Cardinality(S) \in Nat
  BY FS_CardinalityType
<1>2. Cardinality(S) + size - 1 \in Nat
  BY <1>1
<1>3. top \in Nat
  BY <1>2
<1> HIDE DEF top
<1>4. chunks(S, size) = [i \in 1 .. top |-> piece(i)]
  BY DEF chunks, top
<1>5. chunks(S, size) \in Seq(SUBSET S) /\ DOMAIN chunks(S, size) = 1 .. top
  <2>1. [i \in 1 .. top |-> piece(i)] \in [1 .. top -> SUBSET S]
    OBVIOUS
  <2>2. [1 .. top -> SUBSET S] \subseteq Seq(SUBSET S)
    BY <1>3
  <2> QED BY <1>4, <2>1, <2>2
<1>6. Apart(chunks(S, size))
  <2> SUFFICES ASSUME NEW i \in 1 .. top, NEW j \in 1 .. top, i # j
               PROVE  piece(i) \cap piece(j) = {}
    BY <1>4 DEF Apart
  <2> QED OBVIOUS
<1>7. ASSUME NEW b \in S
      PROVE  \E i \in DOMAIN chunks(S, size) : b \in chunks(S, size)[i]
  <2>1. before(b, S) \in Nat /\ before(b, S) < Cardinality(S)
    BY BeforeType
  <2> DEFINE x == before(b, S)
             i == (x \div size) + 1
  <2>2. x \div size \in Nat /\ i \in 1 .. top
    BY <1>1, <2>1, SliceIndex DEF top
  <2>3. b \in piece(i)
    BY <2>2
  <2> QED BY <1>4, <2>2, <2>3
<1> QED BY <1>5, <1>6, <1>7

\* The rows of a chunk are one for each of its blocks, whole or lacking.
LEMMA AnsweredRows ==
  ASSUME NEW S, IsFiniteSet(S), S \subseteq Nat, NEW lacking
  PROVE  /\ answered(S, lacking) \in Seq([block : S, state : {"whole", "lacking"}])
         /\ \A b \in S : \E i \in DOMAIN answered(S, lacking) :
              /\ answered(S, lacking)[i].block = b
              /\ answered(S, lacking)[i].state \in {"whole", "lacking"}
<1> DEFINE n == Cardinality(S)
           nth(i) == CHOOSE b \in S : before(b, S) = i - 1
           state(b) == IF b \in lacking THEN "lacking" ELSE "whole"
<1>1. n \in Nat
  BY FS_CardinalityType
<1>2. ASSUME NEW b \in S
      PROVE  before(b, S) \in 0 .. (n - 1)
  <2>1. before(b, S) \in Nat /\ before(b, S) < n
    BY BeforeType
  <2> QED BY <1>1, <2>1
<1>3. \A b, c \in S : before(b, S) = before(c, S) => b = c
  <2> SUFFICES ASSUME NEW b \in S, NEW c \in S, b # c
               PROVE  before(b, S) # before(c, S)
    OBVIOUS
  <2>1. b \in Nat /\ c \in Nat
    OBVIOUS
  <2>2. before(b, S) \in Nat /\ before(c, S) \in Nat
    BY BeforeType
  <2>3. CASE b < c
    <3>1. before(b, S) < before(c, S)
      BY <2>3, BeforeGrows
    <3> QED BY <2>2, <3>1
  <2>4. CASE c < b
    <3>1. before(c, S) < before(b, S)
      BY <2>4, BeforeGrows
    <3> QED BY <2>2, <3>1
  <2> QED BY <2>1, <2>3, <2>4
<1>4. ASSUME NEW i \in 1 .. n
      PROVE  nth(i) \in S /\ before(nth(i), S) = i - 1
  <2> DEFINE f == [b \in S |-> before(b, S)]
  <2>1. f \in Injection(S, 0 .. (n - 1))
    <3>1. f \in [S -> 0 .. (n - 1)]
      BY <1>2
    <3>2. \A b, c \in S : f[b] = f[c] => b = c
      BY <1>3
    <3> QED BY <3>1, <3>2 DEF Injection, IsInjective
  <2>2. IsFiniteSet(0 .. (n - 1)) /\ Cardinality(0 .. (n - 1)) = n
    <3>1. 0 \in Int /\ n - 1 \in Int
      BY <1>1
    <3>2. IsFiniteSet(0 .. (n - 1))
          /\ Cardinality(0 .. (n - 1)) = IF 0 > n - 1 THEN 0 ELSE n - 1 - 0 + 1
      BY <3>1, FS_Interval
    <3> QED BY <1>1, <3>2
  <2>3. f \in Surjection(S, 0 .. (n - 1))
    BY <2>1, <2>2, FS_Injection
  <2>4. i - 1 \in 0 .. (n - 1)
    BY <1>1
  <2>5. \E b \in S : f[b] = i - 1
    BY <2>3, <2>4 DEF Surjection
  <2> QED BY <2>5
<1> HIDE DEF nth
<1>5. answered(S, lacking) = [i \in 1 .. n |-> row(nth(i), state(nth(i)))]
  BY DEF answered, nth
<1> HIDE DEF n
<1>6. answered(S, lacking) \in Seq([block : S, state : {"whole", "lacking"}])
  <2>1. [i \in 1 .. n |-> row(nth(i), state(nth(i)))]
          \in [1 .. n -> [block : S, state : {"whole", "lacking"}]]
    BY <1>4 DEF row
  <2> QED BY <1>1, <1>5, <2>1
<1>7. ASSUME NEW b \in S
      PROVE  \E i \in DOMAIN answered(S, lacking) :
               /\ answered(S, lacking)[i].block = b
               /\ answered(S, lacking)[i].state \in {"whole", "lacking"}
  <2> DEFINE i == before(b, S) + 1
  <2>1. i \in 1 .. n /\ before(b, S) = i - 1
    BY <1>1, <1>2
  <2>2. before(nth(i), S) = before(b, S) /\ nth(i) \in S
    BY <1>4, <2>1
  <2>3. nth(i) = b
    BY <1>3, <2>2
  <2>4. i \in DOMAIN answered(S, lacking) /\ answered(S, lacking)[i] = row(b, state(b))
    BY <1>5, <2>1, <2>3
  <2> QED BY <2>4 DEF row
<1> QED BY <1>6, <1>7

\* A sequence over a set is one over any larger set.
LEMMA LargerSeq ==
  ASSUME NEW A, NEW B, A \subseteq B
  PROVE  Seq(A) \subseteq Seq(B)
<1> SUFFICES ASSUME NEW s \in Seq(A) PROVE s \in Seq(B)
  OBVIOUS
<1>1. Len(s) \in Nat /\ s = [i \in 1 .. Len(s) |-> s[i]] /\ \A i \in 1 .. Len(s) : s[i] \in A
  OBVIOUS
<1>2. \A i \in 1 .. Len(s) : s[i] \in B
  BY <1>1
<1> QED BY <1>1, <1>2

\* Taking the first chunk off leaves the others as they were.
LEMMA TailFacts ==
  ASSUME NEW S, NEW s \in Seq(S), s # <<>>
  PROVE  /\ Tail(s) \in Seq(S) /\ Head(s) \in S
         /\ 1 \in DOMAIN s /\ s[1] = Head(s)
         /\ \A i \in DOMAIN Tail(s) : i + 1 \in DOMAIN s /\ i + 1 # 1 /\ Tail(s)[i] = s[i + 1]
         /\ \A i \in DOMAIN s : i = 1 \/ (i - 1 \in DOMAIN Tail(s) /\ Tail(s)[i - 1] = s[i])
  OBVIOUS

\* The chunks after the first are apart, from each other and from the first.
LEMMA ApartTail ==
  ASSUME NEW S, NEW s \in Seq(S), s # <<>>, Apart(s)
  PROVE  /\ Apart(Tail(s))
         /\ \A i \in DOMAIN Tail(s) : Tail(s)[i] \cap Head(s) = {}
<1>1. ASSUME NEW i \in DOMAIN Tail(s), NEW j \in DOMAIN Tail(s), i # j
      PROVE  Tail(s)[i] \cap Tail(s)[j] = {}
  <2>1. i \in Int /\ j \in Int
    OBVIOUS
  <2>2. i + 1 # j + 1
    BY <1>1, <2>1
  <2> QED BY <2>2, TailFacts DEF Apart
<1>2. ASSUME NEW i \in DOMAIN Tail(s)
      PROVE  Tail(s)[i] \cap Head(s) = {}
  BY TailFacts DEF Apart
<1> QED BY <1>1, <1>2 DEF Apart

\* The first chunks of a sequence are chunks of it, still apart.
LEMMA Prefix ==
  ASSUME NEW S, NEW s \in Seq(S), NEW k \in 0 .. Len(s)
  PROVE  /\ SubSeq(s, 1, k) \in Seq(S)
         /\ \A i \in DOMAIN SubSeq(s, 1, k) : i \in DOMAIN s /\ SubSeq(s, 1, k)[i] = s[i]
         /\ Apart(s) => Apart(SubSeq(s, 1, k))
<1>1. /\ SubSeq(s, 1, k) \in Seq(S)
      /\ \A i \in DOMAIN SubSeq(s, 1, k) : i \in DOMAIN s /\ SubSeq(s, 1, k)[i] = s[i]
  OBVIOUS
<1> QED BY <1>1 DEF Apart

-----------------------------------------------------------------------------
(* The inductive invariant.                                                *)

\* The rows a csv can hold.
Rows == [block : Blocks, state : {"whole", "lacking", "short", "cut", "stray"}]

\* The chunks still to do are apart, and apart from what is recorded.
QueueIsApart ==
  pull \in {"transaction_inputs", "carriers"} =>
    /\ todo \in Seq(SUBSET Blocks)
    /\ Apart(todo)
    /\ \A i \in DOMAIN todo : todo[i] \cap recorded = {}

\* The parts of the transaction inputs share no block.
InputsParts ==
  pull = "transaction_inputs" =>
    /\ phase \in {"idle", "pull"}
    /\ \A c \in DOMAIN parts : parts[c].rows \subseteq c
    /\ \A c, d \in DOMAIN parts : c # d => parts[c].rows \cap parts[d].rows = {}

\* A carrier part is whole, of the settings of the cache, and marked after it
\* is there; what is marked is apart.  A part without a marker may overlap.
CarrierParts ==
  pull = "carriers" =>
    /\ DOMAIN markers \subseteq DOMAIN parts
    /\ \A c \in DOMAIN parts : parts[c] = [rows |-> c, lacking |-> {}, settings |-> manifest]
    /\ \A c \in DOMAIN markers : markers[c] = listing(c)
    /\ \A c, d \in DOMAIN markers : c # d => c \cap d = {}
    /\ manifest = None => DOMAIN parts = {}
    /\ phase \in {"pull", "mark"} => manifest # None
    /\ phase = "mark" => todo # <<>> /\ Head(todo) \in DOMAIN parts

\* While the attribution runs, each block of its input is in a row it holds,
\* possibly one that lost columns, or in a chunk it still has to query.
AttributionRows ==
  pull = "state_attribution" =>
    /\ phase # "mark"
    /\ todo \in Seq(SUBSET Blocks)
    /\ partial.rows \in Seq(Rows) /\ pieces \in Seq(Rows)
    /\ phase = "pull" =>
         \A b \in input :
           \/ \E i \in DOMAIN pieces : pieces[i].block = b /\ pieces[i].state # "stray"
           \/ \E i \in DOMAIN todo : b \in todo[i]

IInv ==
  /\ input \subseteq Blocks
  /\ QueueIsApart /\ InputsParts /\ CarrierParts /\ AttributionRows
  /\ PanelsHaveNoGaps

LEMMA InitInv == Init => IInv
<1> SUFFICES ASSUME Init PROVE IInv
  OBVIOUS
<1> USE DEF Init
<1>1. input \subseteq Blocks
  BY PullAssumption
<1>2. QueueIsApart
  BY DEF QueueIsApart, Apart
<1>3. InputsParts
  BY DEF InputsParts
<1>4. CarrierParts
  BY DEF CarrierParts
<1>5. AttributionRows
  BY DEF AttributionRows, no_file
<1>6. PanelsHaveNoGaps
  BY DEF PanelsHaveNoGaps
<1> QED BY <1>1, <1>2, <1>3, <1>4, <1>5, <1>6 DEF IInv

\* The chunks of blocks of the input.
LEMMA NewChunks ==
  ASSUME NEW X \in SUBSET Blocks, NEW size \in ChunkSizes
  PROVE  /\ chunks(X, size) \in Seq(SUBSET Blocks)
         /\ Apart(chunks(X, size))
         /\ \A i \in DOMAIN chunks(X, size) : chunks(X, size)[i] \subseteq X
         /\ \A b \in X : \E i \in DOMAIN chunks(X, size) : b \in chunks(X, size)[i]
<1>1. IsFiniteSet(X) /\ X \subseteq Nat /\ size \in Nat \ {0}
  BY PullAssumption, FS_Subset
<1>2. /\ chunks(X, size) \in Seq(SUBSET X)
      /\ Apart(chunks(X, size))
      /\ \A b \in X : \E i \in DOMAIN chunks(X, size) : b \in chunks(X, size)[i]
  BY <1>1, ChunksPartition
<1>3. \A i \in DOMAIN chunks(X, size) : chunks(X, size)[i] \in SUBSET X
  BY <1>2
<1>4. chunks(X, size) \in Seq(SUBSET Blocks)
  <2> DEFINE s == chunks(X, size)
  <2> HIDE DEF s
  <2>1. s \in Seq(SUBSET X) /\ \A x \in SUBSET X : x \in SUBSET Blocks
    BY <1>2 DEF s
  <2>2. s \in Seq(SUBSET Blocks)
    BY <2>1
  <2> QED BY <2>2 DEF s
<1> QED BY <1>2, <1>3, <1>4

\* A step that leaves the panel alone leaves no gaps in it.
LEMMA SamePanel ==
  ASSUME IInv, UNCHANGED <<pull, output>>
  PROVE  PanelsHaveNoGaps'
BY DEF IInv, PanelsHaveNoGaps

\* A process that ends without touching parts and markers keeps the invariant,
\* if the panel and the partial csv of the attribution are in order.
LEMMA EndInv ==
  ASSUME IInv, NEW how, Exit(how), UNCHANGED <<pull, input, manifest, parts, markers>>,
         pull = "state_attribution" => partial'.rows \in Seq(Rows),
         PanelsHaveNoGaps'
  PROVE  IInv'
<1> USE DEF IInv, Exit
<1>1. QueueIsApart'
  BY DEF QueueIsApart, Apart
<1>2. InputsParts'
  BY DEF InputsParts
<1>3. CarrierParts'
  BY DEF CarrierParts
<1>4. AttributionRows'
  BY DEF AttributionRows
<1> QED BY <1>1, <1>2, <1>3, <1>4

LEMMA StartInv ==
  ASSUME IInv, NEW size \in ChunkSizes, NEW quota \in Quotas, NEW settings \in Settings,
         Start(size, quota, settings)
  PROVE  IInv'
<1>1. CASE unreadable \/ refused(settings)
  <2>1. \E how : Exit(how)
    BY <1>1 DEF Start
  <2>2. UNCHANGED <<pull, input, manifest, parts, markers, partial, output>>
    BY <1>1 DEF Start
  <2>3. pull = "state_attribution" => partial'.rows \in Seq(Rows)
    BY <2>2 DEF IInv, AttributionRows
  <2>4. PanelsHaveNoGaps'
    BY <2>2, SamePanel
  <2> QED BY <2>1, <2>2, <2>3, <2>4, EndInv
<1>2. CASE ~(unreadable \/ refused(settings))
  <2>1. /\ UNCHANGED <<pull, input, parts, markers, partial, output>>
        /\ manifest' = IF pull = "carriers" THEN settings ELSE None
        /\ phase' = "pull" /\ pieces' = partial.rows
    BY <1>2 DEF Start
  <2>2. input \subseteq Blocks /\ PanelsHaveNoGaps'
    BY <2>1, SamePanel DEF IInv
  <2> DEFINE X == input \ recorded
             new == chunks(X, size)
  <2>3. /\ new \in Seq(SUBSET Blocks) /\ Apart(new)
        /\ \A i \in DOMAIN new : new[i] \subseteq X
        /\ \A b \in X : \E i \in DOMAIN new : b \in new[i]
    BY <2>2, NewChunks
  <2> HIDE DEF X, new
  <2>4. CASE pull \in {"transaction_inputs", "carriers"}
    <3>1. missing_chunks(size) = new
      BY <2>4 DEF missing_chunks, new, X
    <3>2. \E k \in 0 .. Len(new) : todo' = SubSeq(new, 1, k)
      <4>1. quota \in Nat /\ Len(new) \in Nat
        BY <2>3, PullAssumption
      <4>2. todo' = SubSeq(new, 1, IF quota < Len(new) THEN quota ELSE Len(new))
        BY <1>2, <2>4, <3>1 DEF Start
      <4> QED BY <4>1, <4>2
    <3>3. PICK k \in 0 .. Len(new) : todo' = SubSeq(new, 1, k)
      BY <3>2
    <3>4. /\ todo' \in Seq(SUBSET Blocks) /\ Apart(todo')
          /\ \A i \in DOMAIN todo' : i \in DOMAIN new /\ todo'[i] = new[i]
      BY <2>3, <3>3, Prefix
    <3>5. \A i \in DOMAIN todo' : todo'[i] \cap recorded = {}
      BY <2>3, <3>4 DEF X
    <3>6. recorded' = recorded
      BY <2>1, <2>4 DEF recorded, paired, part_rows, Marked, Hashed
    <3>7. QueueIsApart'
      BY <2>4, <3>4, <3>5, <3>6 DEF QueueIsApart, Apart
    <3>8. InputsParts'
      BY <2>1 DEF InputsParts, IInv
    <3>9. CarrierParts'
      <4> SUFFICES ASSUME pull = "carriers" PROVE CarrierParts'
        BY <2>1 DEF CarrierParts
      <4>1. manifest' = settings /\ settings # None
        BY <2>1, PullAssumption
      <4>2. manifest \in {None, settings}
        BY <1>2 DEF refused
      <4>3. manifest = None => DOMAIN parts = {}
        BY DEF IInv, CarrierParts
      <4> QED BY <2>1, <4>1, <4>2, <4>3 DEF IInv, CarrierParts
    <3>10. AttributionRows'
      BY <2>1, <2>4 DEF AttributionRows
    <3> QED BY <2>1, <2>2, <3>7, <3>8, <3>9, <3>10 DEF IInv
  <2>5. CASE pull = "state_attribution"
    <3>1. todo' = new
      BY <1>2, <2>5 DEF Start, missing_chunks, new, X
    <3>2. partial.rows \in Seq(Rows)
      BY <2>5 DEF IInv, AttributionRows
    <3>3. recorded = partial_blocks
      BY <2>5 DEF recorded, Hashed, Marked, InPlace
    <3>4. ASSUME NEW b \in input
          PROVE  \/ \E i \in DOMAIN pieces' : pieces'[i].block = b /\ pieces'[i].state # "stray"
                 \/ \E i \in DOMAIN todo' : b \in todo'[i]
      <4>1. CASE b \in recorded
        <5>1. PICK r \in ToSet(partial.rows) : r.state # "stray" /\ r.block = b
          BY <3>3, <4>1 DEF partial_blocks
        <5>2. PICK i \in DOMAIN partial.rows : partial.rows[i] = r
          BY <5>1 DEF ToSet
        <5> QED BY <2>1, <5>1, <5>2
      <4>2. CASE b \notin recorded
        BY <2>3, <3>1, <4>2 DEF X
      <4> QED BY <4>1, <4>2
    <3>5. AttributionRows'
      BY <2>1, <2>3, <3>1, <3>2, <3>4 DEF AttributionRows
    <3> QED BY <2>1, <2>2, <2>5, <3>5 DEF IInv, QueueIsApart, InputsParts, CarrierParts
  <2>6. CASE pull \notin {"transaction_inputs", "carriers", "state_attribution"}
    BY <2>1, <2>2, <2>6 DEF IInv, QueueIsApart, InputsParts, CarrierParts, AttributionRows
  <2> QED BY <2>4, <2>5, <2>6
<1> QED BY <1>1, <1>2

\* What is recorded, now and after a step.
LEMMA RecordedIs ==
  /\ pull = "transaction_inputs" =>
       recorded = UNION {parts[c].rows : c \in DOMAIN parts}
  /\ pull = "carriers" =>
       recorded = UNION {markers[c].blocks : c \in DOMAIN parts \cap DOMAIN markers}
<1>1. ASSUME pull = "transaction_inputs"
      PROVE  recorded = UNION {parts[c].rows : c \in DOMAIN parts}
  BY <1>1 DEF recorded, part_rows, Hashed, Marked
<1>2. ASSUME pull = "carriers"
      PROVE  recorded = UNION {markers[c].blocks : c \in DOMAIN parts \cap DOMAIN markers}
  BY <1>2 DEF recorded, paired, Marked
<1> QED BY <1>1, <1>2

LEMMA RecordedBecomes ==
  /\ pull' = "transaction_inputs" =>
       recorded' = UNION {parts'[c].rows : c \in DOMAIN parts'}
  /\ pull' = "carriers" =>
       recorded' = UNION {markers'[c].blocks : c \in DOMAIN parts' \cap DOMAIN markers'}
<1>1. ASSUME pull' = "transaction_inputs"
      PROVE  recorded' = UNION {parts'[c].rows : c \in DOMAIN parts'}
  BY <1>1 DEF recorded, part_rows, Hashed, Marked
<1>2. ASSUME pull' = "carriers"
      PROVE  recorded' = UNION {markers'[c].blocks : c \in DOMAIN parts' \cap DOMAIN markers'}
  BY <1>2 DEF recorded, paired, Marked
<1> QED BY <1>1, <1>2

\* With the carriers, the blocks recorded are those of the marked chunks.
LEMMA MarkedAreRecorded ==
  ASSUME IInv, pull = "carriers"
  PROVE  recorded = UNION DOMAIN markers
<1>1. recorded = UNION {markers[c].blocks : c \in DOMAIN parts \cap DOMAIN markers}
  BY RecordedIs
<1>2. DOMAIN parts \cap DOMAIN markers = DOMAIN markers
  BY DEF IInv, CarrierParts
<1>3. \A c \in DOMAIN markers : markers[c].blocks = c
  BY DEF IInv, CarrierParts, listing
<1> QED BY <1>1, <1>2, <1>3

\* The first chunk holds no recorded block, and the others none of it.
LEMMA HeadIsNew ==
  ASSUME IInv, pull \in {"transaction_inputs", "carriers"}, todo # <<>>
  PROVE  /\ Head(todo) \subseteq Blocks
         /\ Head(todo) \cap recorded = {}
         /\ Tail(todo) \in Seq(SUBSET Blocks) /\ Apart(Tail(todo))
         /\ \A i \in DOMAIN Tail(todo) :
              Tail(todo)[i] \cap Head(todo) = {} /\ Tail(todo)[i] \cap recorded = {}
<1>1. /\ todo \in Seq(SUBSET Blocks) /\ Apart(todo)
      /\ \A i \in DOMAIN todo : todo[i] \cap recorded = {}
  BY DEF IInv, QueueIsApart
<1>2. /\ Tail(todo) \in Seq(SUBSET Blocks) /\ Head(todo) \in SUBSET Blocks
      /\ 1 \in DOMAIN todo /\ todo[1] = Head(todo)
      /\ \A i \in DOMAIN Tail(todo) : i + 1 \in DOMAIN todo /\ Tail(todo)[i] = todo[i + 1]
  BY <1>1, TailFacts
<1>3. /\ Apart(Tail(todo))
      /\ \A i \in DOMAIN Tail(todo) : Tail(todo)[i] \cap Head(todo) = {}
  BY <1>1, ApartTail
<1> QED BY <1>1, <1>2, <1>3

\* What a part of the transaction inputs adds to what is recorded.
LEMMA InputsPartAdds ==
  ASSUME IInv, NEW rows, NEW lacking, WritePart(rows, lacking), pull = "transaction_inputs"
  PROVE  /\ recorded' = recorded \cup rows /\ rows \subseteq Head(todo)
         /\ DOMAIN parts' = DOMAIN parts \cup {Head(todo)}
         /\ parts'[Head(todo)].rows = rows
         /\ \A c \in DOMAIN parts : c # Head(todo) => parts'[c] = parts[c]
<1> DEFINE h == Head(todo)
           part == [rows |-> rows, lacking |-> lacking, settings |-> manifest]
<1>1. /\ parts' = put(parts, h, part) /\ pull' = pull /\ rows \subseteq h /\ todo # <<>>
  BY DEF WritePart
<1>2. h \cap recorded = {}
  BY <1>1, HeadIsNew
<1> HIDE DEF h
<1>3. /\ DOMAIN parts' = DOMAIN parts \cup {h}
      /\ parts'[h].rows = rows
      /\ \A c \in DOMAIN parts : c # h => parts'[c] = parts[c]
  BY <1>1 DEF put
<1>4. /\ recorded = UNION {parts[c].rows : c \in DOMAIN parts}
      /\ recorded' = UNION {parts'[c].rows : c \in DOMAIN parts'}
  BY <1>1, RecordedIs, RecordedBecomes
<1>5. h \in DOMAIN parts => parts[h].rows = {}
  <2>1. h \in DOMAIN parts => parts[h].rows \subseteq h
    BY DEF IInv, InputsParts
  <2> QED BY <1>2, <1>4, <2>1
<1>6. recorded' = recorded \cup rows
  BY <1>3, <1>4, <1>5
<1> QED BY <1>1, <1>3, <1>6 DEF h

LEMMA WritePartInv ==
  ASSUME IInv, NEW rows, NEW lacking, WritePart(rows, lacking)
  PROVE  IInv'
<1> DEFINE h == Head(todo)
<1>1. /\ parts' = put(parts, h, [rows |-> rows, lacking |-> lacking, settings |-> manifest])
      /\ UNCHANGED <<pull, input, manifest, markers, partial, output, pieces>>
      /\ phase = "pull" /\ todo # <<>> /\ pull \in Hashed /\ rows \subseteq h
  BY DEF WritePart
<1>2. input' \subseteq Blocks /\ PanelsHaveNoGaps'
  BY <1>1, SamePanel DEF IInv
<1>3. CASE pull = "transaction_inputs"
  <2>1. todo' = Tail(todo) /\ phase' = "pull"
    BY <1>3 DEF WritePart, Marked
  <2>2. /\ recorded' = recorded \cup rows
        /\ DOMAIN parts' = DOMAIN parts \cup {h}
        /\ parts'[h].rows = rows
        /\ \A c \in DOMAIN parts : c # h => parts'[c] = parts[c]
    BY <1>3, InputsPartAdds
  <2>3. /\ h \cap recorded = {}
        /\ Tail(todo) \in Seq(SUBSET Blocks) /\ Apart(Tail(todo))
        /\ \A i \in DOMAIN Tail(todo) :
             Tail(todo)[i] \cap h = {} /\ Tail(todo)[i] \cap recorded = {}
    BY <1>1, <1>3, HeadIsNew
  <2>4. QueueIsApart'
    BY <1>1, <1>3, <2>1, <2>2, <2>3 DEF QueueIsApart, Apart
  <2> HIDE DEF h
  <2>5. InputsParts'
    <3>1. \A c \in DOMAIN parts : parts[c].rows \subseteq c /\ parts[c].rows \subseteq recorded
      BY <1>3, RecordedIs DEF IInv, InputsParts
    <3>2. \A c \in DOMAIN parts' : parts'[c].rows \subseteq c
      BY <1>1, <2>2, <3>1
    <3>3. ASSUME NEW c \in DOMAIN parts', NEW d \in DOMAIN parts', c # d
          PROVE  parts'[c].rows \cap parts'[d].rows = {}
      <4>1. CASE c # h /\ d # h
        BY <1>3, <2>2, <3>3, <4>1 DEF IInv, InputsParts
      <4>2. CASE c = h
        BY <1>1, <2>2, <2>3, <3>1, <3>3, <4>2
      <4>3. CASE d = h
        BY <1>1, <2>2, <2>3, <3>1, <3>3, <4>3
      <4> QED BY <4>1, <4>2, <4>3
    <3> QED BY <2>1, <3>2, <3>3 DEF InputsParts
  <2> QED BY <1>1, <1>2, <1>3, <2>4, <2>5 DEF IInv, CarrierParts, AttributionRows
<1>4. CASE pull = "carriers"
  <2>1. todo' = todo /\ phase' = "mark" /\ rows = h /\ lacking = {}
    BY <1>4 DEF WritePart, Marked
  <2>2. manifest # None /\ h \cap recorded = {}
    BY <1>1, <1>4, HeadIsNew DEF IInv, CarrierParts
  <2> HIDE DEF h
  <2>3. /\ DOMAIN parts' = DOMAIN parts \cup {h}
        /\ parts'[h] = [rows |-> h, lacking |-> {}, settings |-> manifest]
        /\ \A c \in DOMAIN parts : c # h => parts'[c] = parts[c]
    BY <1>1, <2>1 DEF put
  <2>4. CarrierParts'
    BY <1>1, <1>4, <2>1, <2>2, <2>3 DEF IInv, CarrierParts, h
  <2>5. recorded' = recorded
    <3>1. recorded = UNION {markers[c].blocks : c \in DOMAIN parts \cap DOMAIN markers}
      BY <1>4, RecordedIs
    <3>2. recorded' = UNION {markers'[c].blocks : c \in DOMAIN parts' \cap DOMAIN markers'}
      BY <1>1, <1>4, RecordedBecomes
    <3>3. /\ DOMAIN parts \cap DOMAIN markers = DOMAIN markers
          /\ DOMAIN parts' \cap DOMAIN markers' = DOMAIN markers
      BY <1>1, <1>4, <2>3 DEF IInv, CarrierParts
    <3> QED BY <1>1, <3>1, <3>2, <3>3
  <2>6. QueueIsApart'
    BY <1>1, <1>4, <2>1, <2>5 DEF IInv, QueueIsApart, Apart
  <2> QED BY <1>1, <1>2, <1>4, <2>4, <2>6 DEF IInv, InputsParts, AttributionRows
<1>5. CASE pull \notin {"transaction_inputs", "carriers"}
  BY <1>1, <1>2, <1>5 DEF IInv, QueueIsApart, InputsParts, CarrierParts, AttributionRows, Hashed
<1> QED BY <1>3, <1>4, <1>5

LEMMA MarkerAdds ==
  ASSUME IInv, WriteMarker, pull = "carriers"
  PROVE  /\ recorded' = recorded \cup Head(todo) /\ todo # <<>>
         /\ DOMAIN markers' = DOMAIN markers \cup {Head(todo)}
         /\ markers'[Head(todo)] = listing(Head(todo))
         /\ \A c \in DOMAIN markers : c # Head(todo) => markers'[c] = markers[c]
<1> DEFINE h == Head(todo)
<1>1. /\ markers' = put(markers, h, listing(h)) /\ UNCHANGED <<pull, parts>>
      /\ phase = "mark"
  BY DEF WriteMarker
<1>2. todo # <<>> /\ h \in DOMAIN parts
  BY <1>1 DEF IInv, CarrierParts
<1> HIDE DEF h
<1>3. /\ DOMAIN markers' = DOMAIN markers \cup {h}
      /\ markers'[h] = listing(h)
      /\ \A c \in DOMAIN markers : c # h => markers'[c] = markers[c]
  BY <1>1 DEF put
<1>4. \A c \in DOMAIN markers' : c \in DOMAIN parts' /\ markers'[c].blocks = c
  BY <1>1, <1>2, <1>3 DEF IInv, CarrierParts, listing
<1>5. recorded' = UNION {markers'[c].blocks : c \in DOMAIN parts' \cap DOMAIN markers'}
  BY <1>1, RecordedBecomes
<1>6. recorded' = UNION DOMAIN markers'
  BY <1>4, <1>5
<1>7. recorded = UNION DOMAIN markers
  BY MarkedAreRecorded
<1>8. recorded' = recorded \cup h
  BY <1>3, <1>6, <1>7
<1> QED BY <1>2, <1>3, <1>8 DEF h

LEMMA WriteMarkerInv ==
  ASSUME IInv, WriteMarker
  PROVE  IInv'
<1>1. /\ phase = "mark" /\ phase' = "pull" /\ todo' = Tail(todo)
      /\ UNCHANGED <<pull, input, manifest, parts, partial, output, pieces>>
  BY DEF WriteMarker
<1>2. pull \notin {"transaction_inputs", "state_attribution"}
  BY <1>1 DEF IInv, InputsParts, AttributionRows
<1>3. PanelsHaveNoGaps'
  BY <1>1, SamePanel
<1>4. CASE pull = "carriers"
  <2> DEFINE h == Head(todo)
  <2>1. /\ recorded' = recorded \cup h /\ todo # <<>>
        /\ DOMAIN markers' = DOMAIN markers \cup {h}
        /\ markers'[h] = listing(h)
        /\ \A c \in DOMAIN markers : c # h => markers'[c] = markers[c]
    BY <1>4, MarkerAdds
  <2>2. /\ h \cap recorded = {}
        /\ Tail(todo) \in Seq(SUBSET Blocks) /\ Apart(Tail(todo))
        /\ \A i \in DOMAIN Tail(todo) :
             Tail(todo)[i] \cap h = {} /\ Tail(todo)[i] \cap recorded = {}
    BY <1>4, <2>1, HeadIsNew
  <2>3. h \in DOMAIN parts
    BY <1>1, <1>4 DEF IInv, CarrierParts
  <2> HIDE DEF h
  <2>4. QueueIsApart'
    BY <1>1, <1>4, <2>1, <2>2 DEF QueueIsApart, Apart
  <2>5. recorded = UNION DOMAIN markers
    BY <1>4, MarkedAreRecorded
  <2>6. \A c, d \in DOMAIN markers' : c # d => c \cap d = {}
    BY <1>4, <2>1, <2>2, <2>5 DEF IInv, CarrierParts
  <2>7. \A c \in DOMAIN markers' : markers'[c] = listing(c)
    BY <1>4, <2>1 DEF IInv, CarrierParts
  <2>8. \A c \in DOMAIN parts' : parts'[c] = [rows |-> c, lacking |-> {}, settings |-> manifest']
    BY <1>1, <1>4 DEF IInv, CarrierParts
  <2>9. /\ manifest' # None /\ manifest' = manifest /\ DOMAIN markers' \subseteq DOMAIN parts'
    BY <1>1, <1>4, <2>1, <2>3 DEF IInv, CarrierParts
  <2>10. CarrierParts'
    BY <1>1, <2>6, <2>7, <2>8, <2>9 DEF CarrierParts, listing
  <2> QED BY <1>1, <1>2, <1>3, <2>4, <2>10 DEF IInv, InputsParts, AttributionRows
<1>5. CASE pull \notin {"transaction_inputs", "carriers", "state_attribution"}
  BY <1>1, <1>3, <1>5 DEF IInv, QueueIsApart, InputsParts, CarrierParts, AttributionRows
<1> QED BY <1>2, <1>4, <1>5

\* The rows of a chunk go after the rows held; a csv can hold them.
LEMMA MorePieces ==
  ASSUME IInv, pull = "state_attribution", todo # <<>>, NEW lacking
  PROVE  /\ pieces \o answered(Head(todo), lacking) \in Seq(Rows)
         /\ pieces \in Seq(Rows) /\ Tail(todo) \in Seq(SUBSET Blocks)
         /\ \A i \in DOMAIN pieces :
              /\ i \in DOMAIN (pieces \o answered(Head(todo), lacking))
              /\ (pieces \o answered(Head(todo), lacking))[i] = pieces[i]
         /\ \A b \in Head(todo) :
              \E i \in DOMAIN (pieces \o answered(Head(todo), lacking)) :
                /\ (pieces \o answered(Head(todo), lacking))[i].block = b
                /\ (pieces \o answered(Head(todo), lacking))[i].state # "stray"
<1> DEFINE h == Head(todo)
           more == pieces \o answered(Head(todo), lacking)
<1>1. pieces \in Seq(Rows) /\ todo \in Seq(SUBSET Blocks)
  BY DEF IInv, AttributionRows
<1>2. Tail(todo) \in Seq(SUBSET Blocks) /\ h \in SUBSET Blocks
  BY <1>1, TailFacts
<1>3. IsFiniteSet(h) /\ h \subseteq Nat
  BY <1>2, PullAssumption, FS_Subset
<1> DEFINE w == answered(h, lacking)
<1>4. /\ w \in Seq([block : h, state : {"whole", "lacking"}])
      /\ \A b \in h : \E i \in DOMAIN w : w[i].block = b /\ w[i].state \in {"whole", "lacking"}
  BY <1>3, AnsweredRows
<1> HIDE DEF h, w, more
<1>5. w \in Seq(Rows)
  <2>1. [block : h, state : {"whole", "lacking"}] \subseteq Rows
    BY <1>2 DEF Rows
  <2> HIDE DEF Rows
  <2> QED BY <1>4, <2>1, LargerSeq, Zenon
<1>6. more = pieces \o w
  BY DEF w, h, more
<1>7. /\ more \in Seq(Rows)
      /\ \A i \in DOMAIN pieces : i \in DOMAIN more /\ more[i] = pieces[i]
      /\ \A i \in DOMAIN w : Len(pieces) + i \in DOMAIN more /\ more[Len(pieces) + i] = w[i]
  <2>1. /\ pieces \o w \in Seq(Rows)
        /\ \A i \in DOMAIN pieces : i \in DOMAIN (pieces \o w) /\ (pieces \o w)[i] = pieces[i]
        /\ \A i \in DOMAIN w :
             Len(pieces) + i \in DOMAIN (pieces \o w) /\ (pieces \o w)[Len(pieces) + i] = w[i]
    <3> HIDE DEF Rows
    <3> QED BY <1>1, <1>5
  <2> QED BY <1>6, <2>1
<1>8. ASSUME NEW b \in h
      PROVE  \E i \in DOMAIN more : more[i].block = b /\ more[i].state # "stray"
  <2>1. PICK i \in DOMAIN w : w[i].block = b /\ w[i].state \in {"whole", "lacking"}
    BY <1>4
  <2> QED BY <1>7, <2>1
<1> QED BY <1>1, <1>2, <1>7, <1>8 DEF h, more

LEMMA RewritePartialInv ==
  ASSUME IInv, NEW lacking, RewritePartial(lacking)
  PROVE  IInv'
<1>1. /\ UNCHANGED <<pull, input, manifest, parts, markers, output, phase>>
      /\ phase = "pull" /\ todo # <<>> /\ pull \in InPlace
      /\ pieces' = pieces \o answered(Head(todo), lacking)
      /\ partial' = csv(in_file_order(pieces')) /\ todo' = Tail(todo)
  BY DEF RewritePartial
<1>2. pull \notin {"transaction_inputs", "carriers"}
  BY <1>1 DEF InPlace
<1>3. PanelsHaveNoGaps'
  BY <1>1, SamePanel
<1>4. CASE pull = "state_attribution"
  <2>1. partial' = csv(pieces')
    BY <1>1, <1>4 DEF in_file_order
  <2>2. /\ pieces' \in Seq(Rows) /\ todo' \in Seq(SUBSET Blocks)
        /\ \A i \in DOMAIN pieces : i \in DOMAIN pieces' /\ pieces'[i] = pieces[i]
        /\ \A b \in Head(todo) : \E i \in DOMAIN pieces' :
             pieces'[i].block = b /\ pieces'[i].state # "stray"
    BY <1>1, <1>4, MorePieces
  <2>3. partial'.rows \in Seq(Rows)
    BY <2>1, <2>2 DEF csv
  <2>4. ASSUME NEW b \in input
        PROVE  \/ \E i \in DOMAIN pieces' : pieces'[i].block = b /\ pieces'[i].state # "stray"
               \/ \E i \in DOMAIN todo' : b \in todo'[i]
    <3>1. CASE \E i \in DOMAIN pieces : pieces[i].block = b /\ pieces[i].state # "stray"
      BY <2>2, <3>1
    <3>2. CASE \E i \in DOMAIN todo : b \in todo[i]
      <4>1. PICK i \in DOMAIN todo : b \in todo[i]
        BY <3>2
      <4>2. todo \in Seq(SUBSET Blocks)
        BY <1>4 DEF IInv, AttributionRows
      <4>3. i = 1 \/ (i - 1 \in DOMAIN todo' /\ todo'[i - 1] = todo[i])
        BY <1>1, <4>2, TailFacts
      <4>4. CASE i = 1
        <5>1. b \in Head(todo)
          BY <1>1, <4>1, <4>2, <4>4, TailFacts
        <5> QED BY <2>2, <5>1
      <4> QED BY <4>1, <4>3, <4>4
    <3> QED BY <1>1, <1>4, <3>1, <3>2 DEF IInv, AttributionRows
  <2>5. AttributionRows'
    BY <1>1, <1>4, <2>2, <2>3, <2>4 DEF IInv, AttributionRows
  <2> QED BY <1>1, <1>2, <1>3, <2>5 DEF IInv, QueueIsApart, InputsParts, CarrierParts
<1>5. CASE pull # "state_attribution"
  BY <1>1, <1>2, <1>3, <1>5 DEF IInv, QueueIsApart, InputsParts, CarrierParts, AttributionRows
<1> QED BY <1>4, <1>5

-----------------------------------------------------------------------------
(* Publication and kills.                                                  *)

\* A merged attribution without gaps has a row, that lost no column, of each
\* block of its input.
LEMMA MergedRows ==
  ASSUME IInv, pull = "state_attribution", phase = "pull", todo = <<>>,
         ~has_gaps, ~unreconciled, NEW b \in input
  PROVE  merged(b) \in {"whole", "short"}
<1> DEFINE r == CHOOSE s \in ToSet(pieces) : s.block = b /\ s.state # "stray"
<1>1. \E i \in DOMAIN pieces : pieces[i].block = b /\ pieces[i].state # "stray"
  BY DEF IInv, AttributionRows
<1>2. \E s \in ToSet(pieces) : s.block = b /\ s.state # "stray"
  BY <1>1 DEF ToSet
<1>3. r \in ToSet(pieces)
  BY <1>2
<1>4. r.state \notin {"lacking", "cut", "stray"}
  BY <1>3 DEF has_gaps, unreconciled
<1>5. r \in Rows
  <2>1. pieces \in Seq(Rows)
    BY DEF IInv, AttributionRows
  <2> HIDE DEF Rows, r
  <2>2. \A x \in ToSet(pieces) : x \in Rows
    BY <2>1 DEF ToSet
  <2> QED BY <1>3, <2>2
<1>6. r.state \in {"whole", "lacking", "short", "cut", "stray"}
  BY <1>5 DEF Rows
<1>7. merged(b) = IF r.state = "cut" THEN "zero" ELSE r.state
  BY DEF merged
<1> QED BY <1>4, <1>6, <1>7

\* What a kill leaves of a csv is a csv of rows.
LEMMA TornRows ==
  ASSUME NEW rows \in Seq(Rows), NEW left \in torn_csv(rows)
  PROVE  left.rows \in Seq(Rows)
<1>1. CASE left = blank
  BY <1>1 DEF blank
<1>2. CASE left # blank
  <2>1. PICK n \in DOMAIN rows : \E state \in damaged(rows[n].state) :
               left = csv(Append(SubSeq(rows, 1, n - 1), row(rows[n].block, state)))
    BY <1>2, Zenon DEF torn_csv
  <2>2. PICK state \in damaged(rows[n].state) :
               left = csv(Append(SubSeq(rows, 1, n - 1), row(rows[n].block, state)))
    BY <2>1
  <2>3. rows[n] \in Rows
    <3> HIDE DEF Rows
    <3> QED OBVIOUS
  <2>4. rows[n].block \in Blocks /\ rows[n].state \in {"whole", "lacking", "short", "cut", "stray"}
    BY <2>3 DEF Rows
  <2>5. state \in {"whole", "lacking", "short", "cut", "stray"}
    BY <2>4 DEF damaged
  <2>6. row(rows[n].block, state) \in Rows
    BY <2>4, <2>5 DEF row, Rows
  <2> DEFINE torn_row == row(rows[n].block, state)
  <2> HIDE DEF torn_row, Rows
  <2>7. Append(SubSeq(rows, 1, n - 1), torn_row) \in Seq(Rows)
    <3>1. n - 1 \in 0 .. Len(rows) /\ torn_row \in Rows
      BY <2>6 DEF torn_row
    <3>2. SubSeq(rows, 1, n - 1) \in Seq(Rows)
      BY <3>1, Prefix
    <3> QED BY <3>1, <3>2
  <2>8. left.rows = Append(SubSeq(rows, 1, n - 1), torn_row)
    BY <2>2 DEF csv, torn_row
  <2> QED BY <2>7, <2>8
<1> QED BY <1>1, <1>2

\* The rows of the attribution's csv, where a step leaves it alone.
LEMMA FilesInOrder ==
  ASSUME IInv, pull = "state_attribution"
  PROVE  partial.rows \in Seq(Rows)
  BY DEF IInv, AttributionRows

\* A panel merged from parts is whole: those that compare refuse a part that
\* lacks something, and no carrier part does.
LEMMA PartsGiveWhole ==
  ASSUME IInv, PublishParts
  PROVE  PanelsHaveNoGaps'
<1>1. pull' = pull /\ pull \in Hashed
  BY DEF PublishParts
<1>2. pull # "state_attribution"
  BY <1>1 DEF Hashed
<1>3. CASE UNCHANGED output
  BY <1>1, <1>3, SamePanel
<1>4. CASE output' # output
  <2> SUFFICES ASSUME pull \in Renaming, NEW b \in DOMAIN output'
               PROVE  output'[b] = "whole"
    BY <1>1, <1>2 DEF PanelsHaveNoGaps
  <2>1. /\ output' = [x \in UNION {parts[c].rows : c \in read_parts} |->
                         IF \E c \in read_parts : x \in parts[c].lacking
                         THEN "lacking" ELSE "whole"]
        /\ ~differs
    BY <1>4 DEF PublishParts
  <2>2. ASSUME NEW c \in read_parts
        PROVE  parts[c].lacking = {}
    <3>1. CASE pull \in Compared
      BY <2>1, <2>2, <3>1 DEF differs, amiss
    <3>2. CASE pull \notin Compared
      <4>1. pull = "carriers"
        BY <3>2 DEF Renaming, Hashed, Compared
      <4>2. c \in DOMAIN parts
        BY <2>2, <4>1 DEF read_parts, paired, Marked
      <4> QED BY <4>1, <4>2 DEF IInv, CarrierParts
    <3> QED BY <3>1, <3>2
  <2> QED BY <2>1, <2>2
<1> QED BY <1>3, <1>4

LEMMA PublishPartsInv ==
  ASSUME IInv, PublishParts
  PROVE  IInv'
<1>1. /\ UNCHANGED <<pull, input, manifest, parts, markers, partial>>
      /\ pull \in Hashed /\ phase = "pull"
  BY DEF PublishParts
<1>2. pull # "state_attribution"
  BY <1>1 DEF Hashed
<1>3. (\E how : Exit(how)) \/ (phase' = "blocks" /\ pull = "carriers" /\ UNCHANGED run)
  BY DEF PublishParts
<1>6. PanelsHaveNoGaps'
  BY PartsGiveWhole
<1>4. CASE \E how : Exit(how)
  BY <1>1, <1>2, <1>4, <1>6, EndInv
<1>5. CASE phase' = "blocks" /\ pull = "carriers" /\ UNCHANGED run
  <2>1. todo' = todo
    BY <1>5 DEF run
  <2>2. QueueIsApart'
    <3>1. recorded' = recorded
      <4>1. recorded = UNION {markers[c].blocks : c \in DOMAIN parts \cap DOMAIN markers}
        BY <1>5, RecordedIs
      <4>2. recorded' = UNION {markers'[c].blocks : c \in DOMAIN parts' \cap DOMAIN markers'}
        BY <1>1, <1>5, RecordedBecomes
      <4> QED BY <1>1, <4>1, <4>2
    <3> QED BY <1>1, <2>1, <3>1 DEF IInv, QueueIsApart, Apart
  <2>3. CarrierParts'
    BY <1>1, <1>5, <2>1 DEF IInv, CarrierParts
  <2> QED BY <1>1, <1>5, <1>6, <2>2, <2>3 DEF IInv, InputsParts, AttributionRows
<1> QED BY <1>3, <1>4, <1>5

\* A panel merged from the partial csv of the attribution is whole or short.
LEMMA PartialGivesRows ==
  ASSUME IInv, pull \in InPlace, phase = "pull", todo = <<>>, pull' = pull,
         pull = "state_attribution" => ~has_gaps /\ ~unreconciled,
         output' = [b \in input |-> merged(b)]
  PROVE  PanelsHaveNoGaps'
<1>1. pull \notin Renaming
  BY DEF InPlace, Renaming, Hashed
<1>2. ASSUME pull = "state_attribution", NEW b \in input
      PROVE  merged(b) \in {"whole", "short"}
  BY <1>2, MergedRows
<1> QED BY <1>1, <1>2 DEF PanelsHaveNoGaps

LEMMA PublishPartialInv ==
  ASSUME IInv, PublishPartial
  PROVE  IInv'
<1>1. /\ UNCHANGED <<pull, input, manifest, parts, markers, partial>>
      /\ pull \in InPlace /\ phase = "pull" /\ todo = <<>>
  BY DEF PublishPartial
<1>2. pull \notin {"transaction_inputs", "carriers"}
  BY <1>1 DEF InPlace
<1>3. CASE pull = "state_attribution" /\ (has_gaps \/ unreconciled)
  <2>1. Exit("refused") /\ UNCHANGED output
    BY <1>3 DEF PublishPartial
  <2> QED BY <1>1, <2>1, EndInv, SamePanel, FilesInOrder
<1>4. CASE ~(pull = "state_attribution" /\ (has_gaps \/ unreconciled))
  <2>1. output' = [b \in input |-> merged(b)] /\ phase' = "unlink" /\ UNCHANGED run
    BY <1>4 DEF PublishPartial
  <2>2. todo' = todo /\ pieces' = pieces
    BY <2>1 DEF run
  <2>3. PanelsHaveNoGaps'
    BY <1>1, <1>4, <2>1, PartialGivesRows
  <2> QED BY <1>1, <1>2, <2>1, <2>2, <2>3
        DEF IInv, QueueIsApart, InputsParts, CarrierParts, AttributionRows
<1> QED BY <1>3, <1>4

LEMMA KilledInv ==
  ASSUME IInv, NEW lacking, Killed,
         KilledBetweenWrites \/ KilledInMarker \/ KilledInPartial(lacking) \/ KilledInOutput
  PROVE  IInv'
<1>1. UNCHANGED <<pull, input, manifest, parts>> /\ Exit("killed")
  BY DEF Killed
<1>2. CASE KilledBetweenWrites
  BY <1>1, <1>2, EndInv, SamePanel, FilesInOrder DEF KilledBetweenWrites
<1>3. CASE KilledInMarker
  <2>1. pull = "execution_components" /\ UNCHANGED output
    BY <1>3 DEF KilledInMarker
  <2>2. PanelsHaveNoGaps'
    BY <1>1, <2>1, SamePanel
  <2> QED BY <1>1, <2>1, <2>2 DEF IInv, QueueIsApart, InputsParts, CarrierParts, AttributionRows
<1>4. CASE KilledInPartial(lacking)
  <2>1. /\ UNCHANGED <<markers, output>> /\ todo # <<>>
        /\ partial' \in torn_csv(in_file_order(pieces \o answered(Head(todo), lacking)))
    BY <1>4 DEF KilledInPartial
  <2>2. ASSUME pull = "state_attribution"
        PROVE  partial'.rows \in Seq(Rows)
    <3>1. pieces \o answered(Head(todo), lacking) \in Seq(Rows)
      BY <2>1, <2>2, MorePieces
    <3>2. partial' \in torn_csv(pieces \o answered(Head(todo), lacking))
      BY <2>1, <2>2 DEF in_file_order
    <3> QED BY <3>1, <3>2, TornRows
  <2> QED BY <1>1, <2>1, <2>2, EndInv, SamePanel
<1>5. CASE KilledInOutput
  <2>1. /\ UNCHANGED <<markers, partial>> /\ phase = "pull" /\ todo = <<>>
        /\ pull = "state_attribution" => ~has_gaps /\ ~unreconciled
        /\ output' = [b \in input |-> merged(b)] /\ pull \in InPlace
    BY <1>5 DEF KilledInOutput
  <2>2. PanelsHaveNoGaps'
    BY <1>1, <2>1, PartialGivesRows
  <2> QED BY <1>1, <2>1, <2>2, EndInv, FilesInOrder
<1> QED BY <1>2, <1>3, <1>4, <1>5

-----------------------------------------------------------------------------
(* Theorems.                                                               *)

LEMMA NextInv == IInv /\ [Next]_vars => IInv'
<1> SUFFICES ASSUME IInv, [Next]_vars PROVE IInv'
  OBVIOUS
<1>1. CASE \E b \in Blocks : InputGrows(b)
  <2>1. PICK b \in Blocks : InputGrows(b)
    BY <1>1
  <2>2. /\ input' = input \cup {b} /\ phase = "idle" /\ phase' = phase
        /\ UNCHANGED <<pull, manifest, parts, markers, partial, output, todo, pieces>>
    BY <2>1 DEF InputGrows, disk, run
  <2>3. input' \subseteq Blocks /\ PanelsHaveNoGaps'
    BY <2>2, SamePanel DEF IInv
  <2>4. QueueIsApart'
    <3>1. pull \in {"transaction_inputs", "carriers"} => recorded' = recorded
      BY <2>2, RecordedIs, RecordedBecomes
    <3> QED BY <2>2, <3>1 DEF IInv, QueueIsApart, Apart
  <2>5. InputsParts' /\ CarrierParts' /\ AttributionRows'
    BY <2>2 DEF IInv, InputsParts, CarrierParts, AttributionRows
  <2> QED BY <2>3, <2>4, <2>5 DEF IInv
<1>2. CASE \E size \in ChunkSizes, quota \in Quotas, settings \in Settings :
             Start(size, quota, settings)
  BY <1>2, StartInv
<1>3. CASE \E rows \in SUBSET Blocks : \E lacking \in SUBSET rows : WritePart(rows, lacking)
  BY <1>3, WritePartInv
<1>4. CASE WriteMarker
  BY <1>4, WriteMarkerInv
<1>5. CASE \E lacking \in SUBSET Blocks : RewritePartial(lacking)
  BY <1>5, RewritePartialInv
<1>6. CASE QueryFails
  <2>1. Exit("failed") /\ UNCHANGED <<pull, input, manifest, parts, markers, partial, output>>
    BY <1>6 DEF QueryFails, disk
  <2> QED BY <2>1, EndInv, SamePanel, FilesInOrder
<1>7. CASE PublishParts
  BY <1>7, PublishPartsInv
<1>8. CASE PublishBlocks
  BY <1>8, EndInv, SamePanel, FilesInOrder DEF PublishBlocks
<1>9. CASE PublishPartial
  BY <1>9, PublishPartialInv
<1>10. CASE Unlink
  <2>1. Exit("done") /\ UNCHANGED <<pull, input, manifest, parts, markers, output>>
        /\ partial'.rows = <<>>
    BY <1>10 DEF Unlink, no_file
  <2> QED BY <2>1, EndInv, SamePanel
<1>11. CASE \E lacking \in SUBSET Blocks :
               KilledBetweenWrites \/ KilledInMarker \/ KilledInPartial(lacking) \/ KilledInOutput
  <2>1. PICK lacking \in SUBSET Blocks :
          KilledBetweenWrites \/ KilledInMarker \/ KilledInPartial(lacking) \/ KilledInOutput
    BY <1>11
  <2>2. Killed
    BY <2>1 DEF KilledBetweenWrites, KilledInMarker, KilledInPartial, KilledInOutput
  <2> QED BY <2>1, <2>2, KilledInv
<1>12. CASE UNCHANGED vars
  <2>1. UNCHANGED <<pull, input, manifest, parts, markers, partial, output, phase, todo, pieces>>
    BY <1>12 DEF vars
  <2>2. pull \in {"transaction_inputs", "carriers"} => recorded' = recorded
    BY <2>1, RecordedIs, RecordedBecomes
  <2>3. QueueIsApart'
    BY <2>1, <2>2 DEF IInv, QueueIsApart, Apart
  <2>4. InputsParts' /\ CarrierParts' /\ AttributionRows'
    BY <2>1 DEF IInv, InputsParts, CarrierParts, AttributionRows
  <2>5. PanelsHaveNoGaps'
    BY <2>1, SamePanel
  <2> QED BY <2>1, <2>3, <2>4, <2>5 DEF IInv
<1> QED BY <1>1, <1>2, <1>3, <1>4, <1>5, <1>6, <1>7, <1>8, <1>9, <1>10, <1>11, <1>12 DEF Next

\* The files and the memory of a pull fit together in every state.
THEOREM PullInvariant == Spec => []IInv
<1> QED BY InitInv, NextInv, PTL DEF Spec

LEMMA NoOverlap == IInv => PartsNeverOverlap
<1> SUFFICES ASSUME IInv, pull \in {"transaction_inputs", "carriers"},
                    NEW c \in paired, NEW d \in paired, c # d
             PROVE  parts[c].rows \cap parts[d].rows = {}
  BY DEF PartsNeverOverlap, overlapping
<1>1. CASE pull = "transaction_inputs"
  <2>1. c \in DOMAIN parts /\ d \in DOMAIN parts
    BY <1>1 DEF paired, Marked
  <2> QED BY <1>1, <2>1 DEF IInv, InputsParts
<1>2. CASE pull = "carriers"
  <2>1. /\ c \in DOMAIN parts /\ d \in DOMAIN parts
        /\ c \in DOMAIN markers /\ d \in DOMAIN markers
    BY <1>2 DEF paired, Marked
  <2>2. parts[c].rows = c /\ parts[d].rows = d /\ c \cap d = {}
    BY <1>2, <2>1 DEF IInv, CarrierParts
  <2> QED BY <2>2
<1> QED BY <1>1, <1>2

\* The parts that count never hold a block twice, whatever chunk sizes and
\* inputs the runs had and wherever they were killed.
THEOREM PartsStayApart == Spec => []PartsNeverOverlap
<1> QED BY PullInvariant, NoOverlap, PTL

LEMMA OneSetting == IInv => OneSettingPerCache
  BY DEF IInv, CarrierParts, OneSettingPerCache

\* The parts of a carrier cache have the settings its manifest says.
THEOREM CachesHaveOneSetting == Spec => []OneSettingPerCache
<1> QED BY PullInvariant, OneSetting, PTL

LEMMA NoGaps == IInv => PanelsHaveNoGaps
  BY DEF IInv

\* A pull that reconciles its panel publishes no row that misses transactions
\* and no column filled in, though the answers it cached may be incomplete and
\* the file it was resumed from torn.
THEOREM PublishedPanelsAreWhole == Spec => []PanelsHaveNoGaps
<1> QED BY PullInvariant, NoGaps, PTL

\* A step of a pull that renames its files adds a part or a marker, or none.
LEMMA StepKeeps ==
  ASSUME IInv, [Next]_vars, pull \in {"transaction_inputs", "carriers"}
  PROVE  /\ recorded \subseteq recorded'
         /\ \A c \in DOMAIN parts' : c \in DOMAIN parts \/ c \cap recorded = {}
<1>1. CASE \E rows \in SUBSET Blocks : \E lacking \in SUBSET rows : WritePart(rows, lacking)
  <2>1. PICK rows \in SUBSET Blocks, lacking \in SUBSET Blocks : WritePart(rows, lacking)
    BY <1>1
  <2>2. /\ parts' = put(parts, Head(todo),
                        [rows |-> rows, lacking |-> lacking, settings |-> manifest])
        /\ UNCHANGED <<pull, markers>> /\ todo # <<>>
    BY <2>1 DEF WritePart
  <2>3. /\ DOMAIN parts' = DOMAIN parts \cup {Head(todo)}
        /\ Head(todo) \cap recorded = {}
    BY <2>2, HeadIsNew DEF put
  <2>4. CASE pull = "transaction_inputs"
    BY <2>1, <2>3, <2>4, InputsPartAdds
  <2>5. CASE pull = "carriers"
    <3>1. recorded = UNION {markers[c].blocks : c \in DOMAIN parts \cap DOMAIN markers}
      BY <2>5, RecordedIs
    <3>2. recorded' = UNION {markers'[c].blocks : c \in DOMAIN parts' \cap DOMAIN markers'}
      BY <2>2, <2>5, RecordedBecomes
    <3>3. recorded \subseteq recorded'
      BY <2>2, <2>3, <3>1, <3>2
    <3> QED BY <2>3, <3>3
  <2> QED BY <2>4, <2>5
<1>2. CASE WriteMarker
  <2>1. pull = "carriers"
    BY <1>2 DEF WriteMarker, IInv, InputsParts
  <2>2. UNCHANGED parts
    BY <1>2 DEF WriteMarker
  <2> QED BY <1>2, <2>1, <2>2, MarkerAdds
<1>3. CASE /\ ~(\E rows \in SUBSET Blocks : \E lacking \in SUBSET rows : WritePart(rows, lacking))
          /\ ~WriteMarker
  <2>1. UNCHANGED <<pull, parts, markers>>
    <3> USE DEF InPlace, disk, Killed
    <3>1. CASE \E b \in Blocks : InputGrows(b)
      BY <3>1 DEF InputGrows
    <3>2. CASE \E size \in ChunkSizes, quota \in Quotas, settings \in Settings :
                 Start(size, quota, settings)
      BY <3>2 DEF Start
    <3>3. CASE (\E lacking \in SUBSET Blocks : RewritePartial(lacking)) \/ QueryFails
      BY <3>3 DEF RewritePartial, QueryFails
    <3>4. CASE PublishParts \/ PublishBlocks \/ PublishPartial \/ Unlink
      BY <3>4 DEF PublishParts, PublishBlocks, PublishPartial, Unlink
    <3>5. CASE KilledBetweenWrites \/ KilledInMarker
      BY <3>5 DEF KilledBetweenWrites, KilledInMarker
    <3>6. CASE (\E lacking \in SUBSET Blocks : KilledInPartial(lacking)) \/ KilledInOutput
      BY <3>6 DEF KilledInPartial, KilledInOutput
    <3>7. CASE UNCHANGED vars
      BY <3>7 DEF vars
    <3> QED BY <1>3, <3>1, <3>2, <3>3, <3>4, <3>5, <3>6, <3>7 DEF Next
  <2>2. recorded' = recorded
    BY <2>1, RecordedIs, RecordedBecomes
  <2> QED BY <2>1, <2>2
<1> QED BY <1>1, <1>2, <1>3

\* No step of these pulls loses a recorded block or queries it again.
THEOREM NothingIsLost == Spec => CheckpointsAreKept
<1>1. IInv /\ [Next]_vars =>
        [(pull \in {"transaction_inputs", "carriers"}) =>
           /\ recorded \subseteq recorded'
           /\ \A c \in DOMAIN parts' : c \in DOMAIN parts \/ c \cap recorded = {}]_vars
  BY StepKeeps
<1> QED BY <1>1, PullInvariant, PTL DEF Spec, CheckpointsAreKept

=============================================================================
