----------------------------- MODULE Lpm_proofs -----------------------------
(***************************************************************************)
(* Both tries find the longest prefix, for every table, address width, key *)
(* width and order of insertion the program allows.                        *)
(***************************************************************************)
EXTENDS Lpm, FiniteSetTheorems, WellFoundedInduction, TLAPS

-----------------------------------------------------------------------------
(* Numbers.                                                                *)

\* A set of natural numbers has a least one.
LEMMA LeastExists ==
  ASSUME NEW S, S \subseteq Nat, S # {}
  PROVE  \E x \in S : \A y \in S : x <= y
<1> DEFINE R == OpToRel(<, Nat)
<1>1. IsWellFoundedOn(R, Nat)
  BY NatLessThanWellFounded
<1>2. \A x, y \in Nat : <<x, y>> \in R <=> x < y
  BY DEF OpToRel
<1> HIDE DEF R
<1>3. PICK x \in S : \A y \in S : ~ (<<y, x>> \in R)
  BY <1>1, WFMin
<1>4. \A y \in S : x <= y
  <2> TAKE y \in S
  <2>1. x \in Nat /\ y \in Nat
    OBVIOUS
  <2>2. ~ (y < x)
    BY <1>2, <1>3, <2>1
  <2> QED  BY <2>1, <2>2
<1> QED  BY <1>4

\* A bounded set has a greatest element: its distance from the bound is the least.
LEMMA GreatestExists ==
  ASSUME NEW m \in Nat, NEW S, S \subseteq 0 .. m, S # {}
  PROVE  \E x \in S : \A y \in S : x >= y
<1> DEFINE T == {m - k : k \in S}
<1>1. T \subseteq Nat /\ T # {}
  <2>1. \A k \in 0 .. m : m - k \in Nat
    OBVIOUS
  <2> QED  BY <2>1
<1>2. PICK t \in T : \A y \in T : t <= y
  BY <1>1, LeastExists
<1>3. PICK x \in S : t = m - x
  BY <1>2
<1>4. \A y \in S : x >= y
  <2> TAKE y \in S
  <2>1. m - y \in T /\ x \in 0 .. m /\ y \in 0 .. m
    OBVIOUS
  <2>2. m - x <= m - y
    BY <1>2, <1>3, <2>1
  <2> QED  BY <2>1, <2>2
<1> QED  BY <1>4

\* The depths of the nodes of the compressed trie.
Levels == {k * K : k \in Nat}

\* Levels are K apart, from 0 on.
LEMMA LevelFacts ==
  /\ 0 \in Levels /\ K \in Levels /\ 2 * K \in Levels
  /\ \A n \in Levels : n \in Nat /\ n + K \in Levels /\ (n # 0 => n - K \in Levels)
  /\ \A m, n \in Levels : m < n => m + K <= n
<1>1. K \in Nat \ {0}
  BY LpmAssumption
<1>2. 0 = 0 * K /\ K = 1 * K
  BY <1>1
<1>3. ASSUME NEW k \in Nat
      PROVE  /\ k * K \in Nat /\ k * K + K = (k + 1) * K
             /\ k # 0 => k - 1 \in Nat /\ k * K - K = (k - 1) * K
  BY <1>1
<1>4. ASSUME NEW j \in Nat, NEW k \in Nat, j * K < k * K
      PROVE  j * K + K <= k * K
  <2>1. CASE k <= j
    <3>1. PICK i \in Nat : j = k + i
      <4>1. j - k \in Nat /\ j = k + (j - k)
        BY <2>1
      <4> QED  BY <4>1
    <3>2. j * K = k * K + i * K /\ i * K \in Nat /\ k * K \in Nat
      BY <1>1, <3>1
    <3> QED  BY <1>4, <3>2
  <2>2. CASE k > j
    <3>1. PICK i \in Nat : k = j + 1 + i
      <4>1. k - j - 1 \in Nat /\ k = j + 1 + (k - j - 1)
        BY <2>2
      <4> QED  BY <4>1
    <3>2. k * K = j * K + K + i * K /\ i * K \in Nat /\ j * K \in Nat
      BY <1>1, <3>1
    <3> QED  BY <1>1, <3>2
  <2> QED  BY <2>1, <2>2
<1>5. \A n \in Levels : n \in Nat /\ n + K \in Levels /\ (n # 0 => n - K \in Levels)
  <2> SUFFICES ASSUME NEW k \in Nat
               PROVE  /\ k * K \in Nat /\ k * K + K \in Levels
                      /\ k * K # 0 => k * K - K \in Levels
    BY DEF Levels
  <2>1. k * K \in Nat /\ k * K + K = (k + 1) * K /\ k + 1 \in Nat
    BY <1>3
  <2>2. k * K # 0 => k # 0
    BY <1>2
  <2>3. k # 0 => k - 1 \in Nat /\ k * K - K = (k - 1) * K
    BY <1>3
  <2> QED  BY <2>1, <2>2, <2>3 DEF Levels
<1>6. 0 \in Levels /\ K \in Levels
  BY <1>2 DEF Levels
<1>7. 2 * K \in Levels
  <2>1. 2 * K = K + K
    BY <1>1
  <2> QED  BY <1>5, <1>6, <2>1
<1>8. \A m, n \in Levels : m < n => m + K <= n
  BY <1>4 DEF Levels
<1> QED  BY <1>5, <1>6, <1>7, <1>8

-----------------------------------------------------------------------------
(* Bits.                                                                   *)

\* The bits of a way are those of the address.
LEMMA WayFacts ==
  ASSUME NEW d, NEW n \in Nat
  PROVE  /\ DOMAIN Way(d, n) = 1 .. n
         /\ \A i \in 1 .. n : Way(d, n)[i] = Bit(d, i) /\ Bit(Way(d, n), i) = Bit(d, i)
BY DEF Way, Bit

\* What is cut out of a bit string are bit strings.
LEMMA BitsFacts ==
  ASSUME NEW m \in Nat, NEW d \in Bits(m)
  PROVE  /\ \A i : Bit(d, i) \in {0, 1}
         /\ \A n \in Nat : Way(d, n) \in Bits(n) /\ Key(d, n) \in Slots
         /\ DOMAIN d = 1 .. m /\ Way(d, m) = d
<1>1. /\ \A i \in 1 .. m : d[i] \in {0, 1} /\ Bit(d, i) = d[i]
      /\ DOMAIN d = 1 .. m /\ d = [i \in 1 .. m |-> d[i]]
  BY DEF Bits, Bit
<1>2. \A i : Bit(d, i) \in {0, 1}
  BY <1>1 DEF Bit
<1>3. \A n \in Nat : Way(d, n) \in Bits(n) /\ Key(d, n) \in Slots
  BY <1>2 DEF Way, Key, Bits, Slots
<1>4. Way(d, m) = d
  BY <1>1 DEF Way
<1> QED  BY <1>1, <1>2, <1>3, <1>4

\* A way tells how deep it goes.
LEMMA WayDepth ==
  ASSUME NEW d, NEW e, NEW i \in Nat, NEW j \in Nat, Way(d, i) = Way(e, j)
  PROVE  i = j
<1>1. 1 .. i = 1 .. j
  BY WayFacts
<1>2. (i > 0 => i \in 1 .. j) /\ (j > 0 => j \in 1 .. i)
  BY <1>1
<1> QED  BY <1>2

\* A bit string has one length.
LEMMA BitsDepth ==
  ASSUME NEW i \in Nat, NEW j \in Nat, NEW d \in Bits(i), d \in Bits(j)
  PROVE  i = j
<1>1. Way(d, i) = d /\ Way(d, j) = d
  BY BitsFacts
<1> QED  BY <1>1, WayDepth

\* Of two ways that are equal the first parts are.
LEMMA WayBefore ==
  ASSUME NEW d, NEW e, NEW k \in Nat, NEW j \in 0 .. k, Way(d, k) = Way(e, k)
  PROVE  Way(d, j) = Way(e, j)
<1>1. \A i \in 1 .. j : i \in 1 .. k
  OBVIOUS
<1>2. \A i \in 1 .. j : Bit(d, i) = Bit(e, i)
  BY <1>1, WayFacts
<1> QED  BY <1>2 DEF Way

\* The beginning of a beginning.
LEMMA WayOfWay ==
  ASSUME NEW d, NEW k \in Nat, NEW j \in 0 .. k
  PROVE  Way(Way(d, k), j) = Way(d, j)
<1>1. \A i \in 1 .. j : i \in 1 .. k
  OBVIOUS
<1>2. \A i \in 1 .. j : Bit(Way(d, k), i) = Bit(d, i)
  BY <1>1, WayFacts
<1> QED  BY <1>2 DEF Way

\* A key that lies in a way is that of the address.
LEMMA KeyOfWay ==
  ASSUME NEW d, NEW n \in Nat
  PROVE  Key(Way(d, n + K), n) = Key(d, n)
<1>1. K \in Nat
  BY LpmAssumption
<1>2. \A i \in 1 .. K : n + i \in 1 .. n + K
  BY <1>1
<1>3. \A i \in 1 .. K : Bit(Way(d, n + K), n + i) = Bit(d, n + i)
  BY <1>1, <1>2, WayFacts
<1> QED  BY <1>3 DEF Key

\* A way is known from the way to the level above and the key there.
LEMMA SameBits ==
  ASSUME NEW n \in Nat, NEW q \in Bits(n + K), NEW r \in Bits(n + K),
         Way(q, n) = Way(r, n), Key(q, n) = Key(r, n)
  PROVE  q = r
<1>1. K \in Nat
  BY LpmAssumption
<1>2. DOMAIN q = 1 .. n + K /\ DOMAIN r = 1 .. n + K
  BY <1>1, BitsFacts
<1>3. ASSUME NEW i \in 1 .. n + K PROVE q[i] = r[i]
  <2>1. q[i] = Bit(q, i) /\ r[i] = Bit(r, i)
    BY <1>2 DEF Bit
  <2>2. CASE i \in 1 .. n
    BY <2>1, <2>2, WayFacts
  <2>3. CASE i \notin 1 .. n
    <3>1. i - n \in 1 .. K /\ n + (i - n) = i
      BY <1>1, <2>3
    <3>2. Key(q, n)[i - n] = Bit(q, i) /\ Key(r, n)[i - n] = Bit(r, i)
      BY <3>1 DEF Key
    <3> QED  BY <2>1, <3>2
  <2> QED  BY <2>2, <2>3
<1>4. q = [i \in 1 .. n + K |-> q[i]] /\ r = [i \in 1 .. n + K |-> r[i]]
  BY DEF Bits
<1> QED  BY <1>3, <1>4

\* The way one level deeper.
LEMMA Deeper ==
  ASSUME NEW n \in Nat, NEW q \in Bits(n), NEW s \in Slots
  PROVE  \E r \in Bits(n + K) : Way(r, n) = q /\ Key(r, n) = s
<1> DEFINE r == [i \in 1 .. n + K |-> IF i <= n THEN q[i] ELSE s[i - n]]
<1>1. K \in Nat
  BY LpmAssumption
<1>2. /\ \A i \in 1 .. n + K : i <= n => i \in 1 .. n /\ q[i] \in {0, 1}
      /\ \A i \in 1 .. n + K : ~(i <= n) => i - n \in 1 .. K
  BY <1>1 DEF Bits
<1>3. \A i \in 1 .. K : s[i] \in {0, 1}
  BY DEF Slots, Bits
<1>4. r \in Bits(n + K)
  BY <1>2, <1>3 DEF Bits
<1>5. \A i \in 1 .. n : Bit(r, i) = q[i]
  BY <1>1 DEF Bit
<1>6. \A i \in 1 .. K : Bit(r, n + i) = s[i]
  <2> TAKE i \in 1 .. K
  <2>1. n + i \in 1 .. n + K /\ ~(n + i <= n) /\ (n + i) - n = i
    BY <1>1
  <2> QED  BY <2>1 DEF Bit
<1> HIDE DEF r
<1>7. q = [i \in 1 .. n |-> q[i]] /\ s = [i \in 1 .. K |-> s[i]]
  BY DEF Slots, Bits
<1>8. Way(r, n) = q /\ Key(r, n) = s
  BY <1>5, <1>6, <1>7 DEF Way, Key
<1> QED  BY <1>4, <1>8

\* A prefix that ends between two levels is told from the key.
LEMMA WayByKey ==
  ASSUME NEW n \in Nat, NEW m \in 0 .. K, NEW q, NEW r
  PROVE  Way(q, n + m) = Way(r, n + m)
           <=> Way(q, n) = Way(r, n) /\ Way(Key(q, n), m) = Way(Key(r, n), m)
<1>1. K \in Nat /\ m \in Nat
  BY LpmAssumption
<1>2. \A d : \A i \in 1 .. m : Bit(Key(d, n), i) = Bit(d, n + i)
  BY <1>1 DEF Key, Bit
<1>3. ASSUME Way(q, n + m) = Way(r, n + m)
      PROVE  Way(q, n) = Way(r, n) /\ Way(Key(q, n), m) = Way(Key(r, n), m)
  <2>1. Way(q, n) = Way(r, n)
    BY <1>1, <1>3, WayBefore
  <2>2. \A i \in 1 .. m : Bit(q, n + i) = Bit(r, n + i)
    <3> TAKE i \in 1 .. m
    <3>1. n + i \in 1 .. n + m /\ n + m \in Nat
      BY <1>1
    <3> QED  BY <1>3, <3>1, WayFacts
  <2> QED  BY <1>2, <2>1, <2>2 DEF Way
<1>4. ASSUME Way(q, n) = Way(r, n), Way(Key(q, n), m) = Way(Key(r, n), m)
      PROVE  Way(q, n + m) = Way(r, n + m)
  <2>1. \A i \in 1 .. n : Bit(q, i) = Bit(r, i)
    BY <1>4, WayFacts
  <2>2. \A i \in 1 .. m : Bit(q, n + i) = Bit(r, n + i)
    <3> TAKE i \in 1 .. m
    <3>1. Bit(Key(q, n), i) = Bit(Key(r, n), i)
      <4>1. \A d : Way(Key(d, n), m)[i] = Bit(Key(d, n), i)
        BY <1>1, WayFacts
      <4> QED  BY <1>4, <4>1
    <3> QED  BY <1>2, <3>1
  <2>3. ASSUME NEW i \in 1 .. n + m PROVE Bit(q, i) = Bit(r, i)
    <3>1. i \in 1 .. n \/ (i - n \in 1 .. m /\ n + (i - n) = i)
      BY <1>1
    <3> QED  BY <2>1, <2>2, <3>1
  <2> QED  BY <2>3 DEF Way
<1> QED  BY <1>3, <1>4

-----------------------------------------------------------------------------
(* Slots and their places in packed arrays.                                *)

AtOrBefore(s, t) == s = t \/ Before(s, t)
UpTo(S, slot)    == {s \in S : AtOrBefore(s, slot)}

\* The slots are ordered as the numbers they stand for.
LEMMA SlotOrder ==
  /\ \A s \in Slots : ~Before(s, s)
  /\ \A s, t, u \in Slots : Before(s, t) /\ Before(t, u) => Before(s, u)
  /\ \A s, t \in Slots : s = t \/ Before(s, t) \/ Before(t, s)
<1>1. \A s \in Slots : \A i \in 1 .. K : s[i] \in Nat
  BY DEF Slots, Bits
<1>2. \A s \in Slots : ~Before(s, s)
  BY <1>1 DEF Before
<1>3. ASSUME NEW s \in Slots, NEW t \in Slots, NEW u \in Slots, Before(s, t), Before(t, u)
      PROVE  Before(s, u)
  <2>1. PICK i \in 1 .. K : s[i] < t[i] /\ \A k \in 1 .. i - 1 : s[k] = t[k]
    BY <1>3 DEF Before
  <2>2. PICK j \in 1 .. K : t[j] < u[j] /\ \A k \in 1 .. j - 1 : t[k] = u[k]
    BY <1>3 DEF Before
  <2>3. CASE i < j
    <3>1. i \in 1 .. j - 1 /\ \A k \in 1 .. i - 1 : k \in 1 .. j - 1
      BY <2>3
    <3>2. s[i] < u[i] /\ \A k \in 1 .. i - 1 : s[k] = u[k]
      BY <2>1, <2>2, <3>1
    <3> QED  BY <3>2 DEF Before
  <2>4. CASE i = j
    <3>1. s[i] < u[i]
      BY <1>1, <2>1, <2>2, <2>4
    <3> QED  BY <2>1, <2>2, <2>4, <3>1 DEF Before
  <2>5. CASE j < i
    <3>1. j \in 1 .. i - 1 /\ \A k \in 1 .. j - 1 : k \in 1 .. i - 1
      BY <2>5
    <3>2. s[j] < u[j] /\ \A k \in 1 .. j - 1 : s[k] = u[k]
      BY <2>1, <2>2, <3>1
    <3> QED  BY <3>2 DEF Before
  <2> QED  BY <2>3, <2>4, <2>5
<1>4. ASSUME NEW s \in Slots, NEW t \in Slots, s # t
      PROVE  Before(s, t) \/ Before(t, s)
  <2> DEFINE D == {i \in 1 .. K : s[i] # t[i]}
  <2>1. D # {}
    <3>1. s = [i \in 1 .. K |-> s[i]] /\ t = [i \in 1 .. K |-> t[i]]
      BY DEF Slots, Bits
    <3> QED  BY <1>4, <3>1
  <2>2. D \subseteq Nat
    OBVIOUS
  <2>3. PICK i \in D : \A k \in D : i <= k
    <3> HIDE DEF D
    <3> QED  BY <2>1, <2>2, LeastExists
  <2>4. \A k \in 1 .. i - 1 : s[k] = t[k]
    <3> TAKE k \in 1 .. i - 1
    <3>1. k \in 1 .. K /\ ~(i <= k)
      <4>1. i \in 1 .. K /\ K \in Nat
        BY LpmAssumption
      <4> QED  BY <4>1
    <3> QED  BY <2>3, <3>1
  <2>5. s[i] < t[i] \/ t[i] < s[i]
    BY <1>1, <2>3
  <2> QED  BY <2>4, <2>5 DEF Before
<1> QED  BY <1>2, <1>3, <1>4

\* A slot is told from the set of its bits that are set.
LEMMA SlotsFinite == IsFiniteSet(Slots)
<1> DEFINE ones == [s \in Slots |-> {i \in 1 .. K : s[i] = 1}]
<1>1. IsFiniteSet(SUBSET (1 .. K))
  <2>1. K \in Int /\ 1 \in Int
    BY LpmAssumption
  <2>2. IsFiniteSet(1 .. K)
    BY <2>1, FS_Interval
  <2> QED  BY <2>2, FS_SUBSET
<1>2. ones \in Injection(Slots, SUBSET (1 .. K))
  <2>1. ones \in [Slots -> SUBSET (1 .. K)]
    OBVIOUS
  <2>2. ASSUME NEW s \in Slots, NEW t \in Slots, ones[s] = ones[t]
        PROVE  s = t
    <3>1. \A i \in 1 .. K : s[i] \in {0, 1} /\ t[i] \in {0, 1}
      BY DEF Slots, Bits
    <3>2. \A i \in 1 .. K : s[i] = 1 <=> t[i] = 1
      BY <2>2
    <3>3. s = [i \in 1 .. K |-> s[i]] /\ t = [i \in 1 .. K |-> t[i]]
      BY DEF Slots, Bits
    <3> QED  BY <3>1, <3>2, <3>3
  <2> QED  BY <2>1, <2>2 DEF Injection, IsInjective
<1> QED  BY <1>1, <1>2, FS_Injection

\* A rank is a number of slots, which are finitely many.
LEMMA RankIs ==
  ASSUME NEW S \in SUBSET Slots
  PROVE  /\ IsFiniteSet(S) /\ Cardinality(S) \in Nat
         /\ \A s : /\ Rank(S, s) = Cardinality(UpTo(S, s)) /\ Rank(S, s) \in Nat
                   /\ Rank(S, s) <= Cardinality(S) /\ IsFiniteSet(UpTo(S, s))
<1>1. IsFiniteSet(S) /\ Cardinality(S) \in Nat
  BY SlotsFinite, FS_Subset, FS_CardinalityType
<1>2. \A s : Rank(S, s) = Cardinality(UpTo(S, s)) /\ UpTo(S, s) \in SUBSET S
  BY DEF Rank, UpTo, AtOrBefore
<1> QED  BY <1>1, <1>2, FS_Subset, FS_CardinalityType

\* Ranks grow with the slots, and at each element of the set.
LEMMA RankGrows ==
  ASSUME NEW S \in SUBSET Slots, NEW s \in Slots, NEW t \in Slots
  PROVE  /\ AtOrBefore(s, t) => Rank(S, s) <= Rank(S, t)
         /\ Before(s, t) /\ t \in S => Rank(S, s) < Rank(S, t)
         /\ s \in S => Rank(S, s) >= 1
<1>1. ASSUME AtOrBefore(s, t)
      PROVE  UpTo(S, s) \subseteq UpTo(S, t)
  BY <1>1, SlotOrder DEF UpTo, AtOrBefore
<1>2. AtOrBefore(s, t) => Rank(S, s) <= Rank(S, t)
  <2> SUFFICES ASSUME AtOrBefore(s, t) PROVE Rank(S, s) <= Rank(S, t)
    OBVIOUS
  <2>1. UpTo(S, s) \in SUBSET UpTo(S, t)
    BY <1>1
  <2> QED  BY <2>1, RankIs, FS_Subset
<1>3. ASSUME Before(s, t), t \in S
      PROVE  Rank(S, s) < Rank(S, t)
  <2>1. UpTo(S, s) \in SUBSET UpTo(S, t)
    BY <1>1, <1>3 DEF AtOrBefore
  <2>2. t \in UpTo(S, t) /\ t \notin UpTo(S, s)
    BY <1>3, SlotOrder DEF UpTo, AtOrBefore
  <2>3. /\ Cardinality(UpTo(S, s)) <= Cardinality(UpTo(S, t))
        /\ Cardinality(UpTo(S, s)) # Cardinality(UpTo(S, t))
    BY <2>1, <2>2, RankIs, FS_Subset
  <2> QED  BY <2>3, RankIs
<1>4. ASSUME s \in S PROVE Rank(S, s) >= 1
  <2>1. UpTo(S, s) # {}
    BY <1>4 DEF UpTo, AtOrBefore
  <2>2. Rank(S, s) # 0
    BY <2>1, RankIs, FS_EmptySet
  <2> QED  BY <2>2, RankIs
<1> QED  BY <1>2, <1>3, <1>4

\* Two slots of a set have different places.
LEMMA RankOnce ==
  ASSUME NEW S \in SUBSET Slots, NEW s \in S, NEW t \in S, Rank(S, s) = Rank(S, t)
  PROVE  s = t
<1>1. Rank(S, s) \in Nat
  BY RankIs
<1>2. ~Before(s, t) /\ ~Before(t, s)
  BY <1>1, RankGrows
<1> QED  BY <1>2, SlotOrder

\* A new slot takes those after it one place on.
LEMMA RankAdd ==
  ASSUME NEW S \in SUBSET Slots, NEW x \in Slots, x \notin S, NEW s
  PROVE  /\ Cardinality(S \cup {x}) = Cardinality(S) + 1
         /\ Rank(S \cup {x}, s) = IF AtOrBefore(x, s) THEN Rank(S, s) + 1 ELSE Rank(S, s)
<1>1. UpTo(S \cup {x}, s) = IF AtOrBefore(x, s) THEN UpTo(S, s) \cup {x} ELSE UpTo(S, s)
  BY DEF UpTo
<1>2. x \notin UpTo(S, s)
  BY DEF UpTo
<1>3. S \cup {x} \in SUBSET Slots
  OBVIOUS
<1>4. IsFiniteSet(UpTo(S, s)) /\ Rank(S, s) = Cardinality(UpTo(S, s)) /\ IsFiniteSet(S)
  BY RankIs
<1>5. Rank(S \cup {x}, s) = Cardinality(UpTo(S \cup {x}, s))
  BY <1>3, RankIs
<1>6. Cardinality(UpTo(S, s) \cup {x}) = Cardinality(UpTo(S, s)) + 1
  BY <1>2, <1>4, FS_AddElement
<1> QED  BY <1>1, <1>4, <1>5, <1>6, FS_AddElement

\* Without a slot those after it come one place nearer.
LEMMA RankRemove ==
  ASSUME NEW S \in SUBSET Slots, NEW x \in S, NEW s
  PROVE  /\ Cardinality(S \ {x}) = Cardinality(S) - 1
         /\ Rank(S \ {x}, s) = IF AtOrBefore(x, s) THEN Rank(S, s) - 1 ELSE Rank(S, s)
<1> DEFINE T == S \ {x}
<1>1. T \in SUBSET Slots /\ x \in Slots /\ x \notin T /\ T \cup {x} = S
  OBVIOUS
<1> HIDE DEF T
<1>2. /\ Cardinality(S) = Cardinality(T) + 1
      /\ Rank(S, s) = IF AtOrBefore(x, s) THEN Rank(T, s) + 1 ELSE Rank(T, s)
  BY <1>1, RankAdd
<1>3. Cardinality(T) \in Nat /\ Rank(T, s) \in Nat
  BY <1>1, RankIs
<1> QED  BY <1>2, <1>3 DEF T

\* Between elements of the set ranks do not change.
LEMMA RankBetween ==
  ASSUME NEW S \in SUBSET Slots, NEW b \in Slots, NEW s \in Slots, AtOrBefore(b, s),
         \A x \in S : AtOrBefore(x, s) => AtOrBefore(x, b)
  PROVE  Rank(S, b) = Rank(S, s)
<1>1. UpTo(S, b) = UpTo(S, s)
  BY SlotOrder DEF UpTo, AtOrBefore
<1> QED  BY <1>1, RankIs

\* There is a first slot in every set of slots that is not empty.
LEMMA FirstIs ==
  ASSUME NEW S \in SUBSET Slots, S # {}
  PROVE  First(S) \in S /\ \A t \in S : AtOrBefore(First(S), t)
<1> DEFINE R == {Rank(Slots, s) : s \in S}
<1>1. R \subseteq Nat /\ R # {}
  BY RankIs
<1>2. PICK r \in R : \A y \in R : r <= y
  BY <1>1, LeastExists
<1>3. PICK s \in S : r = Rank(Slots, s)
  BY <1>2
<1>4. \A t \in S : t = s \/ Before(s, t)
  <2> TAKE t \in S
  <2>1. Rank(Slots, s) <= Rank(Slots, t)
    BY <1>2, <1>3
  <2>2. ~Before(t, s)
    <3>1. Rank(Slots, s) \in Nat /\ Rank(Slots, t) \in Nat
      BY RankIs
    <3>2. Before(t, s) => Rank(Slots, t) < Rank(Slots, s)
      BY RankGrows
    <3> QED  BY <2>1, <3>1, <3>2
  <2> QED  BY <2>2, SlotOrder
<1>5. First(S) \in S /\ \A t \in S : t = First(S) \/ Before(First(S), t)
  BY <1>4 DEF First
<1> QED  BY <1>5 DEF AtOrBefore

\* A slot that has elements of the set at or before it has a last one.
LEMMA LastIs ==
  ASSUME NEW S \in SUBSET Slots, NEW s \in Slots, Rank(S, s) # 0
  PROVE  \E b \in S : /\ AtOrBefore(b, s) /\ Rank(S, b) = Rank(S, s)
                      /\ \A x \in S : AtOrBefore(x, s) => AtOrBefore(x, b)
<1> DEFINE U == UpTo(S, s)
           R == {Rank(S, x) : x \in U}
<1>1. U # {} /\ U \in SUBSET S
  <2>1. U # {}
    BY RankIs, FS_EmptySet
  <2> QED  BY <2>1 DEF UpTo
<1>2. R \subseteq 0 .. Cardinality(S) /\ R # {} /\ Cardinality(S) \in Nat
  <2>1. \A x : Rank(S, x) \in 0 .. Cardinality(S)
    BY RankIs
  <2>2. Cardinality(S) \in Nat
    BY RankIs
  <2> QED  BY <1>1, <2>1, <2>2
<1>3. PICK r \in R : \A y \in R : r >= y
  <2> HIDE DEF R
  <2> QED  BY <1>2, GreatestExists
<1>4. PICK b \in U : r = Rank(S, b)
  BY <1>3
<1>5. b \in S /\ AtOrBefore(b, s) /\ b \in Slots
  BY <1>4 DEF UpTo
<1>6. ASSUME NEW x \in S, AtOrBefore(x, s) PROVE AtOrBefore(x, b)
  <2>1. x \in U
    BY <1>6 DEF UpTo
  <2>2. Rank(S, b) >= Rank(S, x)
    BY <1>3, <1>4, <2>1
  <2>3. ~Before(b, x)
    <3>1. Rank(S, b) \in Nat /\ Rank(S, x) \in Nat
      BY RankIs
    <3>2. Before(b, x) => Rank(S, b) < Rank(S, x)
      BY <1>5, RankGrows
    <3> QED  BY <2>2, <3>1, <3>2
  <2> QED  BY <1>5, <2>3, SlotOrder DEF AtOrBefore
<1>7. Rank(S, b) = Rank(S, s)
  BY <1>5, <1>6, RankBetween
<1> QED  BY <1>5, <1>6, <1>7

-----------------------------------------------------------------------------
(* Nodes and their leaves.                                                 *)

Leaf    == [iface : Nat, mask : Nat]
NodeSet == [vector : SUBSET Slots, leafvec : SUBSET Slots, leaf : Seq(Leaf),
            child : Nat \cup {NULL}]

\* A slot has a child or may have the mark of a leaf, and every slot without a
\* child finds a leaf.
NodeOK(n) ==
  /\ n \in NodeSet
  /\ n.leafvec \cap n.vector = {} /\ Len(n.leaf) = Cardinality(n.leafvec)
  /\ \A s \in Slots \ n.vector : Rank(n.leafvec, s) # 0

\* Slots without a child have leaves, and these are in the array.
LEMMA LeafFacts ==
  ASSUME NEW n, NodeOK(n)
  PROVE  \A s \in Slots \ n.vector :
           /\ Rank(n.leafvec, s) \in 1 .. Len(n.leaf)
           /\ LeafOf(n, s) = n.leaf[Rank(n.leafvec, s)]
           /\ LeafAt(n, s) = LeafOf(n, s) /\ LeafOf(n, s) \in Leaf
<1> TAKE s \in Slots \ n.vector
<1>1. /\ n.leafvec \in SUBSET Slots /\ n.leaf \in Seq(Leaf)
      /\ Len(n.leaf) = Cardinality(n.leafvec) /\ Rank(n.leafvec, s) # 0
  BY DEF NodeOK, NodeSet
<1>2. Rank(n.leafvec, s) \in Nat /\ Rank(n.leafvec, s) <= Len(n.leaf) /\ Len(n.leaf) \in Nat
  BY <1>1, RankIs
<1>3. Rank(n.leafvec, s) \in 1 .. Len(n.leaf)
  BY <1>1, <1>2
<1>4. n.leaf[Rank(n.leafvec, s)] \in Leaf
  BY <1>1, <1>3
<1> QED  BY <1>1, <1>3, <1>4 DEF LeafOf, LeafAt

\* Slot 0 is the first of all.
LEMMA Slot0Least ==
  /\ Slot0 \in Slots
  /\ \A s \in Slots : AtOrBefore(Slot0, s)
<1>1. Slot0 \in Slots
  BY DEF Slot0, Slots, Bits
<1>2. ASSUME NEW s \in Slots PROVE AtOrBefore(Slot0, s)
  <2>1. \A i \in 1 .. K : s[i] \in {0, 1} /\ Slot0[i] = 0
    BY DEF Slot0, Slots, Bits
  <2>2. ~Before(s, Slot0)
    BY <2>1 DEF Before
  <2> QED  BY <1>1, <2>2, SlotOrder DEF AtOrBefore
<1> QED  BY <1>1, <1>2

\* Every slot of a new node has the leaf the node was made with.
LEMMA NewNodeIs ==
  ASSUME NEW leaf \in Leaf
  PROVE  /\ NodeOK(NewNode(leaf))
         /\ NewNode(leaf).vector = {} /\ NewNode(leaf).child = NULL
         /\ \A s \in Slots : LeafOf(NewNode(leaf), s) = leaf
<1> DEFINE n == NewNode(leaf)
<1>1. /\ n.vector = {} /\ n.leafvec = {Slot0} /\ n.leaf = <<leaf>> /\ n.child = NULL
      /\ n \in NodeSet /\ Len(n.leaf) = 1 /\ n.leaf[1] = leaf
  BY Slot0Least DEF NewNode, NodeSet
<1> HIDE DEF n
<1>2. Cardinality({Slot0}) = 1
  BY FS_Singleton
<1>3. ASSUME NEW s \in Slots PROVE Rank(n.leafvec, s) = 1
  <2>1. UpTo({Slot0}, s) = {Slot0}
    BY Slot0Least DEF UpTo
  <2>2. {Slot0} \in SUBSET Slots
    BY Slot0Least
  <2> QED  BY <1>1, <1>2, <2>1, <2>2, RankIs
<1>4. NodeOK(n)
  BY <1>1, <1>2, <1>3 DEF NodeOK
<1>5. \A s \in Slots : LeafOf(n, s) = leaf
  BY <1>1, <1>3 DEF LeafOf, LeafAt
<1> QED  BY <1>1, <1>4, <1>5 DEF n

\* Where RemoveAt leaves the elements.
LEMMA RemovedAt ==
  ASSUME NEW S, NEW q \in Seq(S), NEW k \in 1 .. Len(q)
  PROVE  /\ RemoveAt(q, k) \in Seq(S)
         /\ Len(RemoveAt(q, k)) = Len(q) - 1
         /\ \A i \in 1 .. k - 1 : RemoveAt(q, k)[i] = q[i]
         /\ \A i \in k .. Len(q) - 1 : RemoveAt(q, k)[i] = q[i + 1]
<1> DEFINE a == SubSeq(q, 1, k - 1)
           b == SubSeq(q, k + 1, Len(q))
<1>1. a \in Seq(S) /\ Len(a) = k - 1 /\ \A i \in 1 .. k - 1 : a[i] = q[i]
  OBVIOUS
<1>2. /\ b \in Seq(S) /\ Len(b) = Len(q) - k
      /\ \A i \in 1 .. Len(q) - k : b[i] = q[i + k]
  OBVIOUS
<1>3. RemoveAt(q, k) = a \o b
  BY DEF RemoveAt
<1> HIDE DEF a, b
<1>4. /\ a \o b \in Seq(S)
      /\ Len(a \o b) = Len(a) + Len(b)
      /\ \A i \in 1 .. Len(a) : (a \o b)[i] = a[i]
      /\ \A i \in Len(a) + 1 .. Len(a) + Len(b) : (a \o b)[i] = b[i - Len(a)]
  <2>1. a \in Seq(S) /\ b \in Seq(S)
    BY <1>1, <1>2
  <2> QED  BY <2>1
<1> DEFINE c == a \o b
<1> HIDE DEF c
<1>5. /\ c \in Seq(S) /\ Len(c) = Len(q) - 1
      /\ \A i \in 1 .. k - 1 : c[i] = a[i]
      /\ \A i \in k .. Len(q) - 1 : c[i] = b[i - (k - 1)]
  <2>1. Len(q) \in Nat /\ k \in 1 .. Len(q)
    OBVIOUS
  <2>2. /\ Len(a) + Len(b) = Len(q) - 1 /\ Len(a) = k - 1
        /\ Len(a) + 1 .. Len(a) + Len(b) = k .. Len(q) - 1
    BY <1>1, <1>2, <2>1
  <2> QED  BY <1>4, <2>2 DEF c
<1>6. \A i \in k .. Len(q) - 1 : b[i - (k - 1)] = q[i + 1]
  <2> SUFFICES ASSUME NEW i \in k .. Len(q) - 1 PROVE b[i - (k - 1)] = q[i + 1]
    OBVIOUS
  <2>1. i - (k - 1) \in 1 .. Len(q) - k /\ (i - (k - 1)) + k = i + 1
    OBVIOUS
  <2> QED BY <2>1, <1>2
<1> QED BY <1>1, <1>3, <1>5, <1>6 DEF c

\* The run of leaves of a slot that gets a child moves on: no other slot finds
\* another leaf than before.
LEMMA WithoutLeafIs ==
  ASSUME NEW n, NodeOK(n), NEW key \in Slots \ n.vector
  PROVE  LET g == WithoutLeaf(n, key)
         IN  /\ g \in NodeSet /\ g.vector = n.vector /\ g.child = n.child
             /\ g.leafvec \cap (n.vector \cup {key}) = {} /\ Len(g.leaf) = Cardinality(g.leafvec)
             /\ \A s \in Slots \ (n.vector \cup {key}) :
                  Rank(g.leafvec, s) # 0 /\ LeafOf(g, s) = LeafOf(n, s)
<1> DEFINE g == WithoutLeaf(n, key)
           later == {s \in Slots : Before(key, s)} \ n.vector
           S == n.leafvec
           others == Slots \ (n.vector \cup {key})
<1>1. /\ n \in NodeSet /\ S \in SUBSET Slots /\ n.leaf \in Seq(Leaf) /\ key \in Slots
      /\ Len(n.leaf) = Cardinality(S) /\ S \cap n.vector = {}
      /\ \A s \in Slots \ n.vector : Rank(S, s) # 0
  BY DEF NodeOK, NodeSet
<1>2. \A s : Rank(S, s) \in Nat
  BY <1>1, RankIs
<1>3. CASE key \notin S
  <2>1. g = n
    BY <1>3 DEF WithoutLeaf
  <2> QED  BY <1>1, <1>3, <2>1
<1>4. CASE key \in S /\ later # {} /\ First(later) \notin S
  <2> DEFINE f == First(later)
             T == (S \ {key}) \cup {f}
  <2>1. g = [n EXCEPT !.leafvec = T]
    BY <1>4 DEF WithoutLeaf
  <2>2. /\ g \in NodeSet /\ g.vector = n.vector /\ g.child = n.child
        /\ g.leafvec = T /\ g.leaf = n.leaf
    <3>1. f \in Slots
      BY <1>4, FirstIs
    <3>2. T \in SUBSET Slots
      BY <1>1, <3>1
    <3> HIDE DEF T
    <3> QED  BY <1>1, <2>1, <3>2 DEF NodeSet
  <2>3. f \in later /\ \A t \in later : AtOrBefore(f, t)
    <3>1. later \in SUBSET Slots
      OBVIOUS
    <3> HIDE DEF later
    <3> QED  BY <1>4, <3>1, FirstIs
  <2>4. f \in Slots /\ f \notin S /\ f \notin n.vector /\ Before(key, f) /\ f # key
    BY <1>4, <2>3, SlotOrder
  <2>5. /\ Cardinality(S \ {key}) = Cardinality(S) - 1
        /\ \A s : Rank(S \ {key}, s) = IF AtOrBefore(key, s) THEN Rank(S, s) - 1 ELSE Rank(S, s)
    BY <1>1, <1>4, RankRemove
  <2>6. /\ Cardinality(T) = Cardinality(S \ {key}) + 1
        /\ \A s : Rank(T, s) = IF AtOrBefore(f, s) THEN Rank(S \ {key}, s) + 1
                              ELSE Rank(S \ {key}, s)
    <3>1. S \ {key} \in SUBSET Slots /\ f \notin S \ {key} /\ f \in Slots
      BY <1>1, <2>4
    <3> HIDE DEF f
    <3> QED  BY <3>1, RankAdd
  <2>7. Cardinality(S) \in Nat
    BY <1>1, RankIs
  <2>8. ASSUME NEW s \in others PROVE Rank(T, s) = Rank(S, s)
    <3>1. AtOrBefore(key, s) => s \in later
      BY <2>8 DEF AtOrBefore
    <3>2. AtOrBefore(f, s) => AtOrBefore(key, s)
      BY <1>1, <2>4, <2>8, SlotOrder DEF AtOrBefore
    <3>3. AtOrBefore(key, s) <=> AtOrBefore(f, s)
      BY <2>3, <3>1, <3>2
    <3> HIDE DEF f, T, S
    <3> QED  BY <1>2, <2>5, <2>6, <3>3
  <2>9. Cardinality(T) = Cardinality(S)
    BY <2>5, <2>6, <2>7
  <2>10. T \cap (n.vector \cup {key}) = {}
    BY <1>1, <2>4
  <2> HIDE DEF T, g, S
  <2>11. \A s \in others : Rank(T, s) # 0 /\ LeafOf(g, s) = LeafOf(n, s)
    BY <1>1, <2>2, <2>8 DEF LeafOf, LeafAt, S
  <2> QED  BY <1>1, <2>2, <2>9, <2>10, <2>11 DEF g
<1>5. CASE key \in S /\ ~(later # {} /\ First(later) \notin S)
  <2> DEFINE T == S \ {key}
             k == Rank(S, key)
             leaf == RemoveAt(n.leaf, k)
  <2>1. g = [n EXCEPT !.leafvec = T, !.leaf = leaf]
    BY <1>5 DEF WithoutLeaf
  <2>2. k \in 1 .. Len(n.leaf)
    BY <1>1, LeafFacts
  <2>3. /\ leaf \in Seq(Leaf) /\ Len(leaf) = Len(n.leaf) - 1
        /\ \A i \in 1 .. k - 1 : leaf[i] = n.leaf[i]
        /\ \A i \in k .. Len(n.leaf) - 1 : leaf[i] = n.leaf[i + 1]
    <3> HIDE DEF k
    <3> QED  BY <1>1, <2>2, RemovedAt
  <2>4. /\ Cardinality(T) = Cardinality(S) - 1
        /\ \A s : Rank(T, s) = IF AtOrBefore(key, s) THEN Rank(S, s) - 1 ELSE Rank(S, s)
    BY <1>1, <1>5, RankRemove
  <2>5. g \in NodeSet /\ g.vector = n.vector /\ g.child = n.child /\ g.leafvec = T /\ g.leaf = leaf
    <3>1. T \in SUBSET Slots
      BY <1>1
    <3> HIDE DEF T, leaf
    <3> QED  BY <1>1, <2>1, <2>3, <3>1 DEF NodeSet
  <2>6. ASSUME NEW s \in others
        PROVE  Rank(T, s) # 0 /\ leaf[Rank(T, s)] = n.leaf[Rank(S, s)]
    <3>1. Rank(S, s) \in 1 .. Len(n.leaf)
      BY <2>6, LeafFacts
    <3>2. CASE AtOrBefore(key, s)
      <4>1. Before(key, s) /\ s \in later
        BY <2>6, <3>2 DEF AtOrBefore
      <4>2. First(later) \in S /\ First(later) \in later /\ AtOrBefore(First(later), s)
        <5>1. later \in SUBSET Slots /\ later # {}
          BY <4>1
        <5>2. First(later) \in later /\ AtOrBefore(First(later), s)
          <6> HIDE DEF later
          <6> QED  BY <4>1, <5>1, FirstIs
        <5> QED  BY <1>5, <5>1, <5>2
      <4>3. Rank(S, key) < Rank(S, First(later)) /\ Rank(S, First(later)) <= Rank(S, s)
        <5>1. First(later) \in Slots /\ Before(key, First(later)) /\ s \in Slots
          BY <4>2
        <5> HIDE DEF later
        <5> QED  BY <1>1, <4>2, <5>1, RankGrows
      <4>4. k < Rank(S, s)
        <5>1. Rank(S, First(later)) \in Nat /\ Rank(S, key) \in Nat /\ Rank(S, s) \in Nat
          BY <1>2
        <5> HIDE DEF later
        <5> QED  BY <4>3, <5>1
      <4>5. Rank(T, s) = Rank(S, s) - 1
        BY <2>4, <3>2
      <4> HIDE DEF k, leaf, T, S
      <4>6. Rank(S, s) - 1 \in k .. Len(n.leaf) - 1 /\ (Rank(S, s) - 1) + 1 = Rank(S, s)
        BY <2>2, <3>1, <4>4
      <4>7. leaf[Rank(S, s) - 1] = n.leaf[Rank(S, s)]
        BY <2>3, <4>6
      <4> QED  BY <2>2, <4>5, <4>6, <4>7
    <3>3. CASE ~AtOrBefore(key, s)
      <4>1. Before(s, key)
        BY <1>1, <3>3, <2>6, SlotOrder DEF AtOrBefore
      <4>2. Rank(S, s) < k
        BY <1>1, <1>5, <2>6, <4>1, RankGrows
      <4>3. Rank(T, s) = Rank(S, s)
        BY <2>4, <3>3
      <4> HIDE DEF k, leaf, T, S
      <4>4. Rank(S, s) \in 1 .. k - 1
        BY <2>2, <3>1, <4>2
      <4> QED  BY <2>3, <4>3, <4>4
    <3> QED  BY <3>2, <3>3
  <2>7. Len(leaf) = Cardinality(T)
    BY <1>1, <2>3, <2>4
  <2>8. T \cap (n.vector \cup {key}) = {}
    BY <1>1
  <2> HIDE DEF T, g, leaf, S
  <2>9. \A s \in others : LeafOf(n, s) = n.leaf[Rank(S, s)]
    BY LeafFacts DEF S
  <2>10. \A s \in others : Rank(T, s) # 0 /\ LeafOf(g, s) = LeafOf(n, s)
    BY <2>5, <2>6, <2>9 DEF LeafOf, LeafAt
  <2> QED  BY <2>5, <2>7, <2>8, <2>10 DEF g
<1> QED  BY <1>3, <1>4, <1>5

\* Node n with a child for slot key, and array a for its children.
Grown(n, key, a) == [WithoutLeaf(n, key) EXCEPT !.vector = @ \cup {key}, !.child = a]

\* A node that gets a child keeps the leaves of its other slots.
LEMMA GrownIs ==
  ASSUME NEW n, NodeOK(n), NEW key \in Slots \ n.vector, NEW a \in Nat
  PROVE  /\ NodeOK(Grown(n, key, a))
         /\ Grown(n, key, a).vector = n.vector \cup {key} /\ Grown(n, key, a).child = a
         /\ \A s \in Slots \ (n.vector \cup {key}) : LeafOf(Grown(n, key, a), s) = LeafOf(n, s)
<1> DEFINE w == WithoutLeaf(n, key)
           g == Grown(n, key, a)
<1>1. /\ w \in NodeSet /\ w.vector = n.vector
      /\ w.leafvec \cap (n.vector \cup {key}) = {} /\ Len(w.leaf) = Cardinality(w.leafvec)
      /\ \A s \in Slots \ (n.vector \cup {key}) :
           Rank(w.leafvec, s) # 0 /\ LeafOf(w, s) = LeafOf(n, s)
  BY WithoutLeafIs
<1> HIDE DEF w
<1>2. g = [w EXCEPT !.vector = n.vector \cup {key}, !.child = a]
  BY <1>1 DEF w, Grown
<1> HIDE DEF g
<1>3. /\ g \in NodeSet /\ g.vector = n.vector \cup {key} /\ g.child = a
      /\ g.leafvec = w.leafvec /\ g.leaf = w.leaf
  <2>1. n.vector \cup {key} \in SUBSET Slots
    BY <1>1 DEF NodeSet
  <2> QED  BY <1>1, <1>2, <2>1 DEF NodeSet
<1>4. \A s : LeafOf(g, s) = LeafOf(w, s)
  BY <1>3 DEF LeafOf, LeafAt
<1>5. NodeOK(g)
  BY <1>1, <1>3, <1>4 DEF NodeOK
<1> QED  BY <1>1, <1>3, <1>4, <1>5 DEF g

\* The leaves of a range of slots become that of a new prefix: every slot in it
\* finds the new leaf, every other one that it found before.
LEMMA LeavesIs ==
  ASSUME NEW n, NodeOK(n), NEW key \in Slots,
         NEW range, range = {s \in Slots : Way(s, Left) = Way(key, Left)},
         range \cap n.vector = {},
         \A s \in range : AtOrBefore(key, s),
         \A s \in Slots \ range : \A t \in range : Before(key, s) => Before(t, s),
         NEW new \in Leaf, new = [iface |-> put.entry.iface, mask |-> put.entry.mask],
         \A s \in range : new.mask >= LeafOf(n, s).mask
  PROVE  LET l == Leaves(n, key)
         IN  /\ NodeOK(l) /\ l.vector = n.vector /\ l.child = n.child
             /\ \A s \in range : LeafOf(l, s) = new
             /\ \A s \in Slots \ (n.vector \cup range) : LeafOf(l, s) = LeafOf(n, s)
<1> DEFINE l        == Leaves(n, key)
           S        == n.leafvec
           open     == range \ n.vector
           after    == {s \in Slots \ range : Before(key, s)} \ n.vector
           written  == {s \in open : /\ s = First(open) \/ s \in n.leafvec
                                     /\ new.mask >= LeafOf(n, s).mask}
           restored == {s \in after : s = First(after) /\ open # {}}
           begins   == (n.leafvec \ range) \cup written \cup restored
           Begin(i) == CHOOSE s \in begins : Rank(begins, s) = i
           leaf     == [i \in 1 .. Cardinality(begins) |->
                          IF Begin(i) \in written THEN new ELSE LeafOf(n, Begin(i))]
<1>1. l = [n EXCEPT !.leafvec = n.leafvec \cup written \cup restored, !.leaf = leaf]
  BY DEF Leaves
<1>2. /\ n \in NodeSet /\ S \in SUBSET Slots /\ n.leaf \in Seq(Leaf) /\ S \cap n.vector = {}
      /\ n.vector \in SUBSET Slots
  BY DEF NodeOK, NodeSet
<1>3. key \in range /\ open = range /\ range \in SUBSET Slots
  OBVIOUS
<1>4. First(open) = key
  <2>1. First(range) \in range /\ \A t \in range : AtOrBefore(First(range), t)
    BY <1>3, FirstIs
  <2>2. AtOrBefore(First(range), key) /\ AtOrBefore(key, First(range)) /\ First(range) \in Slots
    BY <1>3, <2>1
  <2>3. First(range) = key
    BY <1>3, <2>2, SlotOrder DEF AtOrBefore
  <2> QED  BY <1>3, <2>3
<1>5. written = {s \in range : s = key \/ s \in S}
  BY <1>3, <1>4
<1>6. restored = {s \in after : s = First(after)}
  BY <1>3
<1>7. /\ after \in SUBSET Slots
      /\ after # {} => First(after) \in after /\ \A t \in after : AtOrBefore(First(after), t)
  <2>1. after \in SUBSET Slots
    OBVIOUS
  <2> HIDE DEF after
  <2> QED  BY <2>1, FirstIs
<1> HIDE DEF written, restored, open
<1>8. begins = S \cup written \cup restored
  BY <1>5
<1>9. begins \in SUBSET Slots
  BY <1>2, <1>3, <1>5, <1>6, <1>8
<1> HIDE DEF begins
<1>10. \A s \in Slots \ n.vector : LeafOf(n, s) \in Leaf /\ Rank(S, s) \in Nat /\ Rank(S, s) # 0
  BY <1>2, LeafFacts, RankIs DEF NodeOK

\* Every slot without a child finds the leaf of the last run that begins at or before it.
<1>11. ASSUME NEW s \in Slots \ n.vector
       PROVE  \E b \in begins : /\ AtOrBefore(b, s) /\ Rank(begins, b) = Rank(begins, s)
                                /\ \A x \in begins : AtOrBefore(x, s) => AtOrBefore(x, b)
  <2>1. Rank(S, s) # 0
    BY <1>10
  <2>2. PICK b \in S : AtOrBefore(b, s)
    BY <1>2, <2>1, LastIs
  <2>3. Rank(begins, s) # 0
    <3>1. b \in begins /\ b \in Slots
      BY <1>8, <1>9, <2>2
    <3>2. Rank(begins, b) >= 1 /\ Rank(begins, b) <= Rank(begins, s)
      BY <1>9, <2>2, <3>1, RankGrows
    <3>3. Rank(begins, b) \in Nat /\ Rank(begins, s) \in Nat
      BY <1>9, RankIs
    <3> QED  BY <3>2, <3>3
  <2> QED  BY <1>9, <2>3, LastIs
<1>12. ASSUME NEW b \in begins
       PROVE  /\ Begin(Rank(begins, b)) = b /\ Rank(begins, b) \in 1 .. Cardinality(begins)
              /\ leaf[Rank(begins, b)] = IF b \in written THEN new ELSE LeafOf(n, b)
  <2>1. Begin(Rank(begins, b)) \in begins /\ Rank(begins, Begin(Rank(begins, b))) = Rank(begins, b)
    OBVIOUS
  <2>2. Begin(Rank(begins, b)) = b
    <3> HIDE DEF Begin
    <3> QED  BY <1>9, <2>1, RankOnce
  <2>3. Rank(begins, b) >= 1 /\ Rank(begins, b) <= Cardinality(begins)
    BY <1>9, RankGrows, RankIs
  <2>4. Rank(begins, b) \in 1 .. Cardinality(begins)
    BY <1>9, <2>3, RankIs
  <2> HIDE DEF Begin
  <2> QED  BY <2>2, <2>4
\* A slot that begins a run is a slot without a child.
<1>13. begins \cap n.vector = {}
  BY <1>2, <1>5, <1>6, <1>8
<1>14. leaf \in Seq(Leaf) /\ Len(leaf) = Cardinality(begins)
  <2>1. Cardinality(begins) \in Nat
    BY <1>9, RankIs
  <2>2. ASSUME NEW i \in 1 .. Cardinality(begins) PROVE Begin(i) \in begins
    <3> DEFINE N == Cardinality(begins)
               rank == [x \in begins |-> IF Rank(begins, x) < i THEN Rank(begins, x)
                                         ELSE Rank(begins, x) - 1]
    <3>1. ASSUME \A s \in begins : Rank(begins, s) # i PROVE FALSE
      <4>1. rank \in Injection(begins, 1 .. N - 1)
        <5>1. \A x \in begins : Rank(begins, x) \in 1 .. N
          BY <1>12
        <5>2. rank \in [begins -> 1 .. N - 1]
          BY <2>1, <3>1, <5>1
        <5>3. ASSUME NEW x \in begins, NEW y \in begins, rank[x] = rank[y]
              PROVE  x = y
          <6>1. Rank(begins, x) = Rank(begins, y)
            BY <3>1, <5>1, <5>3
          <6> QED  BY <1>9, <6>1, RankOnce
        <5> QED  BY <5>2, <5>3 DEF Injection, IsInjective
      <4>2. N \in Nat /\ N >= 1
        BY <2>1
      <4> HIDE DEF N, rank
      <4>3. IsFiniteSet(1 .. N - 1) /\ Cardinality(1 .. N - 1) = N - 1
        <5>1. 1 \in Int /\ N - 1 \in Int
          BY <4>2
        <5>2. /\ IsFiniteSet(1 .. N - 1)
              /\ Cardinality(1 .. N - 1) = IF 1 > N - 1 THEN 0 ELSE N - 1 - 1 + 1
          BY <5>1, FS_Interval
        <5> QED  BY <4>2, <5>2
      <4>4. Cardinality(begins) <= N - 1
        BY <4>1, <4>3, FS_Injection
      <4> QED  BY <4>2, <4>4 DEF N
    <3> QED  BY <3>1
  <2>3. \A i \in 1 .. Cardinality(begins) : LeafOf(n, Begin(i)) \in Leaf
    <3> HIDE DEF Begin
    <3> QED  BY <1>9, <1>10, <1>13, <2>2
  <2> HIDE DEF Begin
  <2> QED  BY <2>1, <2>3
<1>15. /\ l \in NodeSet /\ l.vector = n.vector /\ l.child = n.child
       /\ l.leafvec = begins /\ l.leaf = leaf
  <2> HIDE DEF leaf
  <2> QED  BY <1>1, <1>2, <1>8, <1>9, <1>14 DEF NodeSet
<1> HIDE DEF leaf, l
<1>16. ASSUME NEW s \in Slots \ n.vector
       PROVE  /\ Rank(begins, s) # 0
              /\ s \in range => LeafOf(l, s) = new
              /\ s \notin range => LeafOf(l, s) = LeafOf(n, s)
  <2>1. PICK b \in begins : /\ AtOrBefore(b, s) /\ Rank(begins, b) = Rank(begins, s)
                            /\ \A x \in begins : AtOrBefore(x, s) => AtOrBefore(x, b)
    BY <1>11
  <2>2. /\ Rank(begins, s) # 0 /\ b \in Slots /\ b \notin n.vector
        /\ LeafOf(l, s) = IF b \in written THEN new ELSE LeafOf(n, b)
    <3>1. /\ Rank(begins, b) \in 1 .. Cardinality(begins)
          /\ leaf[Rank(begins, b)] = IF b \in written THEN new ELSE LeafOf(n, b)
      BY <1>12
    <3>2. Rank(begins, s) # 0
      BY <2>1, <3>1
    <3>3. LeafOf(l, s) = leaf[Rank(begins, s)]
      BY <1>15, <3>2 DEF LeafOf, LeafAt
    <3> QED  BY <1>9, <1>13, <2>1, <3>1, <3>2, <3>3
  <2>3. CASE s \in range
    <3>1. key \in begins /\ AtOrBefore(key, s)
      BY <1>3, <1>5, <1>8, <2>3
    <3>2. AtOrBefore(key, b)
      BY <2>1, <3>1
    <3>3. b \in range
      <4>1. b = key \/ Before(key, b)
        BY <3>2 DEF AtOrBefore
      <4>2. ASSUME b \notin range, Before(key, b) PROVE FALSE
        <5>1. Before(s, b)
          BY <2>2, <2>3, <4>2
        <5> QED  BY <2>1, <2>2, <5>1, SlotOrder DEF AtOrBefore
      <4> QED  BY <1>3, <4>1, <4>2
    <3>4. b \in written
      <4>1. b \notin restored
        BY <1>6, <3>3
      <4> QED  BY <1>5, <1>8, <3>3, <4>1
    <3> QED  BY <2>2, <2>3, <3>4
  <2>4. CASE s \notin range
    <3>1. b \notin range
      <4> SUFFICES ASSUME b \in range PROVE FALSE
        OBVIOUS
      <4>1. Before(key, s)
        <5>1. AtOrBefore(key, b) /\ b # s
          BY <2>4
        <5> QED  BY <2>1, <2>2, <5>1, SlotOrder DEF AtOrBefore
      <4>2. s \in after /\ after # {}
        BY <2>4, <4>1
      <4>3. First(after) \in begins /\ AtOrBefore(First(after), s) /\ First(after) \in after
        BY <1>6, <1>7, <1>8, <4>2
      <4>4. AtOrBefore(First(after), b)
        BY <2>1, <4>3
      <4>5. Before(b, First(after)) /\ First(after) \in Slots
        BY <4>3
      <4> HIDE DEF after
      <4> QED  BY <2>2, <4>4, <4>5, SlotOrder DEF AtOrBefore
    <3>2. b \notin written
      BY <1>5, <3>1
    <3>3. Rank(S, b) = Rank(S, s)
      <4>1. \A x \in S : AtOrBefore(x, s) => AtOrBefore(x, b)
        BY <1>8, <2>1
      <4> QED  BY <1>2, <2>1, <2>2, <4>1, RankBetween
    <3>4. LeafOf(n, b) = LeafOf(n, s)
      BY <3>3 DEF LeafOf, LeafAt
    <3> QED  BY <2>2, <2>4, <3>2, <3>4
  <2> QED  BY <2>2, <2>3, <2>4
<1>17. NodeOK(l)
  BY <1>13, <1>14, <1>15, <1>16 DEF NodeOK
<1>18. range \cap n.vector = {}
  OBVIOUS
<1> QED  BY <1>3, <1>15, <1>16, <1>17, <1>18 DEF l

\* The slots that share the first bits of a key with zeros after them are an
\* interval that begins at the key.
LEMMA RangeIs ==
  ASSUME NEW key \in Slots, NEW m \in 0 .. K, \A i \in m + 1 .. K : key[i] = 0,
         NEW range, range = {s \in Slots : Way(s, m) = Way(key, m)}
  PROVE  /\ \A s \in range : AtOrBefore(key, s)
         /\ \A s \in Slots \ range : \A t \in range : Before(key, s) => Before(t, s)
<1>1. K \in Nat /\ m \in Nat /\ \A i \in 1 .. m : i \in 1 .. K
  BY LpmAssumption
<1>2. \A s \in Slots : \A i \in 1 .. K : s[i] \in {0, 1} /\ Bit(s, i) = s[i]
  BY DEF Slots, Bits, Bit
<1>3. \A s \in Slots : s \in range <=> \A i \in 1 .. m : s[i] = key[i]
  <2> TAKE s \in Slots
  <2>1. s \in range <=> Way(s, m) = Way(key, m)
    OBVIOUS
  <2>2. Way(s, m) = Way(key, m) <=> \A i \in 1 .. m : Bit(s, i) = Bit(key, i)
    BY <1>1, WayFacts DEF Way
  <2> QED  BY <1>1, <1>2, <2>1, <2>2
<1>4. ASSUME NEW s \in range PROVE AtOrBefore(key, s)
  <2>1. s \in Slots
    OBVIOUS
  <2>2. ~Before(s, key)
    <3> SUFFICES ASSUME NEW i \in 1 .. K, s[i] < key[i] PROVE FALSE
      BY DEF Before
    <3>1. CASE i \in 1 .. m
      BY <1>2, <1>3, <2>1, <3>1
    <3>2. CASE i \in m + 1 .. K
      BY <1>2, <2>1, <3>2
    <3> QED  BY <1>1, <3>1, <3>2
  <2> QED  BY <2>1, <2>2, SlotOrder DEF AtOrBefore
<1>5. ASSUME NEW s \in Slots \ range, NEW t \in range, Before(key, s)
      PROVE  Before(t, s)
  <2>1. PICK i \in 1 .. K : key[i] < s[i] /\ \A j \in 1 .. i - 1 : key[j] = s[j]
    BY <1>5 DEF Before
  <2>2. t \in Slots /\ \A j \in 1 .. m : t[j] = key[j]
    BY <1>3
  <2>3. PICK k \in 1 .. m : s[k] # key[k]
    BY <1>3
  <2>4. i \in 1 .. m
    <3>1. ~(k \in 1 .. i - 1)
      BY <2>1, <2>3
    <3> QED  BY <1>1, <3>1
  <2>5. \A j \in 1 .. i - 1 : j \in 1 .. m
    BY <1>1, <2>4
  <2>6. t[i] < s[i] /\ \A j \in 1 .. i - 1 : t[j] = s[j]
    BY <2>1, <2>2, <2>4, <2>5
  <2> QED  BY <2>6 DEF Before
<1> QED  BY <1>4, <1>5

-----------------------------------------------------------------------------
(* The shape of the compressed trie.  loc maps the way to each node to the *)
(* place of the node: the number of its array and its position there.      *)

Top         == Way(<< >>, 0)
At(arr, at) == arr[at[1]][at[2]]

ArraysTyped(arr) ==
  /\ arr = [b \in DOMAIN arr |-> arr[b]]
  /\ \A b \in DOMAIN arr : b \in Nat \ {0} /\ arr[b] \in Seq(NodeSet)

Located(arr, loc) ==
  /\ loc = [q \in DOMAIN loc |-> loc[q]]
  /\ Top \in DOMAIN loc /\ loc[Top] = Root
  /\ \A q \in DOMAIN loc :
       /\ \E n \in Levels : q \in Bits(n)
       /\ loc[q] \in Nat \X Nat
       /\ loc[q][1] \in DOMAIN arr /\ loc[q][2] \in 1 .. Len(arr[loc[q][1]])

\* The nodes below a node are the slots in its vector, in the order of the slots.
Joined(arr, loc) ==
  \A n \in Levels : \A r \in Bits(n + K) :
    /\ r \in DOMAIN loc <=> Way(r, n) \in DOMAIN loc /\ Key(r, n) \in At(arr, loc[Way(r, n)]).vector
    /\ r \in DOMAIN loc => loc[r] = Child(At(arr, loc[Way(r, n)]), Key(r, n))

\* Every array but the first holds the children of one node, all of them.
Owned(arr, loc) ==
  /\ \A q \in DOMAIN loc : LET n == At(arr, loc[q])
                           IN  /\ NodeOK(n)
                               /\ n.vector = {} => n.child = NULL
                               /\ n.vector # {} => /\ n.child \in DOMAIN arr /\ n.child # 1
                                                   /\ Len(arr[n.child]) = Cardinality(n.vector)
  /\ \A q, r \in DOMAIN loc :
       At(arr, loc[q]).child = At(arr, loc[r]).child /\ At(arr, loc[q]).child # NULL => q = r

Shape(arr, loc) == ArraysTyped(arr) /\ Located(arr, loc) /\ Joined(arr, loc) /\ Owned(arr, loc)

\* The way to the root is the only one without bits.
LEMMA TopFacts ==
  /\ \A d : Way(d, 0) = Top
  /\ \A q \in Bits(0) : q = Top
  /\ Top \in Bits(0)
<1>1. \A d : Way(d, 0) = Top
  BY DEF Way, Top
<1>2. \A q \in Bits(0) : Way(q, 0) = q
  BY BitsFacts
<1>3. Top \in Bits(0)
  BY DEF Way, Top, Bits
<1> QED  BY <1>1, <1>2, <1>3

\* A node is the root or below another one.
LEMMA UpOne ==
  ASSUME NEW arr, NEW loc, Shape(arr, loc), NEW q \in DOMAIN loc, q # Top
  PROVE  \E n \in Levels : /\ q \in Bits(n + K) /\ Way(q, n) \in DOMAIN loc
                           /\ Key(q, n) \in At(arr, loc[Way(q, n)]).vector
                           /\ loc[q] = Child(At(arr, loc[Way(q, n)]), Key(q, n))
<1>1. PICK m \in Levels : q \in Bits(m)
  BY DEF Shape, Located
<1>2. m # 0
  BY <1>1, TopFacts
<1>3. m - K \in Levels /\ (m - K) + K = m
  BY <1>2, LevelFacts, LpmAssumption
<1> DEFINE n == m - K
<1>4. n \in Levels /\ q \in Bits(n + K)
  BY <1>1, <1>3
<1> HIDE DEF n
<1> QED  BY <1>4 DEF Shape, Joined

\* The levels of a way that is a node.
LEMMA AtLevel ==
  ASSUME NEW arr, NEW loc, Shape(arr, loc), NEW n \in Nat, NEW q \in Bits(n), q \in DOMAIN loc
  PROVE  n \in Levels
<1>1. PICK m \in Levels : q \in Bits(m)
  BY DEF Shape, Located
<1> QED  BY <1>1, BitsDepth, LevelFacts

\* No place holds two nodes.
LEMMA LocOnce ==
  ASSUME NEW arr, NEW loc, Shape(arr, loc), NEW q \in DOMAIN loc, NEW r \in DOMAIN loc,
         loc[q] = loc[r]
  PROVE  q = r
<1>1. ASSUME NEW p \in DOMAIN loc, p # Top PROVE loc[p] # Root
  <2>1. PICK n \in Levels : /\ Way(p, n) \in DOMAIN loc
                            /\ Key(p, n) \in At(arr, loc[Way(p, n)]).vector
                            /\ loc[p] = Child(At(arr, loc[Way(p, n)]), Key(p, n))
    BY <1>1, UpOne
  <2>2. At(arr, loc[Way(p, n)]).child # 1
    BY <2>1 DEF Shape, Owned
  <2> QED  BY <2>1, <2>2 DEF Child, Root
<1>2. CASE q = Top \/ r = Top
  BY <1>1, <1>2 DEF Shape, Located
<1>3. CASE q # Top /\ r # Top
  <2>1. PICK n \in Levels : /\ q \in Bits(n + K) /\ Way(q, n) \in DOMAIN loc
                            /\ Key(q, n) \in At(arr, loc[Way(q, n)]).vector
                            /\ loc[q] = Child(At(arr, loc[Way(q, n)]), Key(q, n))
    BY <1>3, UpOne
  <2>2. PICK m \in Levels : /\ r \in Bits(m + K) /\ Way(r, m) \in DOMAIN loc
                            /\ Key(r, m) \in At(arr, loc[Way(r, m)]).vector
                            /\ loc[r] = Child(At(arr, loc[Way(r, m)]), Key(r, m))
    BY <1>3, UpOne
  <2> DEFINE u == At(arr, loc[Way(q, n)])
             v == At(arr, loc[Way(r, m)])
  <2>3. u.child = v.child /\ Rank(u.vector, Key(q, n)) = Rank(v.vector, Key(r, m))
    <3>1. Child(u, Key(q, n)) = Child(v, Key(r, m))
      BY <2>1, <2>2
    <3> HIDE DEF u, v
    <3> QED  BY <3>1 DEF Child
  <2>4. u.child # NULL
    <3>1. u.child \in DOMAIN arr
      BY <2>1 DEF Shape, Owned
    <3>2. u.child \in Nat
      BY <3>1 DEF Shape, ArraysTyped
    <3> QED  BY <3>2, LpmAssumption
  <2>5. Way(q, n) = Way(r, m)
    BY <2>1, <2>2, <2>3, <2>4 DEF Shape, Owned
  <2>6. n = m /\ n \in Nat
    BY <2>5, WayDepth, LevelFacts
  <2>7. u.vector \in SUBSET Slots
    BY <2>1 DEF Shape, Owned, NodeOK, NodeSet
  <2>8. Key(q, n) = Key(r, n)
    BY <2>1, <2>2, <2>3, <2>5, <2>6, <2>7, RankOnce
  <2> QED  BY <2>1, <2>2, <2>5, <2>6, <2>8, SameBits
<1> QED  BY <1>2, <1>3

-----------------------------------------------------------------------------
(* What the compressed trie holds.                                         *)

\* The entries whose insertion is over.
Done == IF put = NULL THEN inserted ELSE inserted \ {put.entry}

Match(p) == [iface |-> p.iface, mask |-> p.mask]

\* The prefixes of at most n bits that an address with the first bits r lies in.
Covering(S, r, n) == {p \in S : p.mask <= n /\ Way(r, p.mask) = Way(p.dest, p.mask)}

IsBest(leaf, C) == IF C = {} THEN leaf = NoLeaf
                   ELSE \E p \in C : leaf = Match(p) /\ \A q \in C : q.mask <= p.mask

\* Every node stems from a prefix that ends below it.
NodesStem(loc) ==
  \A n \in Levels : \A q \in Bits(n) :
    q \in DOMAIN loc /\ n # 0 => \E p \in inserted : n < p.mask /\ Way(p.dest, n) = q

\* A prefix has all its nodes when it is in.
NodesThere(loc) ==
  \A p \in Done : \A n \in Levels : n < p.mask => Way(p.dest, n) \in DOMAIN loc

\* A slot without a child has the leaf of the longest prefix that is in.
LeavesRight(loc) ==
  \A n \in Levels : \A r \in Bits(n + K) :
    LET node == At(arrays, loc[Way(r, n)])
    IN  Way(r, n) \in DOMAIN loc /\ Key(r, n) \notin node.vector
          => IsBest(LeafOf(node, Key(r, n)), Covering(Done, r, n + K))

DirectRight(loc) ==
  direct_pointing = [i \in Bits(2 * K) |-> IF i \in DOMAIN loc THEN loc[i] ELSE NULL]

\* Where the insertion under way has come to.
PutRight(loc) ==
  put # NULL =>
    /\ put = [entry |-> put.entry, depth |-> put.depth, current |-> put.current]
    /\ put.entry \in inserted /\ put.depth \in Levels /\ put.depth < put.entry.mask
    /\ \A n \in Levels : n <= put.depth => Way(put.entry.dest, n) \in DOMAIN loc
    /\ put.current = loc[Way(put.entry.dest, put.depth)]

\* A prefix is put after those it lies in.
InOrder == \A p \in Done, q \in Table : Within(p, q) => q \in Done

Content(loc) ==
  /\ NodesStem(loc) /\ NodesThere(loc) /\ LeavesRight(loc) /\ DirectRight(loc) /\ PutRight(loc)

Counted == counter_internal \in Nat /\ DOMAIN arrays \subseteq 1 .. counter_internal

CompressedInv ==
  /\ inserted \subseteq Table /\ InOrder /\ Counted
  /\ put # NULL => \A q \in Table : Within(put.entry, q) => q \in Done
  /\ \E loc : Shape(arrays, loc) /\ Content(loc)

\* Where InsertAt puts the elements.
LEMMA InsertedAt ==
  ASSUME NEW S, NEW q \in Seq(S), NEW k \in 1 .. Len(q) + 1, NEW e \in S
  PROVE  /\ InsertAt(q, k, e) \in Seq(S)
         /\ Len(InsertAt(q, k, e)) = Len(q) + 1
         /\ \A i \in 1 .. k - 1 : InsertAt(q, k, e)[i] = q[i]
         /\ InsertAt(q, k, e)[k] = e
         /\ \A i \in k + 1 .. Len(q) + 1 : InsertAt(q, k, e)[i] = q[i - 1]
<1> DEFINE a == SubSeq(q, 1, k - 1)
           b == SubSeq(q, k, Len(q))
<1>1. a \in Seq(S) /\ Len(a) = k - 1 /\ \A i \in 1 .. k - 1 : a[i] = q[i]
  OBVIOUS
<1>2. b \in Seq(S) /\ Len(b) = Len(q) - k + 1
      /\ \A i \in 1 .. Len(q) - k + 1 : b[i] = q[i + k - 1]
  OBVIOUS
<1>3. <<e>> \in Seq(S) /\ Len(<<e>>) = 1 /\ <<e>>[1] = e
  OBVIOUS
<1> HIDE DEF a, b
<1>4. a \o <<e>> \in Seq(S) /\ Len(a \o <<e>>) = k
      /\ (\A i \in 1 .. k - 1 : (a \o <<e>>)[i] = q[i]) /\ (a \o <<e>>)[k] = e
  BY <1>1, <1>3
<1> DEFINE c == a \o <<e>>
<1>5. InsertAt(q, k, e) = c \o b
  BY DEF InsertAt, a, b
<1> HIDE DEF c
<1>6. c \in Seq(S) /\ Len(c) = k /\ c[k] = e /\ \A i \in 1 .. k - 1 : c[i] = q[i]
  BY <1>4 DEF c
<1>7. /\ c \o b \in Seq(S) /\ Len(c \o b) = Len(q) + 1
      /\ \A i \in 1 .. k : (c \o b)[i] = c[i]
      /\ \A i \in k + 1 .. Len(q) + 1 : (c \o b)[i] = b[i - k]
  BY <1>6, <1>2
<1>8. \A i \in k + 1 .. Len(q) + 1 : b[i - k] = q[i - 1]
  <2> SUFFICES ASSUME NEW i \in k + 1 .. Len(q) + 1 PROVE b[i - k] = q[i - 1]
    OBVIOUS
  <2>1. i - k \in 1 .. Len(q) - k + 1 /\ (i - k) + k - 1 = i - 1
    OBVIOUS
  <2> QED BY <2>1, <1>2
<1> DEFINE r == InsertAt(q, k, e)
<1> HIDE DEF r
<1>9. r = c \o b
  BY <1>5 DEF r
<1>10. r \in Seq(S) /\ Len(r) = Len(q) + 1
  BY <1>7, <1>9
<1>11. \A i \in 1 .. k - 1 : r[i] = q[i]
  BY <1>6, <1>7, <1>9
<1>12. r[k] = e
  BY <1>6, <1>7, <1>9
<1>13. \A i \in k + 1 .. Len(q) + 1 : r[i] = q[i - 1]
  BY <1>7, <1>8, <1>9
<1> QED BY <1>10, <1>11, <1>12, <1>13 DEF r

\* Two nodes of which one is in the array of the other's children.
LEMMA ParentOf ==
  ASSUME NEW arr, NEW loc, Shape(arr, loc), NEW q \in DOMAIN loc, NEW r \in DOMAIN loc,
         loc[r][1] = At(arr, loc[q]).child
  PROVE  \E m \in Levels : r \in Bits(m + K) /\ Way(r, m) = q
<1>1. loc[r][1] # 1 /\ loc[r][1] # NULL
  <2>1. loc[r][1] \in Nat
    BY DEF Shape, Located
  <2>2. loc[r][1] # NULL
    BY <2>1, LpmAssumption
  <2> QED  BY <2>2 DEF Shape, Owned
<1>2. r # Top
  BY <1>1 DEF Shape, Located, Root
<1>3. PICK m \in Levels : /\ r \in Bits(m + K) /\ Way(r, m) \in DOMAIN loc
                          /\ loc[r] = Child(At(arr, loc[Way(r, m)]), Key(r, m))
  BY <1>2, UpOne
<1>4. At(arr, loc[Way(r, m)]).child = loc[r][1]
  BY <1>3 DEF Child
<1>5. Way(r, m) = q
  BY <1>1, <1>3, <1>4 DEF Shape, Owned
<1> QED  BY <1>3, <1>5

\* A node's own array is not the one of its children.
LEMMA NotOwnArray ==
  ASSUME NEW arr, NEW loc, Shape(arr, loc), NEW q \in DOMAIN loc
  PROVE  loc[q][1] # At(arr, loc[q]).child
<1> SUFFICES ASSUME loc[q][1] = At(arr, loc[q]).child PROVE FALSE
  OBVIOUS
<1>1. PICK m \in Levels : q \in Bits(m + K) /\ Way(q, m) = q
  BY ParentOf
<1>2. m \in Nat /\ m + K \in Nat /\ Way(q, m + K) = q
  BY <1>1, LevelFacts, BitsFacts, LpmAssumption
<1>3. m = m + K
  BY <1>1, <1>2, WayDepth
<1> QED  BY <1>2, <1>3, LpmAssumption

\* The nodes below a node are those in the array of its children.
LEMMA ChildArray ==
  ASSUME NEW arr, NEW loc, Shape(arr, loc), NEW n \in Levels, NEW q \in Bits(n), q \in DOMAIN loc,
         NEW r \in DOMAIN loc
  PROVE  r \in Bits(n + K) /\ Way(r, n) = q <=> loc[r][1] = At(arr, loc[q]).child
<1>1. ASSUME r \in Bits(n + K), Way(r, n) = q PROVE loc[r][1] = At(arr, loc[q]).child
  <2>1. loc[r] = Child(At(arr, loc[Way(r, n)]), Key(r, n))
    BY <1>1 DEF Shape, Joined
  <2> QED  BY <1>1, <2>1 DEF Child
<1>2. ASSUME loc[r][1] = At(arr, loc[q]).child PROVE r \in Bits(n + K) /\ Way(r, n) = q
  <2>1. PICK m \in Levels : r \in Bits(m + K) /\ Way(r, m) = q
    BY <1>2, ParentOf
  <2>2. m \in Nat /\ n \in Nat /\ Way(q, n) = q
    BY LevelFacts, BitsFacts
  <2>3. m = n
    BY <2>1, <2>2, WayDepth
  <2> QED  BY <2>1, <2>3
<1> QED  BY <1>1, <1>2

\* A node without a child for a slot gets one: its children move to a new array,
\* every other node stays where it is.
GrownArrays(arr, at, key, a, leaf) ==
  LET n     == At(arr, at)
      old   == IF n.child = NULL THEN << >> ELSE arr[n.child]
      kept  == [arr EXCEPT ![at[1]][at[2]] = Grown(n, key, a)]
  IN  [b \in (DOMAIN arr \ {n.child}) \cup {a} |->
         IF b = a THEN InsertAt(old, Rank(n.vector, key) + 1, NewNode(leaf)) ELSE kept[b]]

GrownLoc(arr, loc, n, r0, a) ==
  [r \in DOMAIN loc \cup {r0} |->
     IF r \in Bits(n + K) /\ Way(r, n) = Way(r0, n)
     THEN <<a, Rank(Grown(At(arr, loc[Way(r0, n)]), Key(r0, n), a).vector, Key(r, n))>>
     ELSE loc[r]]

\* The node r0 comes under a node at level n, with the leaf of its slot.
Growth(arr, loc, n, r0, a, leaf, arr2, loc2) ==
  /\ Shape(arr, loc) /\ n \in Levels /\ r0 \in Bits(n + K)
  /\ Way(r0, n) \in DOMAIN loc /\ Key(r0, n) \notin At(arr, loc[Way(r0, n)]).vector
  /\ a \in Nat \ {0} /\ a \notin DOMAIN arr /\ leaf \in Leaf
  /\ arr2 = GrownArrays(arr, loc[Way(r0, n)], Key(r0, n), a, leaf)
  /\ loc2 = GrownLoc(arr, loc, n, r0, a)

\* What has become of the nodes, and of their arrays.
Grew(arr, loc, n, r0, a, leaf, arr2, loc2) ==
  LET q == Way(r0, n)
  IN  /\ r0 \notin DOMAIN loc
      /\ ArraysTyped(arr2) /\ Located(arr2, loc2)
      /\ At(arr2, loc2[q]) = Grown(At(arr, loc[q]), Key(r0, n), a)
      /\ At(arr2, loc2[r0]) = NewNode(leaf)
      /\ \A r \in DOMAIN loc : r # q => At(arr2, loc2[r]) = At(arr, loc[r])
      /\ DOMAIN arr2 = (DOMAIN arr \ {At(arr, loc[q]).child}) \cup {a}
      /\ Len(arr2[a]) = Cardinality(At(arr, loc[q]).vector) + 1
      /\ \A b \in DOMAIN arr \ {At(arr, loc[q]).child} : Len(arr2[b]) = Len(arr[b])

\* After the growth the places of loc2 hold what those of loc held, and the new node.
LEMMA GrowNodes ==
  ASSUME NEW arr, NEW loc, NEW n, NEW r0, NEW a, NEW leaf, NEW arr2, NEW loc2,
         Growth(arr, loc, n, r0, a, leaf, arr2, loc2)
  PROVE  Grew(arr, loc, n, r0, a, leaf, arr2, loc2)
<1> DEFINE q     == Way(r0, n)
           key   == Key(r0, n)
           grown == Grown(At(arr, loc[q]), key, a)
<1>0. n \in Nat /\ K \in Nat \ {0} /\ n + K \in Levels /\ n + K \in Nat
  BY LevelFacts, LpmAssumption DEF Growth
<1>way. q \in Bits(n) /\ key \in Slots
  <2>1. r0 \in Bits(n + K)
    BY DEF Growth
  <2> QED  BY <1>0, <2>1, BitsFacts
<1> SUFFICES ASSUME Shape(arr, loc), n \in Levels, q \in Bits(n), q \in DOMAIN loc,
                    key \in Slots, key \notin At(arr, loc[q]).vector,
                    r0 \in Bits(n + K), Way(r0, n) = q, Key(r0, n) = key,
                    a \in Nat \ {0}, a \notin DOMAIN arr, leaf \in Leaf,
                    arr2 = GrownArrays(arr, loc[q], key, a, leaf),
                    grown = Grown(At(arr, loc[q]), key, a),
                    loc2 = GrownLoc(arr, loc, n, r0, a)
             PROVE  /\ r0 \notin DOMAIN loc
                    /\ ArraysTyped(arr2) /\ Located(arr2, loc2)
                    /\ At(arr2, loc2[q]) = grown /\ At(arr2, loc2[r0]) = NewNode(leaf)
                    /\ \A r \in DOMAIN loc : r # q => At(arr2, loc2[r]) = At(arr, loc[r])
                    /\ DOMAIN arr2 = (DOMAIN arr \ {At(arr, loc[q]).child}) \cup {a}
                    /\ Len(arr2[a]) = Cardinality(At(arr, loc[q]).vector) + 1
                    /\ \A b \in DOMAIN arr \ {At(arr, loc[q]).child} : Len(arr2[b]) = Len(arr[b])
  BY <1>way DEF Growth, Grew
<1> HIDE DEF q, key, grown
<1> DEFINE node  == At(arr, loc[q])
           old   == IF node.child = NULL THEN << >> ELSE arr[node.child]
           place == Rank(node.vector, key) + 1
           ins   == InsertAt(old, place, NewNode(leaf))
           kept  == [arr EXCEPT ![loc[q][1]][loc[q][2]] = grown]
           Kid(r) == r \in Bits(n + K) /\ Way(r, n) = q
<1>1. NodeOK(node) /\ node.vector \in SUBSET Slots /\ Cardinality(node.vector) \in Nat
  <2>1. NodeOK(node)
    BY DEF Shape, Owned
  <2> HIDE DEF node
  <2>2. node.vector \in SUBSET Slots
    BY <2>1 DEF NodeOK, NodeSet
  <2> QED  BY <2>1, <2>2, RankIs
<1>2. NodeOK(grown) /\ grown.vector = node.vector \cup {key} /\ grown.child = a
  <2>1. key \in Slots \ node.vector /\ a \in Nat /\ grown = Grown(node, key, a)
    OBVIOUS
  <2> HIDE DEF node
  <2> QED  BY <1>1, <2>1, GrownIs
<1>3. n \in Nat /\ K \in Nat \ {0} /\ n + K \in Levels
  BY LevelFacts, LpmAssumption
<1>4. r0 \notin DOMAIN loc
  BY DEF Shape, Joined
<1>5. /\ arr = [b \in DOMAIN arr |-> arr[b]]
      /\ \A b \in DOMAIN arr : b \in Nat \ {0} /\ arr[b] \in Seq(NodeSet)
      /\ 1 \in DOMAIN arr /\ a # 1
      /\ \A r \in DOMAIN loc : /\ loc[r] \in Nat \X Nat /\ loc[r][1] \in DOMAIN arr
                               /\ loc[r][2] \in 1 .. Len(arr[loc[r][1]])
      /\ Top \in DOMAIN loc /\ loc[Top] = <<1, 1>>
  <2>1. Top \in DOMAIN loc /\ loc[Top] = <<1, 1>>
    BY DEF Shape, Located, Root
  <2>2. \A r \in DOMAIN loc : /\ loc[r] \in Nat \X Nat /\ loc[r][1] \in DOMAIN arr
                              /\ loc[r][2] \in 1 .. Len(arr[loc[r][1]])
    BY DEF Shape, Located
  <2>3. loc[Top][1] = 1
    BY <2>1
  <2>4. 1 \in DOMAIN arr
    BY <2>1, <2>2, <2>3
  <2>5. /\ arr = [b \in DOMAIN arr |-> arr[b]]
        /\ \A b \in DOMAIN arr : b \in Nat \ {0} /\ arr[b] \in Seq(NodeSet)
    BY DEF Shape, ArraysTyped
  <2> QED  BY <2>1, <2>2, <2>4, <2>5
<1>6. loc[q][1] # node.child /\ loc[q][1] \in DOMAIN arr /\ loc[q][1] # a
  BY <1>5, NotOwnArray
<1>7. old \in Seq(NodeSet) /\ Len(old) = Cardinality(node.vector)
  <2>1. CASE node.vector = {}
    <3>1. node.child = NULL
      BY <2>1 DEF Shape, Owned
    <3>2. Cardinality(node.vector) = 0
      BY <2>1, FS_EmptySet
    <3>3. old = << >>
      BY <3>1
    <3> HIDE DEF old, node
    <3> QED  BY <3>2, <3>3
  <2>2. CASE node.vector # {}
    <3>1. node.child \in DOMAIN arr /\ Len(arr[node.child]) = Cardinality(node.vector)
      BY <2>2 DEF Shape, Owned
    <3>2. node.child # NULL
      BY <1>5, <3>1, LpmAssumption
    <3> QED  BY <1>5, <3>1, <3>2
  <2> QED  BY <2>1, <2>2
<1>8. place \in 1 .. Len(old) + 1 /\ NewNode(leaf) \in NodeSet
  <2>1. Rank(node.vector, key) \in Nat /\ Rank(node.vector, key) <= Cardinality(node.vector)
    BY <1>1, RankIs
  <2>2. NewNode(leaf) \in NodeSet
    BY NewNodeIs DEF NodeOK
  <2> HIDE DEF old
  <2> QED  BY <1>1, <1>7, <2>1, <2>2
<1>9. /\ ins \in Seq(NodeSet) /\ Len(ins) = Cardinality(node.vector) + 1
      /\ \A i \in 1 .. place - 1 : ins[i] = old[i]
      /\ ins[place] = NewNode(leaf)
      /\ \A i \in place + 1 .. Len(old) + 1 : ins[i] = old[i - 1]
  <2> DEFINE e == NewNode(leaf)
             i0 == place
  <2>1. old \in Seq(NodeSet) /\ i0 \in 1 .. Len(old) + 1 /\ e \in NodeSet
    BY <1>7, <1>8
  <2> HIDE DEF old, i0, e
  <2>2. /\ InsertAt(old, i0, e) \in Seq(NodeSet)
        /\ Len(InsertAt(old, i0, e)) = Len(old) + 1
        /\ \A i \in 1 .. i0 - 1 : InsertAt(old, i0, e)[i] = old[i]
        /\ InsertAt(old, i0, e)[i0] = e
        /\ \A i \in i0 + 1 .. Len(old) + 1 : InsertAt(old, i0, e)[i] = old[i - 1]
    <3>1. ASSUME NEW s \in Seq(NodeSet), NEW k \in 1 .. Len(s) + 1, NEW x \in NodeSet
          PROVE  /\ InsertAt(s, k, x) \in Seq(NodeSet)
                 /\ Len(InsertAt(s, k, x)) = Len(s) + 1
                 /\ \A i \in 1 .. k - 1 : InsertAt(s, k, x)[i] = s[i]
                 /\ InsertAt(s, k, x)[k] = x
                 /\ \A i \in k + 1 .. Len(s) + 1 : InsertAt(s, k, x)[i] = s[i - 1]
      BY InsertedAt
    <3> QED  BY <2>1, <3>1
  <2>3. ins = InsertAt(old, i0, e)
    BY DEF i0, e
  <2> HIDE DEF ins
  <2>4. /\ ins \in Seq(NodeSet) /\ Len(ins) = Cardinality(node.vector) + 1
        /\ \A i \in 1 .. i0 - 1 : ins[i] = old[i]
        /\ ins[i0] = e
        /\ \A i \in i0 + 1 .. Len(old) + 1 : ins[i] = old[i - 1]
    BY <1>7, <2>2, <2>3
  <2> QED  BY <2>4 DEF i0, e
<1>10. arr2 = [b \in (DOMAIN arr \ {node.child}) \cup {a} |-> IF b = a THEN ins ELSE kept[b]]
  BY DEF GrownArrays
<1>11. /\ kept = [arr EXCEPT ![loc[q][1]] = [arr[loc[q][1]] EXCEPT ![loc[q][2]] = grown]]
       /\ kept[loc[q][1]] = [arr[loc[q][1]] EXCEPT ![loc[q][2]] = grown]
       /\ \A b \in DOMAIN arr : b # loc[q][1] => kept[b] = arr[b]
  BY <1>5
<1>12. /\ kept[loc[q][1]] \in Seq(NodeSet) /\ Len(kept[loc[q][1]]) = Len(arr[loc[q][1]])
       /\ kept[loc[q][1]][loc[q][2]] = grown
       /\ \A i \in 1 .. Len(arr[loc[q][1]]) : i # loc[q][2] => kept[loc[q][1]][i] = arr[loc[q][1]][i]
  <2> DEFINE s == arr[loc[q][1]]
             i0 == loc[q][2]
             t == kept[loc[q][1]]
  <2>1. s \in Seq(NodeSet) /\ i0 \in 1 .. Len(s) /\ t = [s EXCEPT ![i0] = grown]
    BY <1>5, <1>11
  <2>2. grown \in NodeSet
    BY <1>2 DEF NodeOK
  <2> HIDE DEF s, i0, t
  <2>3. /\ t \in Seq(NodeSet) /\ Len(t) = Len(s) /\ t[i0] = grown
        /\ \A i \in 1 .. Len(s) : i # i0 => t[i] = s[i]
    BY <2>1, <2>2
  <2> QED  BY <2>3 DEF s, i0, t
<1> HIDE DEF kept, ins, old
<1>13. /\ DOMAIN arr2 = (DOMAIN arr \ {node.child}) \cup {a} /\ arr2[a] = ins
       /\ \A b \in DOMAIN arr \ {node.child} : b # a /\ arr2[b] = kept[b]
       /\ arr2 = [b \in DOMAIN arr2 |-> arr2[b]]
  BY <1>10
<1>14. \A b \in DOMAIN arr \ {node.child} :
         arr2[b] \in Seq(NodeSet) /\ Len(arr2[b]) = Len(arr[b])
  BY <1>5, <1>11, <1>12, <1>13
<1>15. ArraysTyped(arr2)
  BY <1>5, <1>9, <1>13, <1>14 DEF ArraysTyped
<1>16. \A r \in DOMAIN loc : Kid(r) <=> loc[r][1] = node.child
  BY ChildArray
<1>17. /\ DOMAIN loc2 = DOMAIN loc \cup {r0} /\ loc2 = [r \in DOMAIN loc2 |-> loc2[r]]
       /\ \A r \in DOMAIN loc2 : loc2[r] = IF Kid(r) THEN <<a, Rank(grown.vector, Key(r, n))>>
                                           ELSE loc[r]
  BY DEF GrownLoc
<1>18. Kid(r0) /\ ~Kid(q)
  <2>1. Kid(r0)
    OBVIOUS
  <2>2. ASSUME q \in Bits(n + K) PROVE FALSE
    <3>1. n = n + K
      BY <1>3, <2>2, BitsDepth
    <3> QED  BY <1>3, <3>1
  <2> QED  BY <2>1, <2>2
<1>19. ASSUME NEW r \in DOMAIN loc, ~Kid(r)
       PROVE  /\ loc2[r] = loc[r] /\ loc2[r] \in Nat \X Nat /\ loc2[r][1] \in DOMAIN arr2
              /\ loc2[r][2] \in 1 .. Len(arr2[loc2[r][1]])
              /\ At(arr2, loc2[r]) = IF r = q THEN grown ELSE At(arr, loc[r])
  <2>1. loc2[r] = loc[r] /\ loc[r][1] \in DOMAIN arr \ {node.child}
    BY <1>5, <1>16, <1>17, <1>19
  <2>2. Len(arr2[loc[r][1]]) = Len(arr[loc[r][1]]) /\ arr2[loc[r][1]] = kept[loc[r][1]]
    BY <1>13, <1>14, <2>1
  <2>3. At(arr2, loc[r]) = kept[loc[r][1]][loc[r][2]]
    BY <2>2 DEF At
  <2>4. CASE r = q
    BY <1>5, <1>12, <1>13, <2>1, <2>2, <2>3, <2>4
  <2>5. CASE r # q
    <3>1. loc[r] # loc[q]
      BY <2>5, LocOnce
    <3>2. loc[r][1] = loc[q][1] => loc[r][2] # loc[q][2]
      <4>1. loc[r] \in Nat \X Nat /\ loc[q] \in Nat \X Nat
        BY <1>5
      <4>2. loc[r] = <<loc[r][1], loc[r][2]>> /\ loc[q] = <<loc[q][1], loc[q][2]>>
        BY <4>1
      <4> QED  BY <3>1, <4>2
    <3>3. kept[loc[r][1]][loc[r][2]] = arr[loc[r][1]][loc[r][2]]
      BY <1>5, <1>11, <1>12, <3>2
    <3>4. At(arr2, loc[r]) = At(arr, loc[r])
      BY <2>3, <3>3 DEF At
    <3> QED  BY <1>5, <1>13, <2>1, <2>2, <2>5, <3>4
  <2> QED  BY <2>4, <2>5
<1>20. /\ loc2[r0] = <<a, place>> /\ At(arr2, loc2[r0]) = NewNode(leaf)
  <2>1. Rank(grown.vector, key) = place
    <3>1. AtOrBefore(key, key)
      BY DEF AtOrBefore
    <3>2. key \notin node.vector
      OBVIOUS
    <3> HIDE DEF node
    <3>3. Rank(node.vector \cup {key}, key) = Rank(node.vector, key) + 1
      BY <1>1, <3>1, <3>2, RankAdd
    <3> QED  BY <1>2, <3>3
  <2>2. loc2[r0] = <<a, place>>
    BY <1>17, <1>18, <2>1
  <2>3. At(arr2, loc2[r0]) = ins[place]
    <3> HIDE DEF place
    <3>1. loc2[r0][1] = a /\ loc2[r0][2] = place
      BY <2>2
    <3>2. arr2[a] = ins
      BY <1>13
    <3> HIDE DEF node
    <3> QED  BY <3>1, <3>2 DEF At
  <2> QED  BY <1>9, <2>2, <2>3
<1>21. ASSUME NEW r \in DOMAIN loc, Kid(r)
       PROVE  /\ loc2[r] = <<a, Rank(grown.vector, Key(r, n))>>
              /\ Rank(grown.vector, Key(r, n)) \in 1 .. Len(ins)
              /\ At(arr2, loc2[r]) = At(arr, loc[r]) /\ r # q
  <2> DEFINE k == Key(r, n)
             i == Rank(node.vector, k)
             j == Rank(grown.vector, k)
  <2>1. loc2[r] = <<a, j>> /\ r # q
    BY <1>17, <1>18, <1>21
  <2>2. k \in node.vector /\ loc[r] = <<node.child, i>>
    <3>1. k \in node.vector /\ loc[r] = Child(node, k)
      BY <1>21 DEF Shape, Joined
    <3> QED  BY <3>1 DEF Child
  <2>3. k \in Slots /\ k # key
    BY <1>1, <2>2
  <2>4. j = IF AtOrBefore(key, k) THEN i + 1 ELSE i
    <3>1. key \notin node.vector
      OBVIOUS
    <3> HIDE DEF node, k
    <3>2. Rank(node.vector \cup {key}, k) = IF AtOrBefore(key, k) THEN Rank(node.vector, k) + 1
                                            ELSE Rank(node.vector, k)
      BY <1>1, <3>1, RankAdd
    <3> QED  BY <1>2, <3>2
  <2>5. i \in Nat /\ i >= 1 /\ i <= Len(old) /\ Rank(node.vector, key) \in Nat
    <3>1. i >= 1
      BY <1>1, <2>2, <2>3, RankGrows
    <3>2. i \in Nat /\ i <= Cardinality(node.vector) /\ Rank(node.vector, key) \in Nat
      BY <1>1, RankIs
    <3> QED  BY <1>7, <3>1, <3>2
  <2>6. Before(key, k) => place <= i
    <3>1. Before(key, k) => Rank(node.vector, key) < i
      BY <1>1, <2>2, <2>3, RankGrows
    <3> QED  BY <2>5, <3>1
  <2>7. Before(k, key) => i < place
    <3>1. Before(k, key) => i <= Rank(node.vector, key)
      BY <1>1, <2>2, <2>3, RankGrows DEF AtOrBefore
    <3> QED  BY <2>5, <3>1
  <2>8. Before(k, key) => ~AtOrBefore(key, k)
    BY <2>3, SlotOrder DEF AtOrBefore
  <2>9. Before(key, k) => AtOrBefore(key, k)
    BY DEF AtOrBefore
  <2>10. old = arr[node.child]
    <3>1. loc[r][1] = node.child /\ loc[r][1] \in DOMAIN arr
      BY <1>5, <2>2
    <3>2. node.child # NULL
      BY <1>5, <3>1, LpmAssumption
    <3> QED  BY <3>2 DEF old
  <2>11. At(arr, loc[r]) = old[i]
    <3>1. loc[r][1] = node.child /\ loc[r][2] = i
      BY <2>2
    <3> HIDE DEF i, node
    <3> QED  BY <2>10, <3>1 DEF At
  <2>12. At(arr2, loc2[r]) = ins[j]
    <3> HIDE DEF j
    <3>1. loc2[r][1] = a /\ loc2[r][2] = j
      BY <2>1
    <3>2. arr2[a] = ins
      BY <1>13
    <3> HIDE DEF node
    <3> QED  BY <3>1, <3>2 DEF At
  <2>13. place \in 1 .. Len(old) + 1 /\ Len(old) \in Nat /\ Len(ins) = Len(old) + 1
    BY <1>1, <1>7, <1>8, <1>9
  <2> HIDE DEF i, j, k, place
  <2>14. CASE Before(key, k)
    <3>1. j = i + 1 /\ i + 1 \in place + 1 .. Len(old) + 1 /\ (i + 1) - 1 = i
      BY <2>4, <2>5, <2>6, <2>9, <2>13, <2>14
    <3>2. ins[i + 1] = old[(i + 1) - 1]
      BY <1>9, <3>1
    <3>3. ins[j] = old[i]
      BY <3>1, <3>2
    <3>4. j \in 1 .. Len(ins)
      BY <2>5, <2>13, <3>1
    <3> QED  BY <2>1, <2>11, <2>12, <3>3, <3>4 DEF j, k
  <2>15. CASE Before(k, key)
    <3>1. j = i /\ i \in 1 .. place - 1
      BY <2>4, <2>5, <2>7, <2>8, <2>13, <2>15
    <3>2. ins[j] = old[i] /\ j \in 1 .. Len(ins)
      BY <1>9, <2>5, <2>13, <3>1
    <3> QED  BY <2>1, <2>11, <2>12, <3>2 DEF j, k
  <2> QED  BY <2>3, <2>14, <2>15, SlotOrder
<1>22. Located(arr2, loc2)
  <2>1. ~Kid(Top) /\ Top # r0 /\ Top \in DOMAIN loc /\ loc2[Top] = Root
    <3>1. ~ Kid(Top) /\ Top # r0
      <4> SUFFICES ASSUME Top \in Bits(n + K) PROVE FALSE
        OBVIOUS
      <4>1. n + K = 0
        BY <1>3, BitsDepth, TopFacts
      <4> QED  BY <1>3, <4>1
    <3> QED  BY <1>5, <1>19, <3>1 DEF Root
  <2>2. ASSUME NEW r \in DOMAIN loc2
        PROVE  /\ \E m \in Levels : r \in Bits(m)
               /\ loc2[r] \in Nat \X Nat
               /\ loc2[r][1] \in DOMAIN arr2 /\ loc2[r][2] \in 1 .. Len(arr2[loc2[r][1]])
    <3>1. CASE r = r0
      <4>1. place \in Nat /\ place \in 1 .. Len(ins)
        <5>1. Len(old) \in Nat /\ Len(ins) = Len(old) + 1
          BY <1>1, <1>7, <1>9
        <5> HIDE DEF place
        <5> QED  BY <1>8, <5>1
      <4>2. loc2[r] = <<a, place>>
        BY <1>20, <3>1
      <4> HIDE DEF place
      <4> QED  BY <1>3, <1>13, <3>1, <4>1, <4>2
    <3>2. CASE r \in DOMAIN loc /\ Kid(r)
      <4> DEFINE j == Rank(grown.vector, Key(r, n))
      <4>1. loc2[r] = <<a, j>> /\ j \in 1 .. Len(ins)
        BY <1>21, <3>2
      <4>2. Len(ins) \in Nat
        BY <1>1, <1>9
      <4> HIDE DEF j
      <4> QED  BY <1>3, <1>13, <3>2, <4>1, <4>2
    <3>3. CASE r \in DOMAIN loc /\ ~Kid(r)
      <4>1. \E m \in Levels : r \in Bits(m)
        BY <3>3 DEF Shape, Located
      <4> QED  BY <1>19, <3>3, <4>1
    <3> QED  BY <1>17, <3>1, <3>2, <3>3
  <2>3. Top \in DOMAIN loc2
    BY <1>17, <2>1
  <2> QED  BY <1>17, <2>1, <2>2, <2>3 DEF Located
<1>23. \A r \in DOMAIN loc : r # q => At(arr2, loc2[r]) = At(arr, loc[r])
  BY <1>19, <1>21
<1>24. At(arr2, loc2[q]) = grown
  BY <1>18, <1>19
<1> QED  BY <1>4, <1>9, <1>13, <1>14, <1>15, <1>20, <1>22, <1>23, <1>24

\* The arrays have their shape again after an array of children has been copied.
LEMMA GrowShape ==
  ASSUME NEW arr, NEW loc, NEW n, NEW r0, NEW a, NEW leaf, NEW arr2, NEW loc2,
         Growth(arr, loc, n, r0, a, leaf, arr2, loc2)
  PROVE  Shape(arr2, loc2)
<1> DEFINE q     == Way(r0, n)
           key   == Key(r0, n)
           grown == Grown(At(arr, loc[q]), key, a)
<1>0. n \in Nat /\ K \in Nat \ {0} /\ n + K \in Levels /\ n + K \in Nat
  BY LevelFacts, LpmAssumption DEF Growth
<1>way. q \in Bits(n) /\ key \in Slots
  <2>1. r0 \in Bits(n + K)
    BY DEF Growth
  <2> QED  BY <1>0, <2>1, BitsFacts
<1> SUFFICES ASSUME Shape(arr, loc), n \in Levels, q \in Bits(n), q \in DOMAIN loc,
                    key \in Slots, key \notin At(arr, loc[q]).vector,
                    r0 \in Bits(n + K), Way(r0, n) = q, Key(r0, n) = key,
                    a \in Nat \ {0}, a \notin DOMAIN arr, leaf \in Leaf,
                    arr2 = GrownArrays(arr, loc[q], key, a, leaf),
                    grown = Grown(At(arr, loc[q]), key, a),
                    loc2 = GrownLoc(arr, loc, n, r0, a)
             PROVE  Shape(arr2, loc2)
  BY <1>way DEF Growth
<1>grew. Grew(arr, loc, n, r0, a, leaf, arr2, loc2)
  BY GrowNodes
<1> DEFINE node == At(arr, loc[q])
<1>1. /\ r0 \notin DOMAIN loc
      /\ ArraysTyped(arr2) /\ Located(arr2, loc2)
      /\ At(arr2, loc2[q]) = grown /\ At(arr2, loc2[r0]) = NewNode(leaf)
      /\ \A r \in DOMAIN loc : r # q => At(arr2, loc2[r]) = At(arr, loc[r])
      /\ DOMAIN arr2 = (DOMAIN arr \ {node.child}) \cup {a}
      /\ Len(arr2[a]) = Cardinality(node.vector) + 1
      /\ \A b \in DOMAIN arr \ {node.child} : Len(arr2[b]) = Len(arr[b])
  BY <1>grew DEF Grew
<1> HIDE DEF q, key, grown
<1>2. NodeOK(node) /\ node.vector \in SUBSET Slots /\ key \notin node.vector
  <2>1. NodeOK(node)
    BY DEF Shape, Owned
  <2> QED  BY <2>1 DEF NodeOK, NodeSet
<1>3. NodeOK(grown) /\ grown.vector = node.vector \cup {key} /\ grown.child = a
  <2>1. key \in Slots \ node.vector /\ a \in Nat /\ grown = Grown(node, key, a)
    OBVIOUS
  <2> HIDE DEF node
  <2> QED  BY <1>2, <2>1, GrownIs
<1>4. NodeOK(NewNode(leaf)) /\ NewNode(leaf).vector = {} /\ NewNode(leaf).child = NULL
  BY NewNodeIs
<1>5. n \in Nat /\ K \in Nat \ {0} /\ n + K \in Levels /\ Levels \subseteq Nat
  BY LevelFacts, LpmAssumption
<1>6. DOMAIN loc2 = DOMAIN loc \cup {r0}
  BY DEF GrownLoc
<1>7. \A r \in DOMAIN loc2 : loc2[r] = IF r \in Bits(n + K) /\ Way(r, n) = q
                                       THEN <<a, Rank(grown.vector, Key(r, n))>> ELSE loc[r]
  BY DEF GrownLoc
<1>8. 1 \in DOMAIN arr /\ \A b \in DOMAIN arr : b \in Nat \ {0}
  <2>1. Top \in DOMAIN loc /\ loc[Top][1] = 1
    BY DEF Shape, Located, Root
  <2> QED  BY <2>1 DEF Shape, Located, ArraysTyped
<1> HIDE DEF node
<1>9. Joined(arr2, loc2)
  <2> SUFFICES ASSUME NEW m \in Levels, NEW r \in Bits(m + K)
               PROVE  /\ r \in DOMAIN loc2
                           <=> /\ Way(r, m) \in DOMAIN loc2
                               /\ Key(r, m) \in At(arr2, loc2[Way(r, m)]).vector
                      /\ r \in DOMAIN loc2 => loc2[r] = Child(At(arr2, loc2[Way(r, m)]), Key(r, m))
    BY DEF Joined
  <2> DEFINE p == Way(r, m)
  <2>1. /\ r \in DOMAIN loc <=> p \in DOMAIN loc /\ Key(r, m) \in At(arr, loc[p]).vector
        /\ r \in DOMAIN loc => loc[r] = Child(At(arr, loc[p]), Key(r, m))
    BY DEF Shape, Joined
  <2>2. m \in Nat /\ m + K \in Nat /\ n + K \in Nat /\ p \in Bits(m) /\ Key(r, m) \in Slots
    <3>1. m \in Nat /\ m + K \in Nat /\ n + K \in Nat
      BY <1>5
    <3>2. \A d \in Bits(m + K) : Way(d, m) \in Bits(m) /\ Key(d, m) \in Slots
      BY <3>1, BitsFacts
    <3> QED  BY <3>1, <3>2
  <2>3. p = q <=> m = n /\ Way(r, n) = q
    <3>1. p = q => m = n
      BY <1>5, <2>2, BitsDepth
    <3> QED  BY <3>1
  <2>4. r \in Bits(n + K) => m = n
    <3>1. r \in Bits(n + K) => m + K = n + K
      BY <2>2, BitsDepth
    <3> QED  BY <1>5, <2>2, <3>1
  <2>5. p = r0 => p \notin DOMAIN loc /\ m = n + K /\ r # r0 /\ r \notin Bits(n + K)
    <3>1. p = r0 => m = n + K
      BY <2>2, BitsDepth
    <3> QED  BY <1>1, <1>5, <2>2, <2>4, <3>1
  <2>6. CASE p = q
    <3>1. m = n /\ Way(r, n) = q /\ r \in Bits(n + K)
      BY <2>3, <2>6
    <3>2. r = r0 <=> Key(r, n) = key
      BY <1>5, <3>1, SameBits
    <3>3. r \in DOMAIN loc <=> Key(r, n) \in node.vector
      BY <2>1, <2>6, <3>1 DEF node
    <3>4. r \in DOMAIN loc2 <=> Key(r, n) \in grown.vector
      BY <1>3, <1>6, <3>2, <3>3
    <3>5. r \in DOMAIN loc2 => loc2[r] = Child(grown, Key(r, n))
      BY <1>3, <1>7, <3>1 DEF Child
    <3> QED  BY <1>1, <1>6, <2>6, <3>1, <3>4, <3>5
  <2>7. CASE p = r0
    <3>1. r \notin DOMAIN loc2
      BY <1>6, <2>1, <2>5, <2>7
    <3> QED  BY <1>1, <1>4, <2>7, <3>1
  <2>8. CASE p # q /\ p # r0
    <3>1. r # r0 /\ ~(r \in Bits(n + K) /\ Way(r, n) = q)
      BY <2>3, <2>4, <2>8
    <3>2. r \in DOMAIN loc2 <=> r \in DOMAIN loc
      BY <1>6, <3>1
    <3>3. p \in DOMAIN loc2 <=> p \in DOMAIN loc
      BY <1>6, <2>8
    <3>4. p \in DOMAIN loc => At(arr2, loc2[p]) = At(arr, loc[p])
      BY <1>1, <2>8
    <3>5. r \in DOMAIN loc2 => loc2[r] = loc[r]
      BY <1>7, <3>1
    <3> QED  BY <2>1, <3>2, <3>3, <3>4, <3>5
  <2> QED  BY <2>6, <2>7, <2>8
<1>10. ASSUME NEW r \in DOMAIN loc, r # q
       PROVE  /\ NodeOK(At(arr, loc[r]))
              /\ At(arr, loc[r]).vector = {} => At(arr, loc[r]).child = NULL
              /\ At(arr, loc[r]).vector # {} =>
                   /\ At(arr, loc[r]).child \in DOMAIN arr /\ At(arr, loc[r]).child # 1
                   /\ Len(arr[At(arr, loc[r]).child]) = Cardinality(At(arr, loc[r]).vector)
                   /\ At(arr, loc[r]).child # node.child
              /\ At(arr, loc[r]).child # a
  <2> DEFINE o == At(arr, loc[r])
  <2>1. /\ NodeOK(o) /\ o.vector = {} => o.child = NULL
        /\ o.vector # {} => /\ o.child \in DOMAIN arr /\ o.child # 1
                            /\ Len(arr[o.child]) = Cardinality(o.vector)
    BY DEF Shape, Owned
  <2>2. o.child = node.child /\ o.child # NULL => r = q
    BY DEF Shape, Owned, node
  <2>3. NodeOK(o)
    BY DEF Shape, Owned
  <2> HIDE DEF o
  <2>4. o.vector # {} => o.child # NULL
    BY <1>8, <2>1, LpmAssumption
  <2>5. o.child # a
    BY <2>1, <2>3, LpmAssumption
  <2> QED  BY <1>10, <2>1, <2>2, <2>3, <2>4, <2>5 DEF o
<1>11. Owned(arr2, loc2)
  <2>1. ASSUME NEW r \in DOMAIN loc2
        PROVE  LET o == At(arr2, loc2[r])
               IN  /\ NodeOK(o)
                   /\ o.vector = {} => o.child = NULL
                   /\ o.vector # {} => /\ o.child \in DOMAIN arr2 /\ o.child # 1
                                       /\ Len(arr2[o.child]) = Cardinality(o.vector)
    <3>1. CASE r = q
      <4>1. Cardinality(grown.vector) = Cardinality(node.vector) + 1
        BY <1>2, <1>3, RankAdd
      <4>2. a \in DOMAIN arr2 /\ a # 1 /\ At(arr2, loc2[r]) = grown /\ grown.vector # {}
        BY <1>1, <1>3, <1>8, <3>1
      <4> QED  BY <1>1, <1>3, <4>1, <4>2
    <3>2. CASE r = r0
      BY <1>1, <1>4, <3>2
    <3>3. CASE r \in DOMAIN loc /\ r # q
      <4>1. At(arr2, loc2[r]) = At(arr, loc[r])
        BY <1>1, <3>3
      <4> DEFINE o == At(arr, loc[r])
      <4>2. /\ NodeOK(o) /\ (o.vector = {} => o.child = NULL)
            /\ o.vector # {} => /\ o.child \in DOMAIN arr \ {node.child} /\ o.child # 1
                                /\ Len(arr[o.child]) = Cardinality(o.vector)
        BY <1>10, <3>3
      <4> HIDE DEF o
      <4>3. o.vector # {} => /\ o.child \in DOMAIN arr2
                             /\ Len(arr2[o.child]) = Cardinality(o.vector)
        BY <1>1, <4>2
      <4> QED  BY <4>1, <4>2, <4>3 DEF o
    <3> QED  BY <1>6, <3>1, <3>2, <3>3
  <2>2. ASSUME NEW r \in DOMAIN loc2, NEW s \in DOMAIN loc2,
               At(arr2, loc2[r]).child = At(arr2, loc2[s]).child, At(arr2, loc2[r]).child # NULL
        PROVE  r = s
    <3>1. At(arr2, loc2[q]).child = a /\ At(arr2, loc2[r0]).child = NULL
      BY <1>1, <1>3, <1>4
    <3>2. \A t \in DOMAIN loc : t # q => /\ At(arr2, loc2[t]).child = At(arr, loc[t]).child
                                         /\ At(arr2, loc2[t]).child # a
      BY <1>1, <1>10
    <3>3. r # r0 /\ s # r0
      BY <2>2, <3>1
    <3>4. r \in DOMAIN loc /\ s \in DOMAIN loc
      BY <1>6, <3>3
    <3>5. r = q <=> s = q
      BY <2>2, <3>1, <3>2, <3>4
    <3>6. r # q /\ s # q => r = s
      BY <2>2, <3>2, <3>4 DEF Shape, Owned
    <3> QED  BY <3>5, <3>6
  <2> QED  BY <2>1, <2>2 DEF Owned
<1> QED  BY <1>1, <1>9, <1>11 DEF Shape

\* A node changes but for its children.
Replaced(arr, loc, q, m, arr2) ==
  /\ Shape(arr, loc) /\ q \in DOMAIN loc /\ NodeOK(m)
  /\ m.vector = At(arr, loc[q]).vector /\ m.child = At(arr, loc[q]).child
  /\ arr2 = [arr EXCEPT ![loc[q][1]][loc[q][2]] = m]

\* So they have after the leaves of one node have changed.
LEMMA ReplacedShape ==
  ASSUME NEW arr, NEW loc, NEW q, NEW m, NEW arr2, Replaced(arr, loc, q, m, arr2)
  PROVE  /\ Shape(arr2, loc) /\ At(arr2, loc[q]) = m /\ DOMAIN arr2 = DOMAIN arr
         /\ \A r \in DOMAIN loc : r # q => At(arr2, loc[r]) = At(arr, loc[r])
<1> DEFINE node == At(arr, loc[q])
<1>1. /\ Shape(arr, loc) /\ q \in DOMAIN loc /\ NodeOK(m)
      /\ m.vector = node.vector /\ m.child = node.child
      /\ arr2 = [arr EXCEPT ![loc[q][1]][loc[q][2]] = m]
  BY DEF Replaced
<1>2. /\ arr = [b \in DOMAIN arr |-> arr[b]]
      /\ \A b \in DOMAIN arr : b \in Nat \ {0} /\ arr[b] \in Seq(NodeSet)
      /\ \A r \in DOMAIN loc : /\ loc[r] \in Nat \X Nat /\ loc[r][1] \in DOMAIN arr
                               /\ loc[r][2] \in 1 .. Len(arr[loc[r][1]])
  BY <1>1 DEF Shape, Located, ArraysTyped
<1>3. /\ arr2 = [arr EXCEPT ![loc[q][1]] = [arr[loc[q][1]] EXCEPT ![loc[q][2]] = m]]
      /\ arr2[loc[q][1]] = [arr[loc[q][1]] EXCEPT ![loc[q][2]] = m]
      /\ \A b \in DOMAIN arr : b # loc[q][1] => arr2[b] = arr[b]
      /\ DOMAIN arr2 = DOMAIN arr /\ arr2 = [b \in DOMAIN arr2 |-> arr2[b]]
  BY <1>1, <1>2
<1>4. /\ arr2[loc[q][1]] \in Seq(NodeSet) /\ Len(arr2[loc[q][1]]) = Len(arr[loc[q][1]])
      /\ arr2[loc[q][1]][loc[q][2]] = m
      /\ \A i \in 1 .. Len(arr[loc[q][1]]) : i # loc[q][2] => arr2[loc[q][1]][i] = arr[loc[q][1]][i]
  <2> DEFINE s  == arr[loc[q][1]]
             i0 == loc[q][2]
             t  == arr2[loc[q][1]]
  <2>1. s \in Seq(NodeSet) /\ i0 \in 1 .. Len(s) /\ t = [s EXCEPT ![i0] = m]
    BY <1>1, <1>2, <1>3
  <2>2. m \in NodeSet
    BY <1>1 DEF NodeOK
  <2> HIDE DEF s, i0, t
  <2>3. /\ t \in Seq(NodeSet) /\ Len(t) = Len(s) /\ t[i0] = m
        /\ \A i \in 1 .. Len(s) : i # i0 => t[i] = s[i]
    BY <2>1, <2>2
  <2> QED  BY <2>3 DEF s, i0, t
<1>5. \A b \in DOMAIN arr2 : /\ b \in Nat \ {0} /\ arr2[b] \in Seq(NodeSet)
                             /\ Len(arr2[b]) = Len(arr[b])
  BY <1>2, <1>3, <1>4
<1>6. At(arr2, loc[q]) = m
  BY <1>4 DEF At
<1>7. ASSUME NEW r \in DOMAIN loc, r # q
      PROVE  At(arr2, loc[r]) = At(arr, loc[r])
  <2>1. loc[r] # loc[q]
    BY <1>1, <1>7, LocOnce
  <2>2. loc[r][1] = loc[q][1] => loc[r][2] # loc[q][2]
    <3>1. loc[r] \in Nat \X Nat /\ loc[q] \in Nat \X Nat
      BY <1>1, <1>2
    <3>2. loc[r] = <<loc[r][1], loc[r][2]>> /\ loc[q] = <<loc[q][1], loc[q][2]>>
      BY <3>1
    <3> QED  BY <2>1, <3>2
  <2>3. arr2[loc[r][1]][loc[r][2]] = arr[loc[r][1]][loc[r][2]]
    BY <1>2, <1>3, <1>4, <2>2
  <2> QED  BY <2>3 DEF At
<1>8. \A r \in DOMAIN loc : /\ At(arr2, loc[r]).vector = At(arr, loc[r]).vector
                            /\ At(arr2, loc[r]).child = At(arr, loc[r]).child
  BY <1>1, <1>6, <1>7
<1> HIDE DEF node
<1>9. ArraysTyped(arr2)
  BY <1>3, <1>5 DEF ArraysTyped
<1>10. Located(arr2, loc)
  <2>1. Located(arr, loc)
    BY <1>1 DEF Shape
  <2> QED  BY <1>3, <1>5, <2>1 DEF Located
<1>11. Joined(arr2, loc)
  <2> SUFFICES ASSUME NEW n \in Levels, NEW r \in Bits(n + K)
               PROVE  /\ r \in DOMAIN loc
                           <=> /\ Way(r, n) \in DOMAIN loc
                               /\ Key(r, n) \in At(arr2, loc[Way(r, n)]).vector
                      /\ r \in DOMAIN loc => loc[r] = Child(At(arr2, loc[Way(r, n)]), Key(r, n))
    BY DEF Joined
  <2>1. /\ r \in DOMAIN loc <=> /\ Way(r, n) \in DOMAIN loc
                                /\ Key(r, n) \in At(arr, loc[Way(r, n)]).vector
        /\ r \in DOMAIN loc => loc[r] = Child(At(arr, loc[Way(r, n)]), Key(r, n))
    BY <1>1 DEF Shape, Joined
  <2> QED  BY <1>8, <2>1 DEF Child
<1>12. Owned(arr2, loc)
  <2>1. ASSUME NEW r \in DOMAIN loc
        PROVE  LET o == At(arr2, loc[r])
               IN  /\ NodeOK(o)
                   /\ o.vector = {} => o.child = NULL
                   /\ o.vector # {} => /\ o.child \in DOMAIN arr2 /\ o.child # 1
                                       /\ Len(arr2[o.child]) = Cardinality(o.vector)
    <3> DEFINE u == At(arr, loc[r])
               v == At(arr2, loc[r])
    <3>1. /\ u.vector = {} => u.child = NULL
          /\ u.vector # {} => /\ u.child \in DOMAIN arr /\ u.child # 1
                              /\ Len(arr[u.child]) = Cardinality(u.vector)
      BY <1>1 DEF Shape, Owned
    <3>2. NodeOK(u)
      BY <1>1 DEF Shape, Owned
    <3>3. NodeOK(v)
      BY <1>1, <1>6, <1>7, <3>2
    <3>4. v.vector = u.vector /\ v.child = u.child
      BY <1>8
    <3> HIDE DEF u, v
    <3>5. /\ v.vector = {} => v.child = NULL
          /\ v.vector # {} => /\ v.child \in DOMAIN arr2 /\ v.child # 1
                              /\ Len(arr2[v.child]) = Cardinality(v.vector)
      BY <1>3, <1>5, <3>1, <3>4
    <3> QED  BY <3>3, <3>5 DEF v
  <2>2. ASSUME NEW r \in DOMAIN loc, NEW s \in DOMAIN loc,
               At(arr2, loc[r]).child = At(arr2, loc[s]).child, At(arr2, loc[r]).child # NULL
        PROVE  r = s
    BY <1>1, <1>8, <2>2 DEF Shape, Owned
  <2> QED  BY <2>1, <2>2 DEF Owned
<1> QED  BY <1>1, <1>3, <1>6, <1>7, <1>9, <1>10, <1>11, <1>12 DEF Shape

-----------------------------------------------------------------------------
(* The steps of an insertion.                                              *)

\* Facts of the table.
LEMMA TableFacts ==
  ASSUME NEW p \in Table
  PROVE  /\ p.mask \in Nat /\ p.mask \in 1 .. W /\ W \in Nat /\ p.iface \in Nat \ {0}
         /\ p.dest \in Address /\ p.dest \in Bits(W)
         /\ \A i \in Nat : i > p.mask => Bit(p.dest, i) = 0
         /\ \A n \in Nat : Way(p.dest, n) \in Bits(n) /\ Key(p.dest, n) \in Slots
<1>1. /\ W \in Nat /\ p.mask \in 1 .. W /\ p.iface \in Nat \ {0} /\ p.dest \in Address
      /\ \A i \in p.mask + 1 .. W : p.dest[i] = 0
  BY LpmAssumption
<1>2. p.dest \in Bits(W)
  BY <1>1 DEF Address
<1>3. DOMAIN p.dest = 1 .. W /\ \A n \in Nat : Way(p.dest, n) \in Bits(n) /\ Key(p.dest, n) \in Slots
  BY <1>1, <1>2, BitsFacts
<1>4. \A i \in Nat : i > p.mask => Bit(p.dest, i) = 0
  BY <1>1, <1>3 DEF Bit
<1> QED  BY <1>1, <1>2, <1>3, <1>4

\* The compressed trie begins with a root that matches nothing.
LEMMA InitCompressed ==
  ASSUME Init
  PROVE  CompressedInv
<1> DEFINE loc  == [q \in {Top} |-> Root]
           root == NewNode(NoLeaf)
<1>1. arrays = [b \in {1} |-> <<root>>]
  BY DEF Init
<1>2. NodeOK(root) /\ root.vector = {} /\ root.child = NULL /\ \A s \in Slots : LeafOf(root, s) = NoLeaf
  <2>1. NoLeaf \in Leaf
    BY DEF NoLeaf, Leaf
  <2> QED  BY <2>1, NewNodeIs
<1>3. root \in NodeSet
  BY <1>2 DEF NodeOK
<1>4. DOMAIN loc = {Top} /\ loc[Top] = <<1, 1>> /\ loc = [q \in DOMAIN loc |-> loc[q]]
  BY DEF Root
<1> HIDE DEF root, loc
<1>5. At(arrays, loc[Top]) = root
  BY <1>1, <1>4 DEF At
<1>6. ArraysTyped(arrays)
  <2>1. <<root>> \in Seq(NodeSet)
    BY <1>3
  <2> QED  BY <1>1, <2>1 DEF ArraysTyped
<1>7. Located(arrays, loc)
  <2>1. Top \in Bits(0) /\ 0 \in Levels
    BY TopFacts, LevelFacts
  <2>2. DOMAIN arrays = {1} /\ Len(arrays[1]) = 1
    BY <1>1
  <2> QED  BY <1>4, <2>1, <2>2 DEF Located, Root
<1>8. K \in Nat \ {0}
  BY LpmAssumption
<1>9. Joined(arrays, loc)
  <2> SUFFICES ASSUME NEW n \in Levels, NEW r \in Bits(n + K)
               PROVE  /\ r \notin DOMAIN loc
                      /\ Way(r, n) \in DOMAIN loc => At(arrays, loc[Way(r, n)]).vector = {}
    BY DEF Joined
  <2>1. n \in Nat /\ n + K \in Nat /\ n + K # 0
    BY <1>8, LevelFacts
  <2>2. r # Top
    BY <2>1, BitsDepth, TopFacts
  <2> QED  BY <1>2, <1>4, <1>5, <2>2
<1>10. Owned(arrays, loc)
  BY <1>2, <1>4, <1>5 DEF Owned
<1>11. Shape(arrays, loc)
  BY <1>6, <1>7, <1>9, <1>10 DEF Shape
<1>12. inserted = {} /\ put = NULL /\ Done = {}
  BY DEF Init, Done
<1>13. NodesStem(loc)
  <2> SUFFICES ASSUME NEW n \in Levels, NEW q \in Bits(n), q \in DOMAIN loc, n # 0
               PROVE  FALSE
    BY DEF NodesStem
  <2>1. q = Top /\ Top \in Bits(0) /\ n \in Nat
    BY <1>4, TopFacts, LevelFacts
  <2> QED  BY <2>1, BitsDepth
<1>14. NodesThere(loc) /\ PutRight(loc)
  BY <1>12 DEF NodesThere, PutRight
<1>15. LeavesRight(loc)
  <2> SUFFICES ASSUME NEW n \in Levels, NEW r \in Bits(n + K), Way(r, n) \in DOMAIN loc
               PROVE  IsBest(LeafOf(At(arrays, loc[Way(r, n)]), Key(r, n)), Covering(Done, r, n + K))
    BY DEF LeavesRight
  <2>1. n \in Nat /\ n + K \in Nat
    BY <1>8, LevelFacts
  <2>2. Key(r, n) \in Slots
    BY <2>1, BitsFacts
  <2>3. LeafOf(At(arrays, loc[Way(r, n)]), Key(r, n)) = NoLeaf
    BY <1>2, <1>4, <1>5, <2>2
  <2> QED  BY <1>12, <2>3 DEF IsBest, Covering
<1>16. DirectRight(loc)
  <2>1. ASSUME NEW i \in Bits(2 * K) PROVE i \notin DOMAIN loc
    <3>1. 2 * K \in Nat /\ 2 * K # 0
      BY <1>8
    <3> QED  BY <1>4, <3>1, BitsDepth, TopFacts
  <2>2. direct_pointing = [i \in Bits(2 * K) |-> NULL]
    BY DEF Init
  <2> QED  BY <2>1, <2>2 DEF DirectRight
<1>17. Counted
  BY <1>1 DEF Counted, Init
<1>18. InOrder
  BY <1>12 DEF InOrder
<1> QED  BY <1>11, <1>12, <1>13, <1>14, <1>15, <1>16, <1>17, <1>18 DEF CompressedInv, Content

\* A record of an insertion is not NULL.
LEMMA PutSome ==
  ASSUME NEW p \in Table, NEW n \in Nat, NEW at \in Nat \X Nat
  PROVE  [entry |-> p, depth |-> n, current |-> at] # NULL
BY LpmAssumption

\* The levels up to the one of direct_pointing.
LEMMA LowLevels ==
  \A n \in Levels : n <= 2 * K => n = 0 \/ n = K \/ n = 2 * K
<1> SUFFICES ASSUME NEW n \in Levels, n <= 2 * K, n # 0, n # K, n # 2 * K
             PROVE  FALSE
  OBVIOUS
<1>1. K \in Nat \ {0} /\ n \in Nat
  BY LpmAssumption, LevelFacts
<1>2. n < 2 * K => n + K <= 2 * K
  BY LevelFacts
<1>3. n < K => n + K <= K
  BY LevelFacts
<1> QED  BY <1>1, <1>2, <1>3

\* An insertion begins at the root, or at the node direct_pointing has for it.
LEMMA BeginStep ==
  ASSUME CompressedInv, NEW p \in Table, PutBegin(p)
  PROVE  CompressedInv'
<1>1. PICK loc : Shape(arrays, loc) /\ Content(loc)
  BY DEF CompressedInv
<1>2. /\ put = NULL /\ p \notin inserted /\ inserted' = inserted \cup {p} /\ Done = inserted
      /\ \A q \in Table : Within(p, q) => q \in inserted
      /\ arrays' = arrays /\ counter_internal' = counter_internal
      /\ direct_pointing' = direct_pointing
  BY DEF PutBegin, Done
<1>3. /\ p.mask \in Nat /\ p.mask \in 1 .. W /\ W \in Nat
      /\ \A n \in Nat : Way(p.dest, n) \in Bits(n)
  BY TableFacts
<1>4. K \in Nat \ {0} /\ 0 \in Levels /\ K \in Levels /\ 2 * K \in Levels /\ 2 * K \in Nat
  BY LpmAssumption, LevelFacts
<1>5. /\ put' # NULL /\ put'.entry = p /\ put'.depth \in Levels /\ put'.depth < p.mask
      /\ put' = [entry |-> put'.entry, depth |-> put'.depth, current |-> put'.current]
      /\ \A n \in Levels : n <= put'.depth => Way(p.dest, n) \in DOMAIN loc
      /\ put'.current = loc[Way(p.dest, put'.depth)]
  <2> DEFINE i == Way(p.dest, 2 * K)
             direct == direct_pointing[i]
  <2>1. i \in Bits(2 * K) /\ Way(p.dest, 0) = Top /\ Top \in DOMAIN loc /\ loc[Top] = Root
    BY <1>1, <1>3, <1>4, TopFacts DEF Shape, Located
  <2>2. direct = IF i \in DOMAIN loc THEN loc[i] ELSE NULL
    BY <1>1, <2>1 DEF Content, DirectRight
  <2>3. CASE direct # NULL /\ p.mask > 2 * K
    <3>1. i \in DOMAIN loc /\ direct = loc[i]
      BY <2>2, <2>3
    <3>2. put' = [entry |-> p, depth |-> 2 * K, current |-> direct]
      BY <2>3 DEF PutBegin
    <3>3. direct \in Nat \X Nat
      BY <1>1, <3>1 DEF Shape, Located
    <3>4. put' # NULL
      BY <1>4, <3>2, <3>3, PutSome
    <3>5. Way(p.dest, K) \in DOMAIN loc
      <4>1. 2 * K = K + K /\ K \in 0 .. 2 * K
        BY <1>4
      <4>2. i \in Bits(K + K)
        BY <2>1, <4>1
      <4>3. Way(i, K) \in DOMAIN loc
        <5> HIDE DEF i
        <5> QED  BY <1>1, <1>4, <3>1, <4>2 DEF Shape, Joined
      <4>4. Way(i, K) = Way(p.dest, K)
        BY <1>4, <4>1, WayOfWay
      <4> QED  BY <4>3, <4>4
    <3>6. \A n \in Levels : n <= 2 * K => Way(p.dest, n) \in DOMAIN loc
      BY <2>1, <3>1, <3>5, LowLevels
    <3> QED  BY <1>3, <1>4, <2>3, <3>1, <3>2, <3>4, <3>6
  <2>4. CASE ~(direct # NULL /\ p.mask > 2 * K)
    <3>1. put' = [entry |-> p, depth |-> 0, current |-> Root]
      BY <2>4 DEF PutBegin
    <3>2. put' # NULL
      <4>1. Root \in Nat \X Nat
        BY DEF Root
      <4> QED  BY <3>1, <4>1, PutSome
    <3>3. \A n \in Levels : n <= 0 => n = 0
      <4>1. \A n \in Levels : n \in Nat
        BY LevelFacts
      <4> QED  BY <4>1
    <3> QED  BY <1>3, <1>4, <2>1, <3>1, <3>2, <3>3
  <2> QED  BY <2>3, <2>4
<1>6. Done' = Done /\ inserted' \subseteq Table
  BY <1>2, <1>5 DEF Done, CompressedInv
<1>7. NodesStem(loc)'
  BY <1>1, <1>2 DEF Content, NodesStem
<1>8. NodesThere(loc)' /\ LeavesRight(loc)' /\ DirectRight(loc)'
  BY <1>1, <1>2, <1>6 DEF Content, NodesThere, LeavesRight, DirectRight
<1>9. PutRight(loc)'
  BY <1>2, <1>5 DEF PutRight
<1>10. InOrder' /\ Counted'
  BY <1>2, <1>6 DEF InOrder, Counted, CompressedInv
<1>11. \A q \in Table : Within(put'.entry, q) => q \in Done'
  BY <1>2, <1>5, <1>6
<1>12. Shape(arrays', loc)
  BY <1>1, <1>2
<1> QED  BY <1>6, <1>7, <1>8, <1>9, <1>10, <1>11, <1>12 DEF CompressedInv, Content

\* Where the insertion is.
LEMMA PutFacts ==
  ASSUME CompressedInv, NEW loc, Shape(arrays, loc), Content(loc), put # NULL
  PROVE  LET p == put.entry
             n == put.depth
             q == Way(p.dest, n)
             r == Way(p.dest, n + K)
         IN  /\ p \in Table /\ p \in inserted /\ n \in Levels /\ n \in Nat /\ n < p.mask
             /\ p.mask \in Nat /\ K \in Nat \ {0} /\ n + K \in Levels /\ n + K \in Nat
             /\ q \in Bits(n) /\ q \in DOMAIN loc /\ put.current = loc[q]
             /\ Node(put.current) = At(arrays, loc[q]) /\ NodeOK(Node(put.current))
             /\ PutKey = Key(p.dest, n) /\ PutKey \in Slots
             /\ r \in Bits(n + K) /\ Way(r, n) = q /\ Key(r, n) = PutKey
<1> DEFINE p == put.entry
           n == put.depth
           q == Way(p.dest, n)
           r == Way(p.dest, n + K)
<1>1. /\ p \in Table /\ p \in inserted /\ n \in Levels /\ n < p.mask
      /\ \A m \in Levels : m <= n => Way(p.dest, m) \in DOMAIN loc
      /\ put.current = loc[q]
  BY DEF CompressedInv, Content, PutRight
<1>2. n \in Nat /\ K \in Nat \ {0} /\ n + K \in Levels /\ n + K \in Nat /\ p.mask \in Nat
  BY <1>1, LevelFacts, LpmAssumption, TableFacts
<1>3. q \in DOMAIN loc
  BY <1>1, <1>2
<1>4. q \in Bits(n) /\ r \in Bits(n + K) /\ Key(p.dest, n) \in Slots
  BY <1>1, <1>2, TableFacts
<1>5. Way(r, n) = q /\ Key(r, n) = Key(p.dest, n)
  BY <1>2, WayOfWay, KeyOfWay
<1>6. Node(put.current) = At(arrays, loc[q]) /\ PutKey = Key(p.dest, n)
  BY <1>1 DEF Node, At, PutKey
<1>7. NodeOK(At(arrays, loc[q]))
  BY <1>3 DEF Shape, Owned
<1> QED  BY <1>1, <1>2, <1>3, <1>4, <1>5, <1>6, <1>7

\* Where it goes on.
LEMMA DescendFacts ==
  ASSUME CompressedInv, NEW loc, Shape(arrays, loc), Content(loc), Descending,
         NEW loc2, DOMAIN loc \subseteq DOMAIN loc2,
         \A q \in DOMAIN loc : q \in Bits(put.depth) => loc2[q] = loc[q],
         Way(put.entry.dest, put.depth + K) \in DOMAIN loc2,
         NEW at, at \in Nat \X Nat, at = loc2[Way(put.entry.dest, put.depth + K)],
         Descend(at), inserted' = inserted
  PROVE  Done' = Done /\ put'.entry = put.entry /\ PutRight(loc2)'
         /\ put.depth + K < put.entry.mask
<1> DEFINE p == put.entry
           n == put.depth
<1>1. put # NULL /\ p.mask - n > K
  BY DEF Descending, Left
<1>2. /\ put = [entry |-> put.entry, depth |-> put.depth, current |-> put.current]
      /\ \A m \in Levels : m <= n => Way(p.dest, m) \in DOMAIN loc
  BY <1>1 DEF Content, PutRight
<1>3. put' = [entry |-> p, depth |-> n + K, current |-> at]
  BY <1>2 DEF Descend
<1>4. p \in Table /\ p \in inserted /\ n \in Levels /\ n \in Nat /\ n + K \in Levels /\ n + K \in Nat
      /\ p.mask \in Nat /\ K \in Nat \ {0}
  BY <1>1, PutFacts
<1>5. put' # NULL /\ put'.entry = p /\ put'.depth = n + K /\ put'.current = at
  BY <1>3, <1>4, PutSome
<1>6. Done' = Done
  BY <1>1, <1>5 DEF Done
<1>7. n + K < p.mask
  BY <1>1, <1>4
<1>8. ASSUME NEW m \in Levels, m <= n + K PROVE Way(p.dest, m) \in DOMAIN loc2
  <2>1. m \in Nat
    BY LevelFacts
  <2>2. CASE m <= n
    BY <1>2, <2>2
  <2>3. CASE ~(m <= n)
    <3>1. n + K <= m
      BY <1>4, <2>1, <2>3, LevelFacts
    <3>2. m = n + K
      BY <1>4, <1>8, <2>1, <3>1
    <3> QED  BY <3>2
  <2> QED  BY <2>2, <2>3
<1>9. PutRight(loc2)'
  BY <1>3, <1>4, <1>5, <1>7, <1>8 DEF PutRight
<1> QED  BY <1>5, <1>6, <1>7, <1>9

\* The walk of an insertion comes to a node that is there.
LEMMA FollowStep ==
  ASSUME CompressedInv, PutFollow
  PROVE  CompressedInv'
<1>1. PICK loc : Shape(arrays, loc) /\ Content(loc)
  BY DEF CompressedInv
<1> DEFINE r == Way(put.entry.dest, put.depth + K)
           at == Child(Node(put.current), PutKey)
<1>2. /\ Descending /\ put # NULL /\ PutKey \in Node(put.current).vector /\ Descend(at)
      /\ inserted' = inserted /\ arrays' = arrays /\ counter_internal' = counter_internal
      /\ direct_pointing' = direct_pointing
  BY DEF PutFollow, Descending
<1>3. r \in DOMAIN loc /\ at = loc[r]
  BY <1>1, <1>2, PutFacts DEF Shape, Joined
<1>4. at \in Nat \X Nat
  BY <1>1, <1>3 DEF Shape, Located
<1> HIDE DEF at
<1>5. Done' = Done /\ put'.entry = put.entry /\ PutRight(loc)'
  BY <1>1, <1>2, <1>3, <1>4, DescendFacts
<1>6. NodesStem(loc)' /\ NodesThere(loc)' /\ LeavesRight(loc)' /\ DirectRight(loc)'
  BY <1>1, <1>2, <1>5 DEF Content, NodesStem, NodesThere, LeavesRight, DirectRight
<1>7. InOrder' /\ Counted' /\ inserted' \subseteq Table
  BY <1>2, <1>5 DEF InOrder, Counted, CompressedInv
<1>8. \A q \in Table : Within(put'.entry, q) => q \in Done'
  BY <1>2, <1>5 DEF CompressedInv
<1>9. Shape(arrays', loc)
  BY <1>1, <1>2
<1> QED  BY <1>5, <1>6, <1>7, <1>8, <1>9 DEF CompressedInv, Content

\* What the longest prefix is does not depend on bits that no prefix has.
LEMMA CoveringSame ==
  ASSUME NEW S, S \subseteq Table, NEW m \in Nat, NEW n \in Nat, m <= n, NEW d, NEW e,
         Way(d, m) = Way(e, m),
         \A p \in S : ~(p.mask > m /\ p.mask <= n /\ Way(d, p.mask) = Way(p.dest, p.mask))
  PROVE  Covering(S, d, n) = Covering(S, e, m)
<1>1. ASSUME NEW p \in S
      PROVE  p \in Covering(S, d, n) <=> p \in Covering(S, e, m)
  <2>1. p.mask \in Nat
    BY TableFacts
  <2>2. p.mask <= m => Way(d, p.mask) = Way(e, p.mask)
    <3> SUFFICES ASSUME p.mask <= m PROVE Way(d, p.mask) = Way(e, p.mask)
      OBVIOUS
    <3>1. p.mask \in 0 .. m
      BY <2>1
    <3> QED  BY <3>1, WayBefore
  <2> QED  BY <2>1, <2>2 DEF Covering
<1> QED  BY <1>1 DEF Covering

\* The copied array, its new node and the pointers to it fit the trie.
LEMMA GrowStep ==
  ASSUME CompressedInv, PutGrow
  PROVE  CompressedInv'
<1>1. PICK loc : Shape(arrays, loc) /\ Content(loc)
  BY DEF CompressedInv
<1> DEFINE p    == put.entry
           n    == put.depth
           q    == Way(p.dest, n)
           r0   == Way(p.dest, n + K)
           node == Node(put.current)
           a    == counter_internal + 1
           leaf == LeafAt(node, PutKey)
           arr2 == arrays'
           at   == <<a, Rank(node.vector, PutKey) + 1>>
<1>2. /\ Descending /\ put # NULL /\ PutKey \notin node.vector /\ Descend(at)
      /\ inserted' = inserted /\ counter_internal' = a
      /\ arr2 = GrownArrays(arrays, put.current, PutKey, a, leaf)
      /\ direct_pointing' = IF n = K THEN Repointed(Way(p.dest, K), Grown(node, PutKey, a).vector, a)
                            ELSE direct_pointing
  BY DEF PutGrow, GrownArrays, Grown, Descending, Node, At
<1>3. /\ p \in Table /\ p \in inserted /\ n \in Levels /\ n \in Nat /\ n < p.mask
      /\ p.mask \in Nat /\ K \in Nat \ {0} /\ n + K \in Levels /\ n + K \in Nat
      /\ q \in Bits(n) /\ q \in DOMAIN loc /\ put.current = loc[q]
      /\ node = At(arrays, loc[q]) /\ NodeOK(node)
      /\ PutKey = Key(p.dest, n) /\ PutKey \in Slots
      /\ r0 \in Bits(n + K) /\ Way(r0, n) = q /\ Key(r0, n) = PutKey
  BY <1>1, <1>2, PutFacts
<1>4. PICK loc2 : loc2 = GrownLoc(arrays, loc, n, r0, a)
  OBVIOUS
<1>5. a \in Nat \ {0} /\ a \notin DOMAIN arrays /\ DOMAIN arrays \subseteq 1 .. counter_internal
  BY DEF CompressedInv, Counted
<1>6. LeafOf(node, PutKey) = leaf /\ leaf \in Leaf
  <2>1. PutKey \in Slots \ node.vector
    BY <1>2, <1>3
  <2> HIDE DEF node
  <2> QED  BY <1>3, <2>1, LeafFacts
<1> DEFINE key == PutKey
<1> HIDE DEF p, n, q, r0, node, a, leaf, arr2, at, key
<1>7. Growth(arrays, loc, n, r0, a, leaf, arr2, loc2)
  BY <1>1, <1>2, <1>3, <1>4, <1>5, <1>6 DEF Growth
<1>8. Shape(arr2, loc2) /\ Grew(arrays, loc, n, r0, a, leaf, arr2, loc2)
  BY <1>7, GrowShape, GrowNodes
<1>9. /\ r0 \notin DOMAIN loc
      /\ At(arr2, loc2[q]) = Grown(node, PutKey, a) /\ At(arr2, loc2[r0]) = NewNode(leaf)
      /\ \A r \in DOMAIN loc : r # q => At(arr2, loc2[r]) = At(arrays, loc[r])
      /\ DOMAIN arr2 = (DOMAIN arrays \ {node.child}) \cup {a}
  BY <1>3, <1>8 DEF Grew
<1>10. /\ DOMAIN loc2 = DOMAIN loc \cup {r0}
       /\ \A r \in DOMAIN loc2 : loc2[r] = IF r \in Bits(n + K) /\ Way(r, n) = q
                                           THEN <<a, Rank(Grown(node, PutKey, a).vector, Key(r, n))>>
                                           ELSE loc[r]
  BY <1>3, <1>4 DEF GrownLoc
<1>11. /\ Grown(node, PutKey, a).vector = node.vector \cup {PutKey}
       /\ \A s \in Slots \ (node.vector \cup {PutKey}) :
            LeafOf(Grown(node, PutKey, a), s) = LeafOf(node, s)
       /\ node.vector \in SUBSET Slots
  <2>1. PutKey \in Slots \ node.vector /\ a \in Nat
    BY <1>2, <1>3, <1>5
  <2>2. node.vector \in SUBSET Slots
    BY <1>3 DEF NodeOK, NodeSet
  <2> QED  BY <1>3, <2>1, <2>2, GrownIs
<1>12. at = loc2[r0] /\ at \in Nat \X Nat
  <2>1. AtOrBefore(PutKey, PutKey)
    BY DEF AtOrBefore
  <2>2. Rank(node.vector \cup {PutKey}, PutKey) = Rank(node.vector, PutKey) + 1
    BY <1>2, <1>3, <1>11, <2>1, RankAdd
  <2>3. loc2[r0] = at
    BY <1>3, <1>10, <1>11, <2>2 DEF at
  <2>4. loc2[r0] \in Nat \X Nat
    BY <1>8, <1>10 DEF Shape, Located
  <2> QED  BY <2>3, <2>4
<1>13. Done' = Done /\ put'.entry = put.entry /\ PutRight(loc2)' /\ n + K < p.mask
  <2>1. DOMAIN loc \subseteq DOMAIN loc2 /\ r0 \in DOMAIN loc2
    BY <1>10
  <2>2. \A r \in DOMAIN loc : r \in Bits(n) => loc2[r] = loc[r]
    <3> TAKE r \in DOMAIN loc
    <3>1. r \in Bits(n) /\ r \in Bits(n + K) => n = n + K
      BY <1>3, BitsDepth
    <3>2. ~(r \in Bits(n) /\ r \in Bits(n + K))
      BY <1>3, <3>1
    <3> QED  BY <1>10, <3>2
  <2>3. /\ Done' = Done /\ put'.entry = put.entry /\ PutRight(loc2)'
        /\ put.depth + K < put.entry.mask
    BY <1>1, <1>2, <1>12, <2>1, <2>2, DescendFacts DEF r0, p, n
  <2> QED  BY <2>3 DEF p, n
<1>14. NodesStem(loc2)'
  <2> SUFFICES ASSUME NEW m \in Levels, NEW x \in Bits(m), x \in DOMAIN loc2, m # 0
               PROVE  \E e \in inserted : m < e.mask /\ Way(e.dest, m) = x
    BY <1>2 DEF NodesStem
  <2>1. CASE x \in DOMAIN loc
    BY <1>1, <2>1 DEF Content, NodesStem
  <2>2. CASE x = r0
    <3>1. m = n + K
      BY <1>3, <2>2, BitsDepth, LevelFacts
    <3>2. m < p.mask /\ Way(p.dest, m) = x
      BY <1>13, <2>2, <3>1 DEF r0
    <3> QED  BY <1>3, <3>2
  <2> QED  BY <1>10, <2>1, <2>2
<1>15. NodesThere(loc2)'
  BY <1>1, <1>10, <1>13 DEF Content, NodesThere
\* No prefix that is in ends below the new node.
<1>16. \A e \in Done : ~(e.mask > n + K /\ Way(e.dest, n + K) = r0)
  BY <1>1, <1>3, <1>9 DEF Content, NodesThere
<1>17. Done \subseteq Table
  BY DEF Done, CompressedInv
<1>18. LeavesRight(loc2)'
  <2> SUFFICES ASSUME NEW m \in Levels, NEW r \in Bits(m + K), Way(r, m) \in DOMAIN loc2,
                      Key(r, m) \notin At(arr2, loc2[Way(r, m)]).vector
               PROVE  IsBest(LeafOf(At(arr2, loc2[Way(r, m)]), Key(r, m)), Covering(Done, r, m + K))
    BY <1>13 DEF LeavesRight, arr2
  <2>1. m \in Nat /\ m + K \in Nat
    BY <1>3, LevelFacts
  <2>2. Way(r, m) \in Bits(m) /\ Key(r, m) \in Slots
    BY <2>1, BitsFacts
  <2>3. ASSUME Way(r, m) \in DOMAIN loc, Key(r, m) \notin At(arrays, loc[Way(r, m)]).vector
        PROVE  IsBest(LeafOf(At(arrays, loc[Way(r, m)]), Key(r, m)), Covering(Done, r, m + K))
    BY <1>1, <2>3 DEF Content, LeavesRight
  <2>4. CASE Way(r, m) = q
    <3>1. At(arr2, loc2[Way(r, m)]) = Grown(node, PutKey, a) /\ At(arrays, loc[Way(r, m)]) = node
      BY <1>3, <1>9, <2>4
    <3>2. Key(r, m) \notin node.vector \cup {PutKey}
      BY <1>11, <3>1
    <3>3. LeafOf(Grown(node, PutKey, a), Key(r, m)) = LeafOf(node, Key(r, m))
      BY <1>11, <2>2, <3>2
    <3> QED  BY <1>3, <2>3, <2>4, <3>1, <3>2, <3>3
  <2>5. CASE Way(r, m) = r0
    <3>1. m = n + K
      BY <1>3, <2>1, <2>2, <2>5, BitsDepth
    <3>2. LeafOf(At(arr2, loc2[Way(r, m)]), Key(r, m)) = leaf
      BY <1>6, <1>9, <2>2, <2>5, NewNodeIs
    <3>3. IsBest(leaf, Covering(Done, r0, n + K))
      <4>1. IsBest(LeafOf(node, PutKey), Covering(Done, r0, n + K))
        BY <1>1, <1>2, <1>3 DEF Content, LeavesRight
      <4> QED  BY <1>6, <4>1
    <3>4. Covering(Done, r, m + K) = Covering(Done, r0, n + K)
      <4>1. ASSUME NEW e \in Done, e.mask > m, e.mask <= m + K,
                   Way(r, e.mask) = Way(e.dest, e.mask)
            PROVE  FALSE
        <5>1. e.mask \in Nat /\ m \in 0 .. e.mask
          BY <1>17, <2>1, <4>1, TableFacts
        <5>2. Way(r, m) = Way(e.dest, m)
          BY <4>1, <5>1, WayBefore
        <5> QED  BY <1>16, <2>5, <3>1, <4>1, <5>2
      <4>2. Way(r, m) = Way(r0, m) /\ m <= m + K
        <5>1. Way(r0, m) = r0
          BY <1>3, <3>1, BitsFacts
        <5> QED  BY <1>3, <2>1, <2>5, <5>1
      <4>3. Covering(Done, r, m + K) = Covering(Done, r0, m)
        BY <1>17, <2>1, <4>1, <4>2, CoveringSame
      <4> QED  BY <3>1, <4>3
    <3> QED  BY <3>2, <3>3, <3>4
  <2>6. CASE Way(r, m) # q /\ Way(r, m) # r0
    <3>1. Way(r, m) \in DOMAIN loc /\ At(arr2, loc2[Way(r, m)]) = At(arrays, loc[Way(r, m)])
      BY <1>9, <1>10, <2>6
    <3> QED  BY <2>3, <3>1
  <2> QED  BY <2>4, <2>5, <2>6
<1>19. DirectRight(loc2)'
  <2>1. direct_pointing = [i \in Bits(2 * K) |-> IF i \in DOMAIN loc THEN loc[i] ELSE NULL]
    BY <1>1 DEF Content, DirectRight
  <2>2. 2 * K \in Nat /\ 2 * K = K + K
    BY <1>3
  <2>3. CASE n = K
    <3>1. direct_pointing' = [i \in Bits(2 * K) |->
              IF Way(i, K) = q /\ Key(i, K) \in Grown(node, PutKey, a).vector
              THEN <<a, Rank(Grown(node, PutKey, a).vector, Key(i, K))>>
              ELSE direct_pointing[i]]
      BY <1>2, <2>3 DEF Repointed, q
    <3>2. ASSUME NEW i \in Bits(2 * K)
          PROVE  direct_pointing'[i] = IF i \in DOMAIN loc2 THEN loc2[i] ELSE NULL
      <4>1. i \in Bits(n + K)
        BY <2>2, <2>3
      <4>2. i \in DOMAIN loc2 <=> /\ Way(i, n) \in DOMAIN loc2
                                  /\ Key(i, n) \in At(arr2, loc2[Way(i, n)]).vector
        BY <1>3, <1>8, <4>1 DEF Shape, Joined
      <4>3. CASE Way(i, n) = q
        <5>1. i \in DOMAIN loc2 <=> Key(i, n) \in Grown(node, PutKey, a).vector
          BY <1>3, <1>9, <1>10, <4>2, <4>3
        <5>2. i \notin DOMAIN loc2 => i \notin DOMAIN loc
          BY <1>10
        <5> QED  BY <1>10, <2>1, <2>3, <3>1, <4>1, <4>3, <5>1, <5>2
      <4>4. CASE Way(i, n) # q
        <5>1. i # r0
          BY <1>3, <4>4
        <5> QED  BY <1>10, <2>1, <2>3, <3>1, <4>4, <5>1
      <4> QED  BY <4>3, <4>4
    <3>3. direct_pointing' = [i \in Bits(2 * K) |-> direct_pointing'[i]]
      BY <3>1
    <3> QED  BY <3>2, <3>3 DEF DirectRight
  <2>4. CASE n # K
    <3>1. ASSUME NEW i \in Bits(2 * K) PROVE i \notin Bits(n + K)
      <4>1. i \in Bits(n + K) => n + K = 2 * K
        BY <1>3, <2>2, BitsDepth
      <4> QED  BY <1>3, <2>2, <2>4, <4>1
    <3>2. \A i \in Bits(2 * K) : /\ i \in DOMAIN loc2 <=> i \in DOMAIN loc
                                 /\ i \in DOMAIN loc => loc2[i] = loc[i]
      BY <1>3, <1>10, <3>1
    <3>3. direct_pointing' = direct_pointing
      BY <1>2, <2>4
    <3> QED  BY <2>1, <3>2, <3>3 DEF DirectRight
  <2> QED  BY <2>3, <2>4
<1>20. Counted'
  <2>1. counter_internal \in Nat
    BY DEF CompressedInv, Counted
  <2>2. counter_internal' = counter_internal + 1 /\ DOMAIN arrays' \subseteq 1 .. counter_internal + 1
    <3>1. DOMAIN arrays' \subseteq DOMAIN arrays \cup {counter_internal + 1}
      BY <1>9 DEF arr2, a
    <3> QED  BY <1>2, <1>5, <2>1, <3>1 DEF a
  <2> QED  BY <2>1, <2>2 DEF Counted
<1>21. InOrder' /\ inserted' \subseteq Table
  BY <1>2, <1>13 DEF InOrder, CompressedInv
<1>22. \A e \in Table : Within(put'.entry, e) => e \in Done'
  BY <1>2, <1>13 DEF CompressedInv
<1>23. Shape(arrays', loc2)
  BY <1>8 DEF arr2
<1> QED  BY <1>13, <1>14, <1>15, <1>18, <1>19, <1>20, <1>21, <1>22, <1>23 DEF CompressedInv, Content

\* At its end an insertion gives its leaf to the slots it covers, and to these only.
LEMMA LeafStep ==
  ASSUME CompressedInv, PutLeaf
  PROVE  CompressedInv'
<1>1. PICK loc : Shape(arrays, loc) /\ Content(loc)
  BY DEF CompressedInv
<1> DEFINE p     == put.entry
           n     == put.depth
           q     == Way(p.dest, n)
           node  == Node(put.current)
           key   == PutKey
           range == {s \in Slots : Way(s, Left) = Way(key, Left)}
           new   == Match(p)
           l     == Leaves(node, key)
           arr2  == arrays'
<1>2. /\ put # NULL /\ p.mask - n <= K /\ put' = NULL
      /\ inserted' = inserted /\ counter_internal' = counter_internal
      /\ direct_pointing' = direct_pointing
      /\ arr2 = [arrays EXCEPT ![put.current[1]][put.current[2]] = Leaves(@, PutKey)]
  BY DEF PutLeaf, Left
<1>3. /\ p \in Table /\ p \in inserted /\ n \in Levels /\ n \in Nat /\ n < p.mask
      /\ p.mask \in Nat /\ K \in Nat \ {0} /\ n + K \in Levels /\ n + K \in Nat
      /\ q \in Bits(n) /\ q \in DOMAIN loc /\ put.current = loc[q]
      /\ node = At(arrays, loc[q]) /\ NodeOK(node)
      /\ key = Key(p.dest, n) /\ key \in Slots
  BY <1>1, <1>2, PutFacts
<1>4. p.mask - n \in 0 .. K /\ p.mask - n \in Nat /\ n + (p.mask - n) = p.mask /\ p.mask <= n + K
  <2> DEFINE mask == p.mask
  <2>1. mask \in Nat /\ n \in Nat /\ K \in Nat /\ n < mask /\ mask - n <= K
    BY <1>2, <1>3
  <2> HIDE DEF mask, n
  <2> QED  BY <2>1 DEF mask
<1>5. Left = p.mask - n
  BY DEF Left
<1>6. /\ p \notin Done /\ inserted = Done \cup {p} /\ Done' = Done \cup {p} /\ Done' = inserted
      /\ Done \subseteq Table
  BY <1>2, <1>3 DEF Done, CompressedInv
\* Every prefix that lies in the new one comes after it.
<1>7. ASSUME NEW e \in Done PROVE ~Within(e, p)
  BY <1>3, <1>6 DEF CompressedInv, InOrder
<1>8. ASSUME NEW e \in Done, e.mask > p.mask PROVE Way(e.dest, p.mask) # Way(p.dest, p.mask)
  BY <1>7, <1>8 DEF Within
\* What the new prefix covers below a node.
<1>9. ASSUME NEW r \in Bits(n + K), Way(r, n) = q
      PROVE  Key(r, n) \in range <=> Way(r, p.mask) = Way(p.dest, p.mask)
  <2> DEFINE j == p.mask - n
  <2>1. j \in 0 .. K /\ n + j = p.mask /\ n \in Nat
    BY <1>3, <1>4
  <2> HIDE DEF j
  <2>2. Way(r, n + j) = Way(p.dest, n + j)
          <=> /\ Way(r, n) = Way(p.dest, n)
              /\ Way(Key(r, n), j) = Way(Key(p.dest, n), j)
    BY <2>1, WayByKey
  <2>3. Key(r, n) \in Slots
    BY <1>3, BitsFacts
  <2> QED  BY <1>3, <1>5, <1>9, <2>1, <2>2, <2>3 DEF j
<1> HIDE DEF p, n, q, node, key, l, arr2
\* Below such a slot there is no node: it would stem from a longer prefix.
<1>10. range \cap node.vector = {}
  <2> SUFFICES ASSUME NEW s \in range, s \in node.vector PROVE FALSE
    OBVIOUS
  <2>1. s \in Slots
    OBVIOUS
  <2>2. PICK r \in Bits(n + K) : Way(r, n) = q /\ Key(r, n) = s
    BY <1>3, <2>1, Deeper
  <2>3. r \in DOMAIN loc
    BY <1>1, <1>3, <2>2 DEF Shape, Joined
  <2>4. PICK e \in inserted : n + K < e.mask /\ Way(e.dest, n + K) = r
    <3>1. n + K # 0
      BY <1>3
    <3> QED  BY <1>1, <1>3, <2>2, <2>3, <3>1 DEF Content, NodesStem
  <2>5. e \in Table /\ e.mask \in Nat
    BY <1>3, <1>6, <2>4, TableFacts
  <2>6. e # p /\ e \in Done /\ e.mask > p.mask
    BY <1>3, <1>4, <1>6, <2>4, <2>5
  <2>7. Way(r, p.mask) = Way(e.dest, p.mask)
    <3>1. p.mask \in 0 .. n + K
      BY <1>3, <1>4
    <3> QED  BY <1>3, <2>4, <3>1, WayOfWay
  <2>8. Way(r, p.mask) = Way(p.dest, p.mask)
    BY <1>9, <2>2
  <2> QED  BY <1>8, <2>6, <2>7, <2>8
<1>11. /\ \A s \in range : AtOrBefore(key, s)
       /\ \A s \in Slots \ range : \A t \in range : Before(key, s) => Before(t, s)
  <2>1. ASSUME NEW i \in (p.mask - n) + 1 .. K PROVE key[i] = 0
    <3>1. n + i \in Nat /\ n + i > p.mask /\ i \in 1 .. K
      BY <1>3, <1>4
    <3>2. Bit(p.dest, n + i) = 0
      BY <1>3, <3>1, TableFacts
    <3> QED  BY <1>3, <3>1, <3>2 DEF Key
  <2> HIDE DEF range
  <2>2. range = {s \in Slots : Way(s, p.mask - n) = Way(key, p.mask - n)}
    BY <1>5 DEF range
  <2> DEFINE m == p.mask - n
  <2>3. /\ m \in 0 .. K /\ key \in Slots /\ \A i \in m + 1 .. K : key[i] = 0
        /\ range = {s \in Slots : Way(s, m) = Way(key, m)}
    BY <1>3, <1>4, <2>1, <2>2
  <2> HIDE DEF m
  <2> QED  BY <2>3, RangeIs
<1>12. new \in Leaf /\ new = [iface |-> put.entry.iface, mask |-> put.entry.mask] /\ new.mask = p.mask
  BY <1>3, TableFacts DEF Leaf, Match, p
<1>13. ASSUME NEW r \in Bits(n + K), Way(r, n) = q, Key(r, n) \in range
       PROVE  /\ IsBest(LeafOf(node, Key(r, n)), Covering(Done, r, n + K))
              /\ \A e \in Covering(Done, r, n + K) : e.mask <= p.mask
  <2>1. Key(r, n) \notin node.vector
    BY <1>10, <1>13
  <2>2. IsBest(LeafOf(node, Key(r, n)), Covering(Done, r, n + K))
    BY <1>1, <1>3, <1>13, <2>1 DEF Content, LeavesRight
  <2>3. ASSUME NEW e \in Covering(Done, r, n + K) PROVE e.mask <= p.mask
    <3>1. e \in Done /\ e \in Table /\ Way(r, e.mask) = Way(e.dest, e.mask)
      BY <1>6 DEF Covering
    <3>2. e.mask \in Nat
      BY <3>1, TableFacts
    <3>3. e.mask > p.mask => Way(r, p.mask) = Way(e.dest, p.mask)
      <4> SUFFICES ASSUME e.mask > p.mask PROVE Way(r, p.mask) = Way(e.dest, p.mask)
        OBVIOUS
      <4>1. p.mask \in 0 .. e.mask
        BY <1>3, <3>2
      <4> QED  BY <3>1, <3>2, <4>1, WayBefore
    <3>4. Way(r, p.mask) = Way(p.dest, p.mask)
      BY <1>9, <1>13
    <3> QED  BY <1>3, <1>8, <3>1, <3>2, <3>3, <3>4
  <2> QED  BY <2>2, <2>3
<1>14. \A s \in range : new.mask >= LeafOf(node, s).mask
  <2> TAKE s \in range
  <2>1. s \in Slots
    OBVIOUS
  <2>2. PICK r \in Bits(n + K) : Way(r, n) = q /\ Key(r, n) = s
    BY <1>3, <2>1, Deeper
  <2>3. /\ IsBest(LeafOf(node, s), Covering(Done, r, n + K))
        /\ \A e \in Covering(Done, r, n + K) : e.mask <= p.mask
    BY <1>13, <2>2
  <2> HIDE DEF new
  <2> QED  BY <1>3, <1>12, <2>3 DEF IsBest, Match, NoLeaf
<1>15. /\ NodeOK(l) /\ l.vector = node.vector /\ l.child = node.child
       /\ \A s \in range : LeafOf(l, s) = new
       /\ \A s \in Slots \ (node.vector \cup range) : LeafOf(l, s) = LeafOf(node, s)
  <2>1. range = {s \in Slots : Way(s, Left) = Way(key, Left)}
    OBVIOUS
  <2> HIDE DEF range, new
  <2> QED  BY <1>3, <1>10, <1>11, <1>12, <1>14, <2>1, LeavesIs DEF l
<1>16. Replaced(arrays, loc, q, l, arr2)
  <2>1. arr2 = [arrays EXCEPT ![loc[q][1]][loc[q][2]] = l]
    BY <1>2, <1>3 DEF l, node, key, Node
  <2> QED  BY <1>1, <1>3, <1>15, <2>1 DEF Replaced
<1>17. /\ Shape(arr2, loc) /\ At(arr2, loc[q]) = l /\ DOMAIN arr2 = DOMAIN arrays
       /\ \A r \in DOMAIN loc : r # q => At(arr2, loc[r]) = At(arrays, loc[r])
  BY <1>16, ReplacedShape
<1>18. LeavesRight(loc)'
  <2> SUFFICES ASSUME NEW m \in Levels, NEW r \in Bits(m + K), Way(r, m) \in DOMAIN loc,
                      Key(r, m) \notin At(arr2, loc[Way(r, m)]).vector
               PROVE  IsBest(LeafOf(At(arr2, loc[Way(r, m)]), Key(r, m)),
                             Covering(Done \cup {p}, r, m + K))
    BY <1>6 DEF LeavesRight, arr2
  <2>1. m \in Nat /\ m + K \in Nat /\ Way(r, m) \in Bits(m) /\ Key(r, m) \in Slots
    <3>1. m \in Nat /\ m + K \in Nat
      BY <1>3, LevelFacts
    <3> QED  BY <3>1, BitsFacts
  <2>2. Key(r, m) \notin At(arrays, loc[Way(r, m)]).vector
    BY <1>3, <1>15, <1>17
  <2>3. IsBest(LeafOf(At(arrays, loc[Way(r, m)]), Key(r, m)), Covering(Done, r, m + K))
    BY <1>1, <2>2 DEF Content, LeavesRight
  <2>4. CASE Way(r, m) = q
    <3>1. m = n
      BY <1>3, <2>1, <2>4, BitsDepth
    <3>2. CASE Key(r, m) \in range
      <4>1. Way(r, p.mask) = Way(p.dest, p.mask)
        BY <1>9, <2>4, <3>1, <3>2
      <4>2. p \in Covering(Done \cup {p}, r, m + K)
        BY <1>4, <3>1, <4>1 DEF Covering
      <4>3. \A e \in Covering(Done, r, m + K) : e.mask <= p.mask
        BY <1>13, <2>4, <3>1, <3>2
      <4>4. \A e \in Covering(Done \cup {p}, r, m + K) : e = p \/ e \in Covering(Done, r, m + K)
        BY DEF Covering
      <4>5. LeafOf(At(arr2, loc[Way(r, m)]), Key(r, m)) = Match(p)
        BY <1>15, <1>17, <2>4, <3>2
      <4> DEFINE C == Covering(Done \cup {p}, r, m + K)
      <4>6. p.mask <= p.mask
        BY <1>3
      <4>7. p \in C /\ \A e \in C : e.mask <= p.mask
        BY <4>2, <4>3, <4>4, <4>6
      <4> HIDE DEF C
      <4>8. IsBest(Match(p), C)
        BY <4>7 DEF IsBest
      <4> QED  BY <4>5, <4>8 DEF C
    <3>3. CASE Key(r, m) \notin range
      <4>1. Way(r, p.mask) # Way(p.dest, p.mask)
        BY <1>9, <2>4, <3>1, <3>3
      <4>2. Covering(Done \cup {p}, r, m + K) = Covering(Done, r, m + K)
        BY <4>1 DEF Covering
      <4>3. LeafOf(l, Key(r, m)) = LeafOf(node, Key(r, m))
        <5>1. Key(r, m) \in Slots \ (node.vector \cup range)
          BY <1>3, <2>1, <2>2, <2>4, <3>3
        <5> HIDE DEF range
        <5> QED  BY <1>15, <5>1
      <4> QED  BY <1>3, <1>17, <2>3, <2>4, <4>2, <4>3
    <3> QED  BY <3>2, <3>3
  <2>5. CASE Way(r, m) # q
    <3>1. At(arr2, loc[Way(r, m)]) = At(arrays, loc[Way(r, m)])
      BY <1>17, <2>5
    <3>2. ASSUME p.mask <= m + K, Way(r, p.mask) = Way(p.dest, p.mask) PROVE FALSE
      <4>1. n <= m
        <5>1. ~(m < n)
          <6>1. m < n => m + K <= n
            BY <1>3, LevelFacts
          <6> QED  BY <1>3, <2>1, <3>2, <6>1
        <5> QED  BY <1>3, <2>1, <5>1
      <4>2. Way(r, n) = q
        <5>1. n \in 0 .. p.mask
          BY <1>3
        <5> QED  BY <1>3, <3>2, <5>1, WayBefore DEF q
      <4>3. n # m
        BY <2>5, <4>2
      <4>4. n + K <= m /\ m # 0
        <5>1. n < m
          BY <1>3, <2>1, <4>1, <4>3
        <5> QED  BY <1>3, <2>1, <5>1, LevelFacts
      <4>5. PICK e \in inserted : m < e.mask /\ Way(e.dest, m) = Way(r, m)
        BY <1>1, <2>1, <4>4 DEF Content, NodesStem
      <4>6. e \in Table /\ e.mask \in Nat
        BY <1>3, <1>6, <4>5, TableFacts
      <4>7. e # p /\ e \in Done /\ e.mask > p.mask /\ p.mask \in 0 .. m
        BY <1>3, <1>4, <1>6, <2>1, <4>4, <4>5, <4>6
      <4>8. Way(e.dest, p.mask) = Way(r, p.mask)
        BY <2>1, <4>5, <4>7, WayBefore
      <4> QED  BY <1>8, <3>2, <4>7, <4>8
    <3>3. Covering(Done \cup {p}, r, m + K) = Covering(Done, r, m + K)
      BY <3>2 DEF Covering
    <3> QED  BY <2>3, <3>1, <3>3
  <2> QED  BY <2>4, <2>5
<1>19. NodesStem(loc)' /\ DirectRight(loc)' /\ PutRight(loc)'
  BY <1>1, <1>2 DEF Content, NodesStem, DirectRight, PutRight
<1>20. NodesThere(loc)'
  <2>1. ASSUME NEW m \in Levels, m < p.mask PROVE Way(p.dest, m) \in DOMAIN loc
    <3>1. m \in Nat
      BY LevelFacts
    <3>2. m <= n
      <4>1. n < m => n + K <= m
        BY <1>3, LevelFacts
      <4> QED  BY <1>3, <1>4, <2>1, <3>1, <4>1
    <3> QED  BY <1>1, <1>2, <3>2 DEF Content, PutRight, p, n
  <2> QED  BY <1>1, <1>6, <2>1 DEF Content, NodesThere
<1>21. InOrder'
  BY <1>2, <1>6 DEF InOrder, CompressedInv, p
<1>22. Counted'
  BY <1>2, <1>17 DEF Counted, CompressedInv, arr2
<1>23. Shape(arrays', loc)
  BY <1>17 DEF arr2
<1> QED  BY <1>2, <1>6, <1>18, <1>19, <1>20, <1>21, <1>22, <1>23 DEF CompressedInv, Content

-----------------------------------------------------------------------------
(* What the compressed trie finds.                                         *)

\* A step of a lookup goes one level down as long as there is a node.
LEMMA FollowIs ==
  ASSUME NEW loc, Shape(arrays, loc), NEW d \in Address, NEW m \in Levels, Way(d, m) \in DOMAIN loc
  PROVE  /\ Way(d, m + K) \in DOMAIN loc <=> Key(d, m) \in At(arrays, loc[Way(d, m)]).vector
         /\ Follow(d, [at |-> loc[Way(d, m)], depth |-> m]) =
              IF Way(d, m + K) \in DOMAIN loc
              THEN [at |-> loc[Way(d, m + K)], depth |-> m + K]
              ELSE [at |-> loc[Way(d, m)], depth |-> m]
<1> DEFINE r == Way(d, m + K)
<1>1. m \in Nat /\ m + K \in Nat /\ K \in Nat /\ W \in Nat /\ m \in 0 .. m + K
  BY LevelFacts, LpmAssumption
<1>2. r \in Bits(m + K)
  BY <1>1, BitsFacts DEF Address
<1>3. Way(r, m) = Way(d, m) /\ Key(r, m) = Key(d, m)
  BY <1>1, WayOfWay, KeyOfWay
<1>4. /\ r \in DOMAIN loc <=> Key(d, m) \in At(arrays, loc[Way(d, m)]).vector
      /\ r \in DOMAIN loc => loc[r] = Child(At(arrays, loc[Way(d, m)]), Key(d, m))
  <2> HIDE DEF r
  <2> QED  BY <1>2, <1>3 DEF Shape, Joined
<1>5. Node(loc[Way(d, m)]) = At(arrays, loc[Way(d, m)])
  BY DEF Node, At
<1> QED  BY <1>4, <1>5 DEF Follow

\* The i-th level below another.
LEMMA LevelBelow ==
  ASSUME NEW n \in Levels
  PROVE  /\ n + 0 * K = n
         /\ \A i \in Nat : /\ n + i * K \in Levels /\ n + i * K \in Nat /\ i <= n + i * K
                           /\ n + (i + 1) * K = (n + i * K) + K
<1>1. K \in Nat \ {0} /\ n \in Nat
  BY LpmAssumption, LevelFacts
<1>2. PICK c \in Nat : n = c * K
  BY DEF Levels
<1>3. ASSUME NEW i \in Nat
      PROVE  /\ n + i * K \in Levels /\ n + i * K \in Nat /\ i <= n + i * K
             /\ n + (i + 1) * K = (n + i * K) + K
  <2>1. i * K \in Nat /\ (i + 1) * K = i * K + K /\ n + i * K = (c + i) * K /\ c + i \in Nat
    BY <1>1, <1>2
  <2>2. i <= i * K
    <3>1. PICK j \in Nat : K = j + 1
      <4>1. K - 1 \in Nat /\ K = (K - 1) + 1
        BY <1>1
      <4> QED  BY <4>1
    <3>2. i * K = i * j + i /\ i * j \in Nat
      BY <3>1
    <3> QED  BY <3>2
  <2> QED  BY <1>1, <2>1, <2>2 DEF Levels
<1>4. n + 0 * K = n
  BY <1>1
<1> QED  BY <1>3, <1>4

\* The walk comes to the deepest node on the way.
LEMMA WalkEnds ==
  ASSUME CompressedInv, NEW loc, Shape(arrays, loc), Content(loc), NEW n \in Levels,
         NEW d \in Address, Way(d, n) \in DOMAIN loc
  PROVE  \E m \in Levels : /\ Way(d, m) \in DOMAIN loc /\ Way(d, m + K) \notin DOMAIN loc
                           /\ Lookup(loc[Way(d, n)], n, d)
                                = LeafAt(At(arrays, loc[Way(d, m)]), Key(d, m))
<1> DEFINE L(i)    == n + i * K
           here(i) == [at |-> loc[Way(d, L(i))], depth |-> L(i)]
           J       == {j \in 0 .. W : \A i \in 0 .. j : Way(d, L(i)) \in DOMAIN loc}
<1>1. /\ L(0) = n
      /\ \A i \in Nat : L(i) \in Levels /\ L(i) \in Nat /\ i <= L(i) /\ L(i + 1) = L(i) + K
  BY LevelBelow
<1> HIDE DEF L
<1>2. W \in Nat /\ W > 0
  BY LpmAssumption
<1>3. PICK j \in J : \A k \in J : j >= k
  <2>1. J \subseteq 0 .. W /\ J # {}
    <3>1. 0 \in J
      BY <1>1, <1>2
    <3> QED  BY <3>1
  <2> HIDE DEF J
  <2> QED  BY <1>2, <2>1, GreatestExists
<1>4. j \in 0 .. W /\ j \in Nat /\ \A i \in 0 .. j : Way(d, L(i)) \in DOMAIN loc
  BY <1>2, <1>3
<1>5. j < W
  <2>1. L(j) # 0 => L(j) < W
    <3> SUFFICES ASSUME L(j) # 0 PROVE L(j) < W
      OBVIOUS
    <3>1. Way(d, L(j)) \in Bits(L(j)) /\ Way(d, L(j)) \in DOMAIN loc /\ L(j) \in Levels
      <4>1. L(j) \in Nat /\ L(j) \in Levels /\ Way(d, L(j)) \in DOMAIN loc
        BY <1>1, <1>4
      <4>2. \A m \in Nat : Way(d, m) \in Bits(m)
        BY <1>2, BitsFacts DEF Address
      <4> QED  BY <4>1, <4>2
    <3>2. PICK p \in inserted : L(j) < p.mask
      BY <3>1 DEF Content, NodesStem
    <3>3. p.mask \in 1 .. W
      BY <3>2, TableFacts DEF CompressedInv
    <3> QED  BY <1>1, <1>2, <1>4, <3>2, <3>3
  <2> QED  BY <1>1, <1>2, <1>4, <2>1
<1>6. Way(d, L(j) + K) \notin DOMAIN loc
  <2> SUFFICES ASSUME Way(d, L(j) + K) \in DOMAIN loc PROVE FALSE
    OBVIOUS
  <2>1. \A i \in 0 .. j + 1 : Way(d, L(i)) \in DOMAIN loc
    <3> TAKE i \in 0 .. j + 1
    <3>1. i \in 0 .. j \/ i = j + 1
      BY <1>4
    <3>2. L(j + 1) = L(j) + K
      BY <1>1, <1>4
    <3> QED  BY <1>4, <3>1, <3>2
  <2>2. j + 1 \in J
    BY <1>2, <1>4, <1>5, <2>1
  <2> QED  BY <1>3, <1>4, <2>2
<1> HIDE DEF J
<1> DEFINE stay(k) == IF k <= j THEN k ELSE j
           f       == [k \in 0 .. W |-> here(stay(k))]
           walk[k \in 0 .. W] ==
             IF k = 0 THEN [at |-> loc[Way(d, n)], depth |-> n] ELSE Follow(d, walk[k - 1])
<1>7. ASSUME NEW i \in 0 .. j
      PROVE  Follow(d, here(i)) = IF i < j THEN here(i + 1) ELSE here(j)
  <2>1. i \in Nat /\ L(i) \in Levels /\ Way(d, L(i)) \in DOMAIN loc /\ L(i + 1) = L(i) + K
    BY <1>1, <1>4
  <2>2. Follow(d, here(i)) = IF Way(d, L(i) + K) \in DOMAIN loc THEN here(i + 1) ELSE here(i)
    BY <2>1, FollowIs
  <2>3. CASE i < j
    <3>1. i + 1 \in 0 .. j
      BY <1>4, <2>1, <2>3
    <3>2. Way(d, L(i) + K) \in DOMAIN loc
      BY <1>4, <2>1, <3>1
    <3> QED  BY <2>2, <2>3, <3>2
  <2>4. CASE ~(i < j)
    <3>1. i = j
      BY <1>4, <2>1, <2>4
    <3> QED  BY <1>6, <2>2, <2>4, <3>1
  <2> QED  BY <2>3, <2>4
<1>8. f[0] = [at |-> loc[Way(d, n)], depth |-> n]
  BY <1>1, <1>2, <1>4
<1>9. ASSUME NEW k \in 1 .. W PROVE f[k] = Follow(d, f[k - 1])
  <2>1. k - 1 \in 0 .. W /\ k \in 0 .. W /\ stay(k - 1) \in 0 .. j
    BY <1>2, <1>4
  <2>2. stay(k) = IF stay(k - 1) < j THEN stay(k - 1) + 1 ELSE j
    BY <1>2, <1>4
  <2>3. f[k - 1] = here(stay(k - 1)) /\ f[k] = here(stay(k))
    BY <2>1
  <2> HIDE DEF f, here, stay
  <2> QED  BY <1>7, <2>1, <2>2, <2>3
<1> HIDE DEF here
<1>10. f = [k \in 0 .. W |-> IF k = 0 THEN [at |-> loc[Way(d, n)], depth |-> n]
                             ELSE Follow(d, f[k - 1])]
  <2>1. f = [k \in 0 .. W |-> f[k]]
    OBVIOUS
  <2>2. \A k \in 0 .. W : k # 0 => k \in 1 .. W
    BY <1>2
  <2> HIDE DEF f
  <2> QED  BY <1>8, <1>9, <2>1, <2>2
<1> HIDE DEF f
<1>11. walk = [k \in 0 .. W |-> IF k = 0 THEN [at |-> loc[Way(d, n)], depth |-> n]
                                ELSE Follow(d, walk[k - 1])]
  BY <1>10
<1>12. Lookup(loc[Way(d, n)], n, d) = LeafAt(Node(walk[W].at), Key(d, walk[W].depth))
  BY DEF Lookup
<1> HIDE DEF walk
<1>13. walk[W] = f[W]
  <2> DEFINE D == {k \in 0 .. W : walk[k] # f[k]}
  <2>1. ASSUME D # {} PROVE FALSE
    <3>1. D \subseteq Nat
      OBVIOUS
    <3>2. PICK k \in D : \A i \in D : k <= i
      <4> HIDE DEF D
      <4> QED  BY <2>1, <3>1, LeastExists
    <3>3. k # 0
      BY <1>8, <1>11, <3>2
    <3>4. k \in 1 .. W /\ k - 1 \in 0 .. W /\ ~(k <= k - 1)
      BY <1>2, <3>2, <3>3
    <3>5. walk[k - 1] = f[k - 1]
      BY <3>2, <3>4
    <3>6. walk[k] = f[k]
      BY <1>9, <1>11, <3>3, <3>4, <3>5
    <3> QED  BY <3>2, <3>6
  <2> QED  BY <1>2, <2>1
<1>14. f[W] = [at |-> loc[Way(d, L(j))], depth |-> L(j)]
  BY <1>2, <1>4, <1>5 DEF f, here
<1>15. Node(loc[Way(d, L(j))]) = At(arrays, loc[Way(d, L(j))])
  BY DEF Node, At
<1>16. Way(d, L(j)) \in DOMAIN loc /\ L(j) \in Levels
  BY <1>1, <1>4
<1> QED  BY <1>6, <1>12, <1>13, <1>14, <1>15, <1>16

\* What the longest prefix says is told by any that covers and is longest.
LEMMA LongestIs ==
  ASSUME inserted \subseteq Table, NEW d, NEW p \in inserted, Covers(p, d),
         \A q \in inserted : Covers(q, d) => q.mask <= p.mask
  PROVE  LongestMatch(d) = p.iface
<1> DEFINE covering == {q \in inserted : Covers(q, d)}
           c == CHOOSE c \in covering : \A q \in covering : q.mask <= c.mask
<1>1. c \in covering /\ \A q \in covering : q.mask <= c.mask
  OBVIOUS
<1>2. LongestMatch(d) = c.iface
  BY DEF LongestMatch
<1> HIDE DEF c
<1>3. c.mask <= p.mask /\ p.mask <= c.mask /\ c \in Table /\ p \in Table
  BY <1>1
<1>4. c.mask = p.mask
  BY <1>3, TableFacts
<1>5. Way(c.dest, c.mask) = Way(p.dest, p.mask)
  BY <1>1, <1>4 DEF Covers
<1>6. c = p
  BY <1>3, <1>5, LpmAssumption
<1> QED  BY <1>2, <1>6

\* A lookup from any node on the way to d finds the longest match of d.
LEMMA LookupIs ==
  ASSUME CompressedInv, put = NULL, NEW loc, Shape(arrays, loc), Content(loc), NEW n \in Levels,
         NEW d \in Address, Way(d, n) \in DOMAIN loc
  PROVE  Lookup(loc[Way(d, n)], n, d).iface = LongestMatch(d)
<1>1. PICK m \in Levels : /\ Way(d, m) \in DOMAIN loc /\ Way(d, m + K) \notin DOMAIN loc
                          /\ Lookup(loc[Way(d, n)], n, d)
                               = LeafAt(At(arrays, loc[Way(d, m)]), Key(d, m))
  BY WalkEnds
<1> DEFINE node == At(arrays, loc[Way(d, m)])
           key  == Key(d, m)
           r    == Way(d, m + K)
           C    == Covering(inserted, r, m + K)
<1>2. /\ m \in Nat /\ m + K \in Nat /\ m + K \in Levels /\ K \in Nat /\ m \in 0 .. m + K
      /\ d \in Bits(W) /\ W \in Nat
  BY LevelFacts, LpmAssumption DEF Address
<1>3. r \in Bits(m + K) /\ key \in Slots /\ Way(r, m) = Way(d, m) /\ Key(r, m) = key
  BY <1>2, BitsFacts, WayOfWay, KeyOfWay
<1>4. key \notin node.vector
  BY <1>1, FollowIs
<1>5. Done = inserted /\ inserted \subseteq Table
  BY DEF Done, CompressedInv
<1>6. IsBest(LeafOf(node, key), C)
  BY <1>1, <1>3, <1>4, <1>5 DEF Content, LeavesRight
<1>7. LeafAt(node, key) = LeafOf(node, key)
  <2>1. NodeOK(node)
    BY <1>1 DEF Shape, Owned
  <2> HIDE DEF node, key
  <2> QED  BY <1>3, <1>4, <2>1, LeafFacts
<1>8. ASSUME NEW p \in inserted PROVE p \in C <=> Covers(p, d)
  <2>1. p.mask \in Nat
    BY <1>5, TableFacts
  <2>2. CASE p.mask <= m + K
    <3>1. p.mask \in 0 .. m + K
      BY <1>2, <2>1, <2>2
    <3>2. Way(r, p.mask) = Way(d, p.mask)
      BY <1>2, <3>1, WayOfWay
    <3> QED  BY <2>2, <3>2 DEF Covering, Covers
  <2>3. CASE ~(p.mask <= m + K)
    <3>1. m + K < p.mask /\ m + K \in 0 .. p.mask
      BY <1>2, <2>1, <2>3
    <3>2. Way(p.dest, m + K) \in DOMAIN loc
      BY <1>2, <1>5, <3>1 DEF Content, NodesThere
    <3>3. Covers(p, d) => Way(d, m + K) = Way(p.dest, m + K)
      BY <2>1, <3>1, WayBefore DEF Covers
    <3> QED  BY <1>1, <2>3, <3>2, <3>3 DEF Covering
  <2> QED  BY <2>2, <2>3
<1>9. C \subseteq inserted
  BY DEF Covering
<1> HIDE DEF C, node, key
<1>10. CASE C = {}
  <2>1. LongestMatch(d) = 0
    <3>1. {p \in inserted : Covers(p, d)} = {}
      BY <1>8, <1>10
    <3> QED  BY <3>1 DEF LongestMatch
  <2>2. LeafOf(node, key).iface = 0
    BY <1>6, <1>10 DEF IsBest, NoLeaf
  <2> QED  BY <1>1, <1>7, <2>1, <2>2 DEF node, key
<1>11. CASE C # {}
  <2>1. PICK p \in C : LeafOf(node, key) = Match(p) /\ \A q \in C : q.mask <= p.mask
    BY <1>6, <1>11 DEF IsBest
  <2>2. LongestMatch(d) = p.iface
    BY <1>5, <1>8, <1>9, <2>1, LongestIs
  <2> QED  BY <1>1, <1>7, <2>1, <2>2 DEF Match, node, key
<1> QED  BY <1>10, <1>11

\* So does get_poptrie, from the root or through direct_pointing.
LEMMA CompressedLongest ==
  ASSUME CompressedInv, put = NULL, NEW d \in Address
  PROVE  get_poptrie(d) = LongestMatch(d)
<1>1. PICK loc : Shape(arrays, loc) /\ Content(loc)
  BY DEF CompressedInv
<1> DEFINE i == Way(d, 2 * K)
<1>2. i \in Bits(2 * K) /\ Way(d, 0) = Top /\ Top \in DOMAIN loc /\ loc[Top] = Root
  <2>1. W \in Nat /\ 2 * K \in Nat
    BY LpmAssumption
  <2> QED  BY <1>1, <2>1, BitsFacts, TopFacts DEF Address, Shape, Located
<1>3. direct_pointing[i] = IF i \in DOMAIN loc THEN loc[i] ELSE NULL
  BY <1>1, <1>2 DEF Content, DirectRight
<1>4. i \in DOMAIN loc => loc[i] # NULL
  <2>1. i \in DOMAIN loc => loc[i] \in Nat \X Nat
    BY <1>1 DEF Shape, Located
  <2> QED  BY <2>1, LpmAssumption
<1>5. 0 \in Levels /\ 2 * K \in Levels
  BY LevelFacts
<1>6. CASE i \in DOMAIN loc
  <2>1. get_poptrie(d) = Lookup(loc[i], 2 * K, d).iface
    BY <1>3, <1>4, <1>6 DEF get_poptrie
  <2> QED  BY <1>1, <1>5, <1>6, <2>1, LookupIs
<1>7. CASE i \notin DOMAIN loc
  <2>1. get_poptrie(d) = Lookup(Root, 0, d).iface
    BY <1>3, <1>7 DEF get_poptrie
  <2>2. Lookup(loc[Way(d, 0)], 0, d).iface = LongestMatch(d)
    BY <1>1, <1>2, <1>5, LookupIs
  <2> QED  BY <1>2, <2>1, <2>2
<1> QED  BY <1>6, <1>7

-----------------------------------------------------------------------------
(* The binary trie.                                                        *)

\* The node at which a prefix ends.
End(p) == Way(p.dest, p.mask)

\* The nodes of the trie are those on the ways to the prefixes put so far, and
\* the ones that match are the ends of these.
NodesAreWays ==
  \A n : n \in DOMAIN son <=> \E p \in inserted : \E k \in 1 .. p.mask : n = Way(p.dest, k)
MatchesAreEnds ==
  /\ \A p \in inserted : son[End(p)] = p.iface
  /\ \A n \in DOMAIN son : son[n] # NULL => \E p \in inserted : n = End(p)

IInv == /\ inserted \subseteq Table
        /\ BASE => NodesAreWays /\ MatchesAreEnds
        /\ ~BASE => CompressedInv

\* A set of depths has a greatest.
LEMMA MaxIsGreatest ==
  ASSUME NEW S, S \subseteq 1 .. W, S # {}
  PROVE  Max(S) \in S /\ \A y \in S : Max(S) >= y
<1>1. W \in Nat /\ S \subseteq 0 .. W
  BY LpmAssumption
<1>2. PICK x \in S : \A y \in S : x >= y
  BY <1>1, GreatestExists
<1> QED  BY <1>2 DEF Max

\* The invariant holds of empty tries.
LEMMA InitIInv == Init => IInv
<1> SUFFICES ASSUME Init PROVE IInv
  OBVIOUS
<1>1. inserted = {} /\ DOMAIN son = {}
  BY DEF Init
<1>2. CompressedInv
  BY InitCompressed
<1> QED  BY <1>1, <1>2 DEF IInv, NodesAreWays, MatchesAreEnds

\* An insertion adds the nodes on its way, and one match, at its end.
LEMMA PutBaseInv ==
  ASSUME IInv, NEW p \in Table, put_base(p)
  PROVE  IInv'
<1> DEFINE path == {Way(p.dest, k) : k \in 1 .. p.mask}
<1>1. /\ inserted \subseteq Table /\ NodesAreWays /\ MatchesAreEnds
      /\ p \notin inserted /\ inserted' = inserted \cup {p} /\ BASE'
      /\ son' = [n \in DOMAIN son \cup path |->
                   IF n = End(p) THEN p.iface ELSE IF n \in DOMAIN son THEN son[n] ELSE NULL]
  BY DEF IInv, put_base, End
<1>2. \A q \in Table : /\ q.mask \in 1 .. q.mask /\ q.mask \in Nat /\ q.iface \in Nat
                       /\ q.iface # NULL
  BY LpmAssumption
<1>3. End(p) \in path /\ DOMAIN son' = DOMAIN son \cup path
  BY <1>1, <1>2 DEF End
<1>4. NodesAreWays'
  <2> SUFFICES ASSUME NEW n
               PROVE  n \in DOMAIN son' <=> \E q \in inserted' : \E k \in 1 .. q.mask : n = Way(q.dest, k)
    BY DEF NodesAreWays
  <2>1. n \in DOMAIN son <=> \E q \in inserted : \E k \in 1 .. q.mask : n = Way(q.dest, k)
    BY <1>1 DEF NodesAreWays
  <2>2. n \in path <=> \E k \in 1 .. p.mask : n = Way(p.dest, k)
    OBVIOUS
  <2> QED  BY <1>1, <1>3, <2>1, <2>2
<1>5. \A q \in inserted' : son'[End(q)] = q.iface
  <2> TAKE q \in inserted'
  <2>1. CASE q = p
    BY <1>1, <1>3, <2>1
  <2>2. CASE q # p
    <3>1. q \in inserted /\ q \in Table
      BY <1>1, <2>2
    <3>2. End(q) # End(p)
      BY <2>2, <3>1, LpmAssumption DEF End
    <3>3. End(q) \in DOMAIN son
      BY <1>1, <1>2, <3>1 DEF NodesAreWays, End
    <3>4. son[End(q)] = q.iface
      BY <1>1, <3>1 DEF MatchesAreEnds
    <3> QED  BY <1>1, <3>2, <3>3, <3>4
  <2> QED  BY <2>1, <2>2
<1>6. \A n \in DOMAIN son' : son'[n] # NULL => \E q \in inserted' : n = End(q)
  <2> SUFFICES ASSUME NEW n \in DOMAIN son', son'[n] # NULL
               PROVE  \E q \in inserted' : n = End(q)
    OBVIOUS
  <2>1. CASE n = End(p)
    BY <1>1, <2>1
  <2>2. CASE n # End(p)
    <3>1. n \in DOMAIN son /\ son[n] # NULL
      BY <1>1, <2>2
    <3> QED  BY <1>1, <3>1 DEF MatchesAreEnds
  <2> QED  BY <2>1, <2>2
<1>7. MatchesAreEnds'
  BY <1>5, <1>6 DEF MatchesAreEnds, End
<1> QED  BY <1>1, <1>4, <1>7 DEF IInv

\* The compressed trie is filled without the binary one.
LEMMA PoptrieInv ==
  ASSUME IInv, [(\E p \in Table : PutBegin(p)) \/ PutFollow \/ PutGrow \/ PutLeaf]_vars
  PROVE  IInv'
<1>1. inserted' \subseteq Table /\ BASE' = BASE /\ (BASE => inserted' = inserted /\ son' = son)
  <2>1. CASE \E p \in Table : PutBegin(p)
    BY <2>1 DEF IInv, PutBegin
  <2>2. CASE PutFollow \/ PutGrow \/ PutLeaf \/ UNCHANGED vars
    BY <2>2 DEF IInv, PutFollow, PutGrow, PutLeaf, vars
  <2> QED  BY <2>1, <2>2
<1>2. CASE BASE
  BY <1>1, <1>2 DEF IInv, NodesAreWays, MatchesAreEnds, End
<1>3. CASE ~BASE
  <2>1. CompressedInv
    BY <1>3 DEF IInv
  <2>2. CASE \E p \in Table : PutBegin(p)
    BY <1>1, <1>3, <2>1, <2>2, BeginStep DEF IInv
  <2>3. CASE PutFollow
    BY <1>1, <1>3, <2>1, <2>3, FollowStep DEF IInv
  <2>4. CASE PutGrow
    BY <1>1, <1>3, <2>1, <2>4, GrowStep DEF IInv
  <2>5. CASE PutLeaf
    BY <1>1, <1>3, <2>1, <2>5, LeafStep DEF IInv
  <2>6. CASE UNCHANGED vars
    <3>1. UNCHANGED <<inserted, arrays, counter_internal, direct_pointing, put>>
      BY <2>6 DEF vars
    <3>2. PICK loc : Shape(arrays, loc) /\ Content(loc)
      BY <2>1 DEF CompressedInv
    <3>3. Done' = Done
      BY <3>1 DEF Done
    <3>4. Shape(arrays, loc)' /\ Content(loc)'
      BY <3>1, <3>2, <3>3 DEF Content, NodesStem, NodesThere, LeavesRight, DirectRight, PutRight
    <3>5. CompressedInv'
      BY <2>1, <3>1, <3>3, <3>4 DEF CompressedInv, InOrder, Counted
    <3> QED  BY <1>1, <1>3, <3>5 DEF IInv
  <2> QED  BY <2>2, <2>3, <2>4, <2>5, <2>6
<1> QED  BY <1>2, <1>3

\* The invariant holds always.
LEMMA Invariant == Spec => []IInv
<1>1. IInv /\ [Next]_vars => IInv'
  <2> SUFFICES ASSUME IInv, [Next]_vars PROVE IInv'
    OBVIOUS
  <2>1. CASE \E p \in Table : put_base(p)
    BY <2>1, PutBaseInv
  <2>2. CASE [(\E p \in Table : PutBegin(p)) \/ PutFollow \/ PutGrow \/ PutLeaf]_vars
    BY <2>2, PoptrieInv
  <2> QED  BY <2>1, <2>2 DEF Next
<1> QED  BY <1>1, InitIInv, PTL DEF Spec

-----------------------------------------------------------------------------
(* The match that is found.                                                *)

\* The walk for d comes to the ends of the prefixes that cover it, and to no others.
LEMMA MatchesAreCovers ==
  ASSUME IInv, BASE, NEW d, NEW k \in 1 .. W
  PROVE  k \in Depths(d) /\ son[Way(d, k)] # NULL
           <=> \E p \in inserted : Covers(p, d) /\ p.mask = k
<1>1. inserted \subseteq Table /\ NodesAreWays /\ MatchesAreEnds /\ W \in Nat
  BY LpmAssumption DEF IInv
<1>2. \A p \in inserted : p.mask \in 1 .. W /\ p.mask \in Nat /\ p.iface # NULL
  BY <1>1, LpmAssumption
<1>3. ASSUME k \in Depths(d), son[Way(d, k)] # NULL
      PROVE  \E p \in inserted : Covers(p, d) /\ p.mask = k
  <2>1. Way(d, k) \in DOMAIN son
    BY <1>1, <1>3 DEF Depths
  <2>2. PICK p \in inserted : Way(d, k) = End(p)
    BY <1>1, <1>3, <2>1 DEF MatchesAreEnds
  <2>3. k = p.mask
    BY <1>1, <1>2, <2>2, WayDepth DEF End
  <2> QED  BY <2>2, <2>3 DEF Covers, End
<1>4. ASSUME NEW p \in inserted, Covers(p, d), p.mask = k
      PROVE  k \in Depths(d) /\ son[Way(d, k)] # NULL
  <2>1. Way(d, k) = End(p)
    BY <1>4 DEF Covers, End
  <2>2. \A j \in 1 .. k : Way(d, j) = Way(p.dest, j)
    BY <1>1, <1>2, <1>4, <2>1, WayBefore DEF End
  <2>3. \A j \in 1 .. k : Way(d, j) \in DOMAIN son
    BY <1>1, <1>4, <2>2 DEF NodesAreWays
  <2>4. son[Way(d, k)] # NULL
    BY <1>1, <1>2, <2>1 DEF MatchesAreEnds
  <2> QED  BY <2>3, <2>4 DEF Depths
<1> QED  BY <1>3, <1>4

\* The deepest match on the way of an address is its longest prefix.
LEMMA IInvLongest == IInv => BaseIsLongestMatch
<1> SUFFICES ASSUME IInv, BASE, NEW d \in Address
             PROVE  get_base(d) = LongestMatch(d)
  BY DEF BaseIsLongestMatch
<1> DEFINE matches  == {k \in Depths(d) : son[Way(d, k)] # NULL}
           covering == {p \in inserted : Covers(p, d)}
<1>1. inserted \subseteq Table /\ matches \subseteq 1 .. W
  BY DEF IInv, Depths
<1>2. \A k : k \in matches <=> \E p \in covering : p.mask = k
  <2> TAKE k
  <2>1. \A p \in covering : p.mask \in 1 .. W
    BY <1>1, LpmAssumption
  <2>2. CASE k \in 1 .. W
    BY <2>2, MatchesAreCovers
  <2>3. CASE k \notin 1 .. W
    BY <1>1, <2>1, <2>3
  <2> QED  BY <2>2, <2>3
<1>3. /\ get_base(d) = IF matches = {} THEN 0 ELSE son[Way(d, Max(matches))]
      /\ LongestMatch(d) = IF covering = {} THEN 0
           ELSE (CHOOSE p \in covering : \A q \in covering : q.mask <= p.mask).iface
  BY DEF get_base, LongestMatch
<1>4. \A p \in covering : Way(d, p.mask) = End(p) /\ p \in inserted
  BY DEF Covers, End
<1> HIDE DEF matches, covering
<1>5. CASE covering = {}
  BY <1>2, <1>3, <1>5
<1>6. CASE covering # {}
  <2>1. matches # {}
    BY <1>2, <1>6
  <2>2. Max(matches) \in matches /\ \A k \in matches : Max(matches) >= k
    BY <1>1, <2>1, MaxIsGreatest
  <2>3. PICK p \in covering : p.mask = Max(matches)
    BY <1>2, <2>2
  <2>4. \A q \in covering : q.mask <= p.mask
    BY <1>1, <1>2, <2>2, <2>3
  <2>5. p \in inserted /\ Covers(p, d) /\ \A q \in inserted : Covers(q, d) => q.mask <= p.mask
    BY <2>4 DEF covering
  <2>6. LongestMatch(d) = p.iface
    BY <1>1, <2>5, LongestIs
  <2>7. get_base(d) = p.iface
    BY <1>3, <1>4, <2>1, <2>3 DEF IInv, MatchesAreEnds
  <2> QED  BY <2>6, <2>7
<1> QED  BY <1>5, <1>6

\* After every insertion the binary trie finds the longest prefix that covers the
\* address, in whatever order they were put (put_base, get_base).
THEOREM BaseLongestCorrect == Spec => []BaseIsLongestMatch
BY Invariant, IInvLongest, PTL

\* So does the compressed trie, when no insertion is under way and every prefix was put
\* after those it lies in (put_poptrie, renew_pointing, get_poptrie).
THEOREM PoptrieLongestCorrect == Spec => []PoptrieIsLongestMatch
<1>1. IInv => PoptrieIsLongestMatch
  BY CompressedLongest DEF IInv, PoptrieIsLongestMatch
<1> QED  BY <1>1, Invariant, PTL
=============================================================================
