--------------------------- MODULE SequenceFacts ---------------------------
(***************************************************************************)
(* Facts about sequences and their ranges and about largest naturals that  *)
(* several proofs need.                                                    *)
(***************************************************************************)
EXTENDS Integers, Sequences, FiniteSets, Functions, FiniteSetTheorems,
        WellFoundedInduction, TLAPS

\* Appending adds one element to the range and keeps the others in place.
LEMMA RangeOfAppend ==
  ASSUME NEW S, NEW q \in Seq(S), NEW x \in S
  PROVE  /\ Append(q, x) \in Seq(S)
         /\ Range(Append(q, x)) = Range(q) \cup {x}
         /\ Len(Append(q, x)) = Len(q) + 1
         /\ \A i \in 1..Len(q) : Append(q, x)[i] = q[i]
         /\ Append(q, x)[Len(q) + 1] = x
<1>1. /\ Append(q, x) \in Seq(S) /\ Len(Append(q, x)) = Len(q) + 1
      /\ \A i \in 1..Len(q) : Append(q, x)[i] = q[i]
      /\ Append(q, x)[Len(q) + 1] = x
      /\ DOMAIN Append(q, x) = 1..(Len(q) + 1) /\ DOMAIN q = 1..Len(q) /\ Len(q) \in Nat
  OBVIOUS
<1>2. Range(Append(q, x)) \subseteq Range(q) \cup {x}
  <2> SUFFICES ASSUME NEW i \in 1..(Len(q) + 1) PROVE Append(q, x)[i] \in Range(q) \cup {x}
    BY <1>1 DEF Range
  <2>1. CASE i \in 1..Len(q)
    BY <1>1, <2>1 DEF Range
  <2>2. CASE i = Len(q) + 1
    BY <1>1, <2>2
  <2> QED
    BY <2>1, <2>2, <1>1
<1>3. x \in Range(Append(q, x))
  BY <1>1 DEF Range
<1>4. ASSUME NEW i \in 1..Len(q) PROVE q[i] \in Range(Append(q, x))
  BY <1>1, <1>4 DEF Range
<1>5. Range(q) \subseteq Range(Append(q, x))
  BY <1>4, <1>1 DEF Range
<1> QED
  BY <1>1, <1>2, <1>3, <1>5

\* A sequence that repeats nothing is as long as its range is large.
LEMMA LengthOfRange ==
  ASSUME NEW S, NEW q \in Seq(S), \A i, j \in DOMAIN q : q[i] = q[j] => i = j
  PROVE  IsFiniteSet(Range(q)) /\ Cardinality(Range(q)) = Len(q)
<1>1. DOMAIN q = 1..Len(q) /\ Len(q) \in Nat
  OBVIOUS
<1>2. IsFiniteSet(1..Len(q)) /\ Cardinality(1..Len(q)) = Len(q)
  BY <1>1, FS_Interval
<1>3. q \in Bijection(1..Len(q), Range(q))
  BY <1>1 DEF Bijection, Injection, Surjection, IsInjective, Range
<1>4. ExistsBijection(1..Len(q), Range(q))
  BY <1>3 DEF ExistsBijection
<1> QED
  BY <1>2, <1>4, FS_Bijection

\* Without its i-th element a sequence has the others, in their order.
LEMMA RemoveAt ==
  ASSUME NEW S, NEW q \in Seq(S), NEW i \in 1..Len(q)
  PROVE  LET r == SubSeq(q, 1, i - 1) \o SubSeq(q, i + 1, Len(q))
         IN  /\ r \in Seq(S) /\ Len(r) = Len(q) - 1
             /\ \A j \in 1..Len(r) : r[j] = q[IF j < i THEN j ELSE j + 1]
             /\ Range(r) = {q[k] : k \in (1..Len(q)) \ {i}}
<1> DEFINE a == SubSeq(q, 1, i - 1)
           b == SubSeq(q, i + 1, Len(q))
           r == a \o b
<1>1. Len(q) \in Nat
  OBVIOUS
<1>2. a \in Seq(S) /\ Len(a) = i - 1 /\ \A j \in 1..(i - 1) : a[j] = q[j]
  <2>1. a \in Seq(S)
    OBVIOUS
  <2>2. Len(a) = i - 1 /\ \A j \in 1..(i - 1) : a[j] = q[j]
    BY <1>1
  <2> QED
    BY <2>1, <2>2
<1>3. b \in Seq(S) /\ Len(b) = Len(q) - i /\ \A j \in 1..(Len(q) - i) : b[j] = q[i + j]
  <2>1. b \in Seq(S)
    BY <1>1
  <2>2. Len(b) = Len(q) - i /\ \A j \in 1..(Len(q) - i) : b[j] = q[i + j]
    BY <1>1
  <2> QED
    BY <2>1, <2>2
<1> HIDE DEF a, b
<1>4. r \in Seq(S)
  BY <1>2, <1>3
<1>5. Len(r) = Len(q) - 1
  <2>1. a \in Seq(S) /\ b \in Seq(S)
    BY <1>2, <1>3
  <2>2. Len(r) = Len(a) + Len(b)
    BY ONLY <2>1
  <2> QED
    BY <1>1, <1>2, <1>3, <2>2
<1>6. ASSUME NEW j \in 1..Len(r) PROVE r[j] = q[IF j < i THEN j ELSE j + 1]
  <2>1. CASE j < i
    BY <2>1, <1>1, <1>2, <1>3, <1>5
  <2>2. CASE ~(j < i)
    <3>1. r[j] = b[j - (i - 1)]
      BY <2>2, <1>1, <1>2, <1>3, <1>5
    <3>2. j - (i - 1) \in 1..(Len(q) - i)
      BY <2>2, <1>1, <1>5
    <3>3. b[j - (i - 1)] = q[i + (j - (i - 1))] /\ i + (j - (i - 1)) = j + 1
      BY <1>1, <1>3, <3>2, <1>5
    <3> QED
      BY <2>2, <3>1, <3>3
  <2> QED
    BY <2>1, <2>2
<1>7. Range(r) = {q[k] : k \in (1..Len(q)) \ {i}}
  <2>1. DOMAIN r = 1..Len(r)
    BY <1>4
  <2> HIDE DEF r
  <2>2. ASSUME NEW j \in 1..Len(r) PROVE r[j] \in {q[k] : k \in (1..Len(q)) \ {i}}
    <3>1. (IF j < i THEN j ELSE j + 1) \in (1..Len(q)) \ {i}
      BY <1>1, <1>5
    <3> QED
      BY <1>6, <3>1
  <2>3. ASSUME NEW k \in (1..Len(q)) \ {i} PROVE q[k] \in Range(r)
    <3>1. CASE k < i
      BY <1>1, <1>5, <1>6, <2>1, <3>1 DEF Range
    <3>2. CASE ~(k < i)
      <4>1. k - 1 \in 1..Len(r) /\ ~(k - 1 < i) /\ (k - 1) + 1 = k
        BY <1>1, <1>5, <3>2
      <4>2. r[k - 1] = q[k]
        BY <1>6, <4>1
      <4> QED
        BY <2>1, <4>1, <4>2 DEF Range
    <3> QED
      BY <3>1, <3>2
  <2>4. Range(r) = {r[j] : j \in 1..Len(r)}
    BY <2>1 DEF Range
  <2> QED
    BY <2>2, <2>3, <2>4
<1> QED
  BY <1>4, <1>5, <1>6, <1>7 DEF a, b

\* A set of naturals that is not empty has a least one.
LEMMA LeastNatural ==
  ASSUME NEW T \in SUBSET Nat, T # {}
  PROVE  \E x \in T : \A y \in T : x <= y
<1> DEFINE R == {ss \in Nat \X Nat : ss[1] < ss[2]}
<1>1. IsWellFoundedOn(R, Nat)
  BY NatLessThanWellFounded, Zenon DEF OpToRel
<1>2. ASSUME NEW x \in Nat, NEW y \in Nat, <<y, x>> \notin R PROVE x <= y
  <2>1. ~(y < x)
    BY <1>2
  <2> QED
    BY <2>1
<1> HIDE DEF R
<1>3. PICK x \in T : \A y \in T : <<y, x>> \notin R
  BY <1>1, WFMin
<1> QED
  BY <1>2, <1>3

\* Finitely many naturals are bounded.
LEMMA BoundedNaturals ==
  ASSUME NEW n \in Nat, NEW f \in [1..n -> Nat]
  PROVE  \E b \in Nat : \A i \in 1..n : f[i] <= b
<1> DEFINE Bound(m) == \E b \in Nat : \A i \in 1..m : f[i] <= b
           T == {m \in 0..n : ~Bound(m)}
<1>1. SUFFICES ASSUME T # {} PROVE FALSE
  <2>1. n \in 0..n
    OBVIOUS
  <2> QED
    BY <2>1
<1>2. T \in SUBSET Nat
  OBVIOUS
<1>3. PICK m \in T : \A k \in T : m <= k
  BY <1>1, <1>2, LeastNatural
<1>4. m # 0
  <2>1. \A i \in 1..0 : f[i] <= 0
    OBVIOUS
  <2>2. Bound(0)
    BY <2>1
  <2> QED
    BY <2>2
<1>5. m - 1 \in 0..n /\ m - 1 \notin T
  <2>1. m \in Nat /\ m - 1 \in 0..n /\ ~(m <= m - 1)
    BY <1>4
  <2> QED
    BY <1>3, <2>1
<1>6. PICK b \in Nat : \A i \in 1..(m - 1) : f[i] <= b
  BY <1>5
<1>7. f[m] \in Nat /\ m \in 1..n
  BY <1>4
<1>8. PICK c \in Nat : b <= c /\ f[m] <= c
  <2>1. b <= b + f[m] /\ f[m] <= b + f[m] /\ b + f[m] \in Nat
    BY <1>7
  <2> QED
    BY <2>1
<1>9. ASSUME NEW i \in 1..m PROVE f[i] <= c
  <2>1. CASE i = m
    BY <1>8, <2>1
  <2>2. CASE i # m
    <3>1. i \in 1..(m - 1) /\ f[i] \in Nat
      BY <1>7, <2>2
    <3> QED
      BY <1>6, <1>8, <3>1
  <2> QED
    BY <2>1, <2>2
<1> QED
  BY <1>9

\* And so have a largest one.
LEMMA LargestNatural ==
  ASSUME NEW T \in SUBSET Nat, T # {}, NEW b \in Nat, \A x \in T : x <= b
  PROVE  \E x \in T : \A y \in T : y <= x
<1> DEFINE B == {c \in Nat : \A x \in T : x <= c}
<1>1. B \in SUBSET Nat /\ B # {}
  OBVIOUS
<1>2. PICK c \in B : \A d \in B : c <= d
  BY <1>1, LeastNatural
<1>3. c \in T
  <2>1. SUFFICES ASSUME c \notin T PROVE FALSE
    OBVIOUS
  <2>2. \A x \in T : x < c
    BY <2>1
  <2>3. c # 0
    <3>1. PICK x \in T : x < c
      BY <2>2
    <3> QED
      BY <3>1
  <2>4. c - 1 \in Nat /\ \A x \in T : x <= c - 1
    BY <2>2, <2>3
  <2>5. c <= c - 1
    BY <1>2, <2>4
  <2> QED
    BY <2>4, <2>5
<1> QED
  BY <1>3
=============================================================================
