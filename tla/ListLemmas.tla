----------------------------- MODULE ListLemmas -----------------------------
(***************************************************************************)
(* Facts about numbers and sequences that the proofs of several components *)
(* rest on: the sizes of finite sets that are mapped to each other; the    *)
(* least element of a set of numbers and what it gives, induction over a   *)
(* set; and what putting an element into a sequence or taking one out      *)
(* makes of it.                                                            *)
(***************************************************************************)
EXTENDS Integers, Sequences, FiniteSets, FiniteSetTheorems, WellFoundedInduction, TLAPS

(* A finite set has at least as many elements as what it is mapped onto. *)
LEMMA OntoSize ==
    ASSUME NEW S, NEW T, IsFiniteSet(S), NEW f \in [S -> T], \A y \in T : \E x \in S : f[x] = y
    PROVE  IsFiniteSet(T) /\ Cardinality(T) <= Cardinality(S)
<1>1. f \in Surjection(S, T)
  BY DEF Surjection
<1>2. QED
  BY <1>1, FS_Surjection

(* A set with as many elements as U has room beside a part of it that is   *)
(* numbered by U without u.                                                *)
LEMMA RoomLeft ==
    ASSUME NEW N, NEW U, NEW S, S \subseteq N, NEW u \in U, NEW f \in [S -> U \ {u}],
           IsFiniteSet(N), IsFiniteSet(U), Cardinality(N) >= Cardinality(U),
           \A x, y \in S : f[x] = f[y] => x = y
    PROVE  \E n \in N : n \notin S
<1>1. f \in Injection(S, U \ {u})
  BY DEF Injection, IsInjective
<1>2. IsFiniteSet(U \ {u}) /\ Cardinality(U \ {u}) = Cardinality(U) - 1
  BY FS_RemoveElement
<1>3. IsFiniteSet(S) /\ Cardinality(S) <= Cardinality(U \ {u})
  BY <1>1, <1>2, FS_Injection
<1>4. Cardinality(S) \in Nat /\ Cardinality(U) \in Nat /\ Cardinality(N) \in Nat
  BY <1>3, FS_CardinalityType
<1>5. S # N
  BY <1>2, <1>3, <1>4
<1>6. QED
  BY <1>5

(* A sequence without repetitions has as many places as elements. *)
LEMMA DistinctSize ==
    ASSUME NEW S, NEW s \in Seq(S), \A i, k \in 1 .. Len(s) : s[i] = s[k] => i = k
    PROVE  Cardinality({s[i] : i \in 1 .. Len(s)}) = Len(s)
<1> DEFINE T == {s[i] : i \in 1 .. Len(s)}
           f == [i \in 1 .. Len(s) |-> s[i]]
<1>1. f \in Bijection(1 .. Len(s), T)
  BY DEF Bijection, Injection, Surjection, IsInjective
<1>2. Len(s) \in Nat /\ IsFiniteSet(1 .. Len(s)) /\ Cardinality(1 .. Len(s)) = Len(s)
  BY FS_Interval
<1> HIDE DEF T, f
<1>3. Cardinality(T) = Cardinality(1 .. Len(s))
  <2>1. ExistsBijection(1 .. Len(s), T)
    BY <1>1 DEF ExistsBijection
  <2>2. QED
    BY <1>2, <2>1, FS_Bijection
<1>4. QED
  BY <1>2, <1>3 DEF T

(* So it is no longer than a set that has them. *)
LEMMA DistinctLength ==
    ASSUME NEW S, IsFiniteSet(S), NEW s \in Seq(S), \A i, k \in 1 .. Len(s) : s[i] = s[k] => i = k
    PROVE  Len(s) <= Cardinality(S)
<1>1. {s[i] : i \in 1 .. Len(s)} \subseteq S
  OBVIOUS
<1>2. Cardinality({s[i] : i \in 1 .. Len(s)}) <= Cardinality(S)
  BY <1>1, FS_Subset
<1>3. QED
  BY <1>2, DistinctSize

(* Less-than as a set of pairs. *)
LEMMA LessThan == OpToRel(<, Nat) = {ss \in Nat \X Nat : ss[1] < ss[2]}
BY Zenon DEF OpToRel

(* A set of natural numbers that is not empty has a least element. *)
LEMMA LeastElement ==
    ASSUME NEW S, S \subseteq Nat, S # {}
    PROVE  \E n \in S : \A m \in S : n <= m
<1> DEFINE R == {ss \in Nat \X Nat : ss[1] < ss[2]}
<1>1. IsWellFoundedOn(R, Nat)
  BY NatLessThanWellFounded, LessThan, Zenon
<1>2. PICK x \in S : \A y \in S : ~ (<<y, x>> \in R)
  <2> HIDE DEF R
  <2> QED
    BY <1>1, WFMin
<1>3. ASSUME NEW y \in S PROVE x <= y
  <2>1. <<y, x>> \notin R
    BY <1>2
  <2>2. <<y, x>> \in Nat \X Nat
    OBVIOUS
  <2>3. ~(y < x)
    BY <2>1, <2>2
  <2>4. QED
    BY <2>3
<1>4. QED
  BY <1>3

(* A set that has 0 and with a number the next one has all of them. *)
LEMMA SetInduction ==
    ASSUME NEW S, 0 \in S, \A n \in Nat : n \in S => n + 1 \in S
    PROVE  \A n \in Nat : n \in S
<1> SUFFICES ASSUME Nat \ S # {} PROVE FALSE
  OBVIOUS
<1>1. PICK n \in Nat \ S : \A m \in Nat \ S : n <= m
  BY LeastElement
<1>2. n - 1 \in Nat
  BY <1>1
<1>3. n - 1 \in S
  BY <1>1, <1>2
<1>4. (n - 1) + 1 \in S
  BY <1>2, <1>3
<1>5. QED
  BY <1>1, <1>4

(* The first place of a sequence where something holds, or its end. *)
LEMMA FirstPlace ==
    ASSUME NEW n \in Nat, NEW P
    PROVE  \E i \in 1 .. n + 1 : (i <= n => i \in P) /\ \A k \in 1 .. i - 1 : k \notin P
<1> DEFINE S == {i \in 1 .. n + 1 : i = n + 1 \/ i \in P}
<1>1. S \subseteq Nat /\ n + 1 \in S
  OBVIOUS
<1>2. PICK i \in S : \A m \in S : i <= m
  BY <1>1, LeastElement
<1>3. QED
  BY <1>2

(* Order survives an insertion before the first that is not smaller. *)
LEMMA InsertKeepsOrder ==
    ASSUME NEW n \in Nat, NEW f \in [1 .. n -> Nat], NEW g \in [1 .. n + 1 -> Nat],
           NEW p \in 1 .. n + 1, NEW t \in Nat,
           \A i, k \in 1 .. n : i < k => f[i] <= f[k],
           p <= n => f[p] >= t, \A k \in 1 .. p - 1 : f[k] < t,
           \A k \in 1 .. n + 1 : g[k] = IF k < p THEN f[k] ELSE IF k = p THEN t ELSE f[k - 1]
    PROVE  \A i, k \in 1 .. n + 1 : i < k => g[i] <= g[k]
<1> SUFFICES ASSUME NEW i \in 1 .. n + 1, NEW k \in 1 .. n + 1, i < k
             PROVE  g[i] <= g[k]
  OBVIOUS
<1>1. ASSUME NEW m \in 1 .. n, m >= p PROVE f[m] >= t
  <2>1. p \in 1 .. n /\ f[p] >= t /\ f[p] \in Nat /\ f[m] \in Nat /\ (p < m \/ p = m)
    BY <1>1
  <2>2. QED
    BY <2>1
<1>2. CASE k < p
  BY <1>2
<1>3. CASE k = p
  BY <1>3
<1>4. CASE k > p
  <2>1. k - 1 \in 1 .. n /\ k - 1 >= p /\ g[k] = f[k - 1] /\ f[k - 1] >= t
    BY <1>1, <1>4
  <2>2. CASE i < p
    <3>1. i \in 1 .. p - 1 /\ g[i] = f[i] /\ f[i] < t /\ f[i] \in Nat /\ f[k - 1] \in Nat
      BY <2>1, <2>2
    <3>2. QED
      BY <2>1, <3>1
  <2>3. CASE i = p
    BY <2>1, <2>3
  <2>4. CASE i > p
    <3>1. i - 1 \in 1 .. n /\ i - 1 < k - 1 /\ g[i] = f[i - 1]
      BY <2>1, <2>4
    <3>2. QED
      BY <2>1, <3>1
  <2>5. QED
    BY <2>2, <2>3, <2>4
<1>5. QED
  BY <1>2, <1>3, <1>4

(* Order survives a removal. *)
LEMMA RemoveKeepsOrder ==
    ASSUME NEW n \in Nat, NEW f \in [1 .. n -> Nat], NEW g, NEW p \in 1 .. n,
           \A i, k \in 1 .. n : i < k => f[i] <= f[k],
           \A k \in 1 .. n - 1 : g[k] = IF k < p THEN f[k] ELSE f[k + 1]
    PROVE  \A i, k \in 1 .. n - 1 : i < k => g[i] <= g[k]
<1> SUFFICES ASSUME NEW i \in 1 .. n - 1, NEW k \in 1 .. n - 1, i < k
             PROVE  g[i] <= g[k]
  OBVIOUS
<1>1. CASE k < p
  BY <1>1
<1>2. CASE k >= p
  <2>1. k + 1 \in 1 .. n /\ i + 1 \in 1 .. n /\ i \in 1 .. n /\ g[k] = f[k + 1]
    BY <1>2
  <2>2. QED
    BY <2>1
<1>3. QED
  BY <1>1, <1>2

-----------------------------------------------------------------------------
LOCAL INSTANCE SequencesExt   \* InsertAt, RemoveAt, ToSet

(* No element is in a sequence twice. *)
Distinct(q) == \A i, k \in 1 .. Len(q) : q[i] = q[k] => i = k

(* What is in a sequence is at one of its places. *)
LEMMA ToSetPlaces ==
    ASSUME NEW S, NEW q \in Seq(S)
    PROVE  \A x : x \in ToSet(q) <=> \E k \in 1 .. Len(q) : x = q[k]
BY DEF ToSet

(* The elements of a concatenation. *)
LEMMA ConcatElements ==
    ASSUME NEW S, NEW a \in Seq(S), NEW b \in Seq(S)
    PROVE  /\ a \o b \in Seq(S)
           /\ Len(a \o b) = Len(a) + Len(b)
           /\ \A k \in 1 .. Len(a) + Len(b) :
                (a \o b)[k] = IF k <= Len(a) THEN a[k] ELSE b[k - Len(a)]
OBVIOUS

(* InsertAt moves what comes at and after the place by one. *)
LEMMA InsertAtElements ==
    ASSUME NEW S, NEW q \in Seq(S), NEW i \in 1 .. Len(q) + 1, NEW e \in S
    PROVE  /\ InsertAt(q, i, e) \in Seq(S)
           /\ Len(InsertAt(q, i, e)) = Len(q) + 1
           /\ \A k \in 1 .. Len(q) + 1 :
                InsertAt(q, i, e)[k] = IF k < i THEN q[k] ELSE IF k = i THEN e ELSE q[k - 1]
<1> DEFINE a == SubSeq(q, 1, i - 1)
           b == SubSeq(q, i, Len(q))
<1>1. a \in Seq(S) /\ Len(a) = i - 1 /\ \A k \in 1 .. i - 1 : a[k] = q[k]
  OBVIOUS
<1>2. b \in Seq(S) /\ Len(b) = Len(q) - i + 1 /\ \A k \in 1 .. Len(q) - i + 1 : b[k] = q[k + i - 1]
  OBVIOUS
<1>3. InsertAt(q, i, e) = (a \o <<e>>) \o b
  BY DEF InsertAt
<1> HIDE DEF a, b
<1> DEFINE c == a \o <<e>>
<1>4. c \in Seq(S) /\ Len(c) = i /\ \A k \in 1 .. i : c[k] = IF k < i THEN q[k] ELSE e
  BY <1>1
<1>5. InsertAt(q, i, e) = c \o b
  BY <1>3
<1> HIDE DEF c
<1>6. ASSUME NEW k \in 1 .. Len(q) + 1
      PROVE  (c \o b)[k] = IF k < i THEN q[k] ELSE IF k = i THEN e ELSE q[k - 1]
  <2>1. (c \o b)[k] = IF k <= i THEN c[k] ELSE b[k - i]
    BY <1>2, <1>4, ConcatElements
  <2>2. k > i => b[k - i] = q[k - 1]
    BY <1>2
  <2>3. QED
    BY <1>4, <2>1, <2>2
<1>7. c \o b \in Seq(S) /\ Len(c \o b) = Len(q) + 1
  <2>1. b \in Seq(S) /\ c \in Seq(S)
    BY <1>2, <1>4, Zenon
  <2>2. c \o b \in Seq(S) /\ Len(c \o b) = Len(c) + Len(b)
    BY <2>1, ConcatElements
  <2>3. Len(c) = i /\ Len(b) = Len(q) - i + 1
    BY <1>2, <1>4, Zenon
  <2>4. QED
    BY <2>2, <2>3
<1>8. QED
  BY <1>5, <1>6, <1>7

(* RemoveAt closes the gap. *)
LEMMA RemoveAtElements ==
    ASSUME NEW S, NEW q \in Seq(S), NEW i \in 1 .. Len(q)
    PROVE  /\ RemoveAt(q, i) \in Seq(S)
           /\ Len(RemoveAt(q, i)) = Len(q) - 1
           /\ \A k \in 1 .. Len(q) - 1 :
                RemoveAt(q, i)[k] = IF k < i THEN q[k] ELSE q[k + 1]
<1> DEFINE a == SubSeq(q, 1, i - 1)
           b == SubSeq(q, i + 1, Len(q))
<1>1. a \in Seq(S) /\ Len(a) = i - 1 /\ \A k \in 1 .. i - 1 : a[k] = q[k]
  OBVIOUS
<1>2. b \in Seq(S) /\ Len(b) = Len(q) - i /\ \A k \in 1 .. Len(q) - i : b[k] = q[k + i]
  OBVIOUS
<1>3. RemoveAt(q, i) = a \o b
  BY DEF RemoveAt
<1> HIDE DEF a, b
<1>4. ASSUME NEW k \in 1 .. Len(q) - 1
      PROVE  (a \o b)[k] = IF k < i THEN q[k] ELSE q[k + 1]
  <2>1. (a \o b)[k] = IF k <= i - 1 THEN a[k] ELSE b[k - (i - 1)]
    BY <1>1, <1>2, ConcatElements
  <2>2. k >= i => b[k - (i - 1)] = q[k + 1]
    BY <1>2
  <2>3. QED
    BY <1>1, <2>1, <2>2
<1>5. a \o b \in Seq(S) /\ Len(a \o b) = Len(q) - 1
  BY <1>1, <1>2, ConcatElements
<1>6. QED
  BY <1>3, <1>4, <1>5

(* Tail drops the first element and moves the others up. *)
LEMMA TailElements ==
    ASSUME NEW S, NEW q \in Seq(S), q # <<>>
    PROVE  /\ Head(q) = q[1] /\ Head(q) \in S /\ Tail(q) \in Seq(S)
           /\ Len(q) >= 1 /\ Len(Tail(q)) = Len(q) - 1
           /\ \A k \in 1 .. Len(q) - 1 : Tail(q)[k] = q[k + 1]
OBVIOUS

(* The members of a sequence after an insertion. *)
LEMMA InsertAtMembers ==
    ASSUME NEW S, NEW q \in Seq(S), NEW i \in 1 .. Len(q) + 1, NEW e \in S
    PROVE  /\ ToSet(InsertAt(q, i, e)) = ToSet(q) \cup {e}
           /\ Distinct(q) /\ e \notin ToSet(q) => Distinct(InsertAt(q, i, e))
<1> DEFINE r == InsertAt(q, i, e)
<1>1. /\ r \in Seq(S) /\ Len(r) = Len(q) + 1
      /\ \A k \in 1 .. Len(q) + 1 : r[k] = IF k < i THEN q[k] ELSE IF k = i THEN e ELSE q[k - 1]
  BY InsertAtElements
<1> HIDE DEF r
<1>2. ASSUME NEW x \in ToSet(r) PROVE x \in ToSet(q) \cup {e}
  <2>1. PICK k \in 1 .. Len(q) + 1 : x = r[k]
    BY <1>1, ToSetPlaces
  <2>2. QED
    BY <1>1, <2>1, ToSetPlaces
<1>3. ASSUME NEW x \in ToSet(q) PROVE x \in ToSet(r)
  <2>1. PICK k \in 1 .. Len(q) : x = q[k]
    BY ToSetPlaces
  <2>2. x = r[IF k < i THEN k ELSE k + 1] /\ (IF k < i THEN k ELSE k + 1) \in 1 .. Len(r)
    BY <1>1, <2>1
  <2>3. QED
    BY <1>1, <2>2, ToSetPlaces
<1>4. e \in ToSet(r)
  BY <1>1, ToSetPlaces
<1>5. ASSUME Distinct(q), e \notin ToSet(q) PROVE Distinct(r)
  <2>1. \A k \in 1 .. Len(q) : q[k] # e
    BY <1>5, ToSetPlaces
  <2>2. QED
    BY <1>1, <1>5, <2>1 DEF Distinct
<1>6. QED
  BY <1>2, <1>3, <1>4, <1>5 DEF r

(* The members of a sequence of distinct elements after a removal. *)
LEMMA RemoveAtMembers ==
    ASSUME NEW S, NEW q \in Seq(S), NEW i \in 1 .. Len(q), Distinct(q)
    PROVE  ToSet(RemoveAt(q, i)) = ToSet(q) \ {q[i]} /\ Distinct(RemoveAt(q, i))
<1> DEFINE r == RemoveAt(q, i)
<1>1. /\ r \in Seq(S) /\ Len(r) = Len(q) - 1
      /\ \A k \in 1 .. Len(q) - 1 : r[k] = IF k < i THEN q[k] ELSE q[k + 1]
  BY RemoveAtElements
<1> HIDE DEF r
<1>2. ASSUME NEW x \in ToSet(r) PROVE x \in ToSet(q) /\ x # q[i]
  <2>1. PICK k \in 1 .. Len(q) - 1 : x = r[k]
    BY <1>1, ToSetPlaces
  <2>2. PICK m \in 1 .. Len(q) : x = q[m] /\ m # i
    BY <1>1, <2>1
  <2>3. QED
    BY <2>2, ToSetPlaces DEF Distinct
<1>3. ASSUME NEW x \in ToSet(q), x # q[i] PROVE x \in ToSet(r)
  <2>1. PICK k \in 1 .. Len(q) : x = q[k] /\ k # i
    BY <1>3, ToSetPlaces
  <2>2. x = r[IF k < i THEN k ELSE k - 1] /\ (IF k < i THEN k ELSE k - 1) \in 1 .. Len(r)
    BY <1>1, <2>1
  <2>3. QED
    BY <1>1, <2>2, ToSetPlaces
<1>4. Distinct(r)
  <2> SUFFICES ASSUME NEW m \in 1 .. Len(q) - 1, NEW k \in 1 .. Len(q) - 1, r[m] = r[k]
               PROVE  m = k
    BY <1>1 DEF Distinct
  <2>1. q[IF m < i THEN m ELSE m + 1] = q[IF k < i THEN k ELSE k + 1]
    BY <1>1
  <2>2. (IF m < i THEN m ELSE m + 1) = (IF k < i THEN k ELSE k + 1)
    BY <2>1 DEF Distinct
  <2>3. QED
    BY <2>2
<1>5. QED
  BY <1>2, <1>3, <1>4 DEF r

(* The same for the first element. *)
LEMMA TailMembers ==
    ASSUME NEW S, NEW q \in Seq(S), q # <<>>, Distinct(q)
    PROVE  ToSet(Tail(q)) = ToSet(q) \ {Head(q)} /\ Distinct(Tail(q))
<1> DEFINE r == Tail(q)
<1>1. /\ r \in Seq(S) /\ Len(r) = Len(q) - 1 /\ Len(q) >= 1 /\ Head(q) = q[1]
      /\ \A k \in 1 .. Len(q) - 1 : r[k] = q[k + 1]
  BY TailElements
<1> HIDE DEF r
<1>2. ASSUME NEW x \in ToSet(r) PROVE x \in ToSet(q) /\ x # q[1]
  <2>1. PICK k \in 1 .. Len(q) - 1 : x = r[k]
    BY <1>1, ToSetPlaces
  <2>2. PICK m \in 1 .. Len(q) : x = q[m] /\ m # 1
    BY <1>1, <2>1
  <2>3. QED
    BY <2>2, ToSetPlaces DEF Distinct
<1>3. ASSUME NEW x \in ToSet(q), x # q[1] PROVE x \in ToSet(r)
  <2>1. PICK k \in 1 .. Len(q) : x = q[k] /\ k # 1
    BY <1>3, ToSetPlaces
  <2>2. x = r[k - 1] /\ k - 1 \in 1 .. Len(r)
    BY <1>1, <2>1
  <2>3. QED
    BY <1>1, <2>2, ToSetPlaces
<1>4. Distinct(r)
  BY <1>1 DEF Distinct
<1>5. QED
  BY <1>1, <1>2, <1>3, <1>4 DEF r

(* The members of a sequence with a new head. *)
LEMMA ConsMembers ==
    ASSUME NEW S, NEW q \in Seq(S), NEW e \in S
    PROVE  /\ <<e>> \o q \in Seq(S) /\ ToSet(<<e>> \o q) = ToSet(q) \cup {e}
           /\ Distinct(q) /\ e \notin ToSet(q) => Distinct(<<e>> \o q)
<1> DEFINE r == <<e>> \o q
<1>1. /\ r \in Seq(S) /\ Len(r) = Len(q) + 1 /\ r[1] = e
      /\ \A k \in 1 .. Len(q) : r[k + 1] = q[k]
  OBVIOUS
<1> HIDE DEF r
<1>2. \A k \in 1 .. Len(r) : k = 1 \/ (k - 1 \in 1 .. Len(q) /\ r[k] = q[k - 1])
  <2>1. ASSUME NEW k \in 1 .. Len(r), k # 1 PROVE k - 1 \in 1 .. Len(q) /\ r[k] = q[k - 1]
    <3>1. k - 1 \in 1 .. Len(q) /\ (k - 1) + 1 = k
      BY <1>1, <2>1
    <3>2. QED
      BY <1>1, <3>1
  <2>2. QED
    BY <2>1
<1>3. \A x : x \in ToSet(r) <=> \E k \in 1 .. Len(r) : x = r[k]
  BY <1>1, ToSetPlaces
<1>4. \A x : x \in ToSet(q) <=> \E k \in 1 .. Len(q) : x = q[k]
  BY ToSetPlaces
<1>5. \A k \in 1 .. Len(q) : k + 1 \in 1 .. Len(r)
  BY <1>1
<1>6. 1 \in 1 .. Len(r)
  BY <1>1
<1>7. ToSet(r) = ToSet(q) \cup {e}
  <2>1. ASSUME NEW x \in ToSet(r) PROVE x \in ToSet(q) \cup {e}
    BY <1>1, <1>2, <1>3, <1>4
  <2>2. ASSUME NEW x \in ToSet(q) PROVE x \in ToSet(r)
    BY <1>1, <1>3, <1>4, <1>5
  <2>3. e \in ToSet(r)
    BY <1>1, <1>3, <1>6
  <2>4. QED
    BY <2>1, <2>2, <2>3
<1>8. ASSUME Distinct(q), e \notin ToSet(q), NEW i \in 1 .. Len(r), NEW k \in 1 .. Len(r), r[i] = r[k]
      PROVE  i = k
  <2>1. \A m \in 1 .. Len(q) : q[m] # e
    BY <1>4, <1>8
  <2>2. i = 1 <=> k = 1
    BY <1>1, <1>2, <1>8, <2>1
  <2>3. CASE i # 1
    <3>1. i - 1 \in 1 .. Len(q) /\ k - 1 \in 1 .. Len(q) /\ q[i - 1] = q[k - 1]
      BY <1>2, <1>8, <2>2, <2>3
    <3>2. i - 1 = k - 1
      BY <1>8, <3>1 DEF Distinct
    <3>3. QED
      BY <3>2
  <2>4. QED
    BY <2>2, <2>3
<1>9. QED
  BY <1>1, <1>7, <1>8 DEF r, Distinct

=============================================================================
