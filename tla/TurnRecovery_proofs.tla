--------------------------- MODULE TurnRecovery_proofs ---------------------------
(***************************************************************************)
(* Theorems of TurnRecovery, for any number of inputs, tool calls and       *)
(* interruptions: what a session's files keep of its inputs, of the rows of *)
(* its turns and of the last checkpoint, and which continuations run.       *)
(*                                                                          *)
(* The operators on sequences and sessions come first.  Three invariants    *)
(* follow: TypeInv, KeepInv over it, and WishInv.                           *)
(***************************************************************************)
EXTENDS TurnRecovery, FiniteSetTheorems, SequenceTheorems, TLAPS

-----------------------------------------------------------------------------
\* Positions of a sequence

Enumerates(f, c, K) ==
  /\ \A k \in 1..c : f[k] = CHOOSE i \in K : Cardinality({j \in K : j <= i}) = k
  /\ \A k, l \in 1..c : f[k] = f[l] => k = l
  /\ \A i \in K : \E k \in 1..c : f[k] = i

\* The positions in K are enumerated in order.
LEMMA Positions ==
  ASSUME NEW n \in Nat, NEW K \in SUBSET (1..n)
  PROVE  /\ Cardinality(K) \in Nat
         /\ \E f \in [1..Cardinality(K) -> K] : Enumerates(f, Cardinality(K), K)
<1> DEFINE Upto(i) == {j \in K : j <= i}
           rank == [i \in K |-> Cardinality(Upto(i))]
           c == Cardinality(K)
           f == [k \in 1..c |-> CHOOSE i \in K : Cardinality(Upto(i)) = k]
<1>1. IsFiniteSet(K) /\ c \in Nat
  <2>1. IsFiniteSet(1..n)
    BY FS_Interval
  <2>2. IsFiniteSet(K)
    BY <2>1, FS_Subset
  <2> QED
    BY <2>2, FS_CardinalityType
<1>2. ASSUME NEW i \in K
      PROVE  IsFiniteSet(Upto(i)) /\ rank[i] \in 1..c
  <2>1. Upto(i) \in SUBSET K /\ i \in Upto(i)
    OBVIOUS
  <2>2. IsFiniteSet(Upto(i)) /\ Cardinality(Upto(i)) <= c
    BY <1>1, <2>1, FS_Subset
  <2>3. Cardinality(Upto(i)) \in Nat \ {0}
    BY <2>1, <2>2, FS_CardinalityType, FS_EmptySet
  <2> HIDE DEF Upto, c
  <2> QED
    BY <1>1, <2>2, <2>3
<1>3. ASSUME NEW i \in K, NEW j \in K, i < j
      PROVE  rank[i] # rank[j]
  <2>0. i \in Int /\ j \in Int /\ \A k \in K : k \in Int
    OBVIOUS
  <2>1. Upto(i) \in SUBSET Upto(j) /\ j \in Upto(j) \ Upto(i)
    <3>1. j <= j /\ ~(j <= i)
      BY <1>3, <2>0
    <3>2. \A k \in K : k <= i => k <= j
      BY <1>3, <2>0
    <3> QED
      BY <3>1, <3>2
  <2>2. Cardinality(Upto(i)) # Cardinality(Upto(j))
    BY <1>2, <2>1, FS_Subset
  <2> QED
    BY <2>2
<1>4. rank \in Injection(K, 1..c)
  <2>1. rank \in [K -> 1..c]
    BY <1>2
  <2>2. \A i, j \in K : rank[i] = rank[j] => i = j
    BY <1>3
  <2> QED
    BY <2>1, <2>2 DEF Injection, IsInjective
<1>5. rank \in Surjection(K, 1..c)
  <2>1. IsFiniteSet(1..c) /\ Cardinality(1..c) = c
    BY <1>1, FS_Interval
  <2> QED
    BY <1>4, <2>1, FS_Injection
<1>6. ASSUME NEW k \in 1..c
      PROVE  f[k] \in K /\ rank[f[k]] = k
  <2>1. PICK i \in K : rank[i] = k
    BY <1>5 DEF Surjection
  <2>2. \E j \in K : Cardinality(Upto(j)) = k
    BY <2>1
  <2>3. f[k] \in K /\ Cardinality(Upto(f[k])) = k
    BY <2>2
  <2> QED
    BY <2>3
<1>7. ASSUME NEW i \in K
      PROVE  \E k \in 1..c : f[k] = i
  <2>1. rank[i] \in 1..c
    BY <1>2
  <2>2. f[rank[i]] \in K /\ rank[f[rank[i]]] = rank[i]
    BY <1>6, <2>1
  <2> QED
    BY <1>4, <2>1, <2>2 DEF Injection, IsInjective
<1>8. f \in [1..c -> K] /\ \A k, l \in 1..c : f[k] = f[l] => k = l
  BY <1>6
<1>9. \A k \in 1..c : f[k] = CHOOSE i \in K : Cardinality({j \in K : j <= i}) = k
  OBVIOUS
<1> HIDE DEF f, c
<1>10. Enumerates(f, c, K)
  BY <1>7, <1>8, <1>9 DEF Enumerates
<1> QED
  BY <1>1, <1>8, <1>10 DEF c

\* u is made of elements of s, each taken once at the most.
PartOf(u, s) ==
  \E f \in [DOMAIN u -> DOMAIN s] :
    /\ \A k \in DOMAIN u : u[k] = s[f[k]]
    /\ \A k, l \in DOMAIN u : f[k] = f[l] => k = l

LEMMA AtPositions ==
  ASSUME NEW S, NEW s \in Seq(S), NEW K \in SUBSET DOMAIN s
  PROVE  /\ At(s, K) \in Seq(S)
         /\ PartOf(At(s, K), s)
         /\ Range(At(s, K)) = {s[i] : i \in K}
<1> DEFINE u == At(s, K)
           c == Cardinality(K)
<1>1. Len(s) \in Nat /\ DOMAIN s = 1..Len(s) /\ \A i \in DOMAIN s : s[i] \in S
  BY LenProperties, ElementOfSeq
<1>2. c \in Nat
  BY <1>1, Positions
<1>3. PICK f \in [1..c -> K] :
        /\ \A k \in 1..c : f[k] = CHOOSE i \in K : Cardinality({j \in K : j <= i}) = k
        /\ \A k, l \in 1..c : f[k] = f[l] => k = l
        /\ \A i \in K : \E k \in 1..c : f[k] = i
  <2>1. \E f \in [1..c -> K] : Enumerates(f, c, K)
    BY <1>1, Positions
  <2> QED
    BY <2>1 DEF Enumerates
<1>4. u = [k \in 1..c |-> s[f[k]]]
  <2> DEFINE e(k) == CHOOSE i \in K : Cardinality({j \in K : j <= i}) = k
  <2>1. \A k \in 1..c : f[k] = e(k)
    BY <1>3
  <2>2. u = [k \in 1..c |-> s[e(k)]]
    BY DEF At
  <2> HIDE DEF e, c, u
  <2> QED
    BY <2>1, <2>2
<1> HIDE DEF u, c
<1>5. u \in Seq(S)
  BY <1>1, <1>2, <1>3, <1>4, IsASeq
<1>6. PartOf(u, s)
  <2>1. f \in [DOMAIN u -> DOMAIN s]
    BY <1>3, <1>4
  <2> QED
    BY <1>3, <1>4, <2>1 DEF PartOf
<1>7. Range(u) = {s[i] : i \in K}
  BY <1>3, <1>4 DEF Range
<1> QED
  BY <1>5, <1>6, <1>7 DEF u

\* A set of natural numbers with a bound has a greatest element.
LEMMA MaxIs ==
  ASSUME NEW n \in Nat, NEW S \in SUBSET (0..n), S # {}
  PROVE  Max(S) \in S
<1> DEFINE T == {n - x : x \in S}
<1>1. T \subseteq Nat /\ T # {}
  <2>1. \A x \in S : n - x \in Nat
    OBVIOUS
  <2> QED
    BY <2>1
<1>2. PICK y \in T : \A z \in T : ~(<<z, y>> \in OpToRel(<, Nat))
  BY <1>1, NatLessThanWellFounded, WFMin, Zenon
<1>3. \A z \in T : ~(z < y)
  BY <1>1, <1>2 DEF OpToRel
<1>4. PICK x \in S : y = n - x
  OBVIOUS
<1>5. \A z \in S : x >= z
  BY <1>3, <1>4
<1> QED
  BY <1>5 DEF Max

LEMMA MinOfTwo ==
  ASSUME NEW m \in Nat, NEW n \in Nat
  PROVE  Min({m, n}) = IF m <= n THEN m ELSE n
<1> DEFINE k == IF m <= n THEN m ELSE n
<1>1. k \in {m, n} /\ \A y \in {m, n} : k <= y
  OBVIOUS
<1>2. Min({m, n}) \in {m, n} /\ \A y \in {m, n} : Min({m, n}) <= y
  BY <1>1 DEF Min
<1> QED
  BY <1>1, <1>2

LEMMA OverlapIs ==
  ASSUME NEW S, NEW rows \in Seq(S), NEW cp \in Seq(S)
  PROVE  /\ Overlap(rows, cp) \in 0..Len(cp)
         /\ Overlap(rows, cp) <= Len(rows)
         /\ SubSeq(rows, Len(rows) - Overlap(rows, cp) + 1, Len(rows))
              = SubSeq(cp, 1, Overlap(rows, cp))
<1> DEFINE m == Min({Len(rows), Len(cp)})
           Ks == {k \in 0..m : SubSeq(rows, Len(rows) - k + 1, Len(rows)) = SubSeq(cp, 1, k)}
<1>1. Len(rows) \in Nat /\ Len(cp) \in Nat
  BY LenProperties
<1>2. m \in Nat /\ m <= Len(rows) /\ m <= Len(cp)
  BY <1>1, MinOfTwo
<1>3. 0 \in Ks
  <2>1. SubSeq(rows, Len(rows) - 0 + 1, Len(rows)) = <<>> /\ SubSeq(cp, 1, 0) = <<>>
    BY <1>1, SubSeqEmpty
  <2> QED
    BY <1>2, <2>1
<1>4. Overlap(rows, cp) = Max(Ks)
  BY DEF Overlap
<1>5. Max(Ks) \in Ks
  <2>1. Ks \in SUBSET (0..m) /\ Ks # {}
    BY <1>3
  <2> HIDE DEF Ks, m
  <2> QED
    BY <1>2, <2>1, MaxIs
<1>6. /\ Max(Ks) \in 0..m
      /\ SubSeq(rows, Len(rows) - Max(Ks) + 1, Len(rows)) = SubSeq(cp, 1, Max(Ks))
  BY <1>5
<1> HIDE DEF Ks, m
<1> QED
  BY <1>1, <1>2, <1>4, <1>6

-----------------------------------------------------------------------------
\* Rows

\* What the rows stand for: inputs by themselves, calls and answers by number.
Names(rows) == {r.id : r \in {q \in Range(rows) : q.t # "notice"}}

Same(a, b) == a.id = b.id /\ (a.t = "call" <=> b.t = "call")

\* They are there once, but for some of the names.
Distinct(rows, X) ==
  \A i, j \in DOMAIN rows :
    i # j /\ rows[i].t # "notice" /\ rows[j].t # "notice" /\ Same(rows[i], rows[j]) =>
      rows[i].id \in X

\* The elements of S are in the sequence once.
Once(seq, S) == \A i, j \in DOMAIN seq : seq[i] = seq[j] /\ seq[i] \in S => i = j

LEMMA PartIs ==
  ASSUME NEW u, NEW s, PartOf(u, s)
  PROVE  /\ Range(u) \subseteq Range(s) /\ Names(u) \subseteq Names(s)
         /\ \A X : Distinct(s, X) => Distinct(u, X)
         /\ \A S : Once(s, S) => Once(u, S)
<1>1. PICK f \in [DOMAIN u -> DOMAIN s] :
        /\ \A k \in DOMAIN u : u[k] = s[f[k]]
        /\ \A k, l \in DOMAIN u : f[k] = f[l] => k = l
  BY DEF PartOf
<1>2. Range(u) \subseteq Range(s)
  BY <1>1 DEF Range
<1>3. Names(u) \subseteq Names(s)
  BY <1>2 DEF Names
<1>4. ASSUME NEW X, Distinct(s, X)
      PROVE  Distinct(u, X)
  BY <1>1, <1>4 DEF Distinct
<1>5. ASSUME NEW S, Once(s, S)
      PROVE  Once(u, S)
  BY <1>1, <1>5 DEF Once
<1> QED
  BY <1>2, <1>3, <1>4, <1>5

LEMMA TailIs ==
  ASSUME NEW S, NEW s \in Seq(S), s # <<>>
  PROVE  /\ Head(s) \in S /\ Tail(s) \in Seq(S) /\ PartOf(Tail(s), s)
         /\ Head(s) \in Range(s)
         /\ \A T : Once(s, T) /\ Head(s) \in T => Head(s) \notin Range(Tail(s))
<1>1. /\ Head(s) \in S /\ Tail(s) \in Seq(S) /\ Len(Tail(s)) = Len(s) - 1
      /\ \A i \in 1..Len(Tail(s)) : Tail(s)[i] = s[i + 1]
  BY HeadTailProperties
<1>2. Len(s) \in Nat \ {0} /\ DOMAIN s = 1..Len(s)
  BY LenProperties, EmptySeq
<1>3. DOMAIN Tail(s) = 1..Len(s) - 1
  BY <1>1, LenProperties
<1>4. PartOf(Tail(s), s)
  <2> DEFINE f == [k \in DOMAIN Tail(s) |-> k + 1]
  <2>1. f \in [DOMAIN Tail(s) -> DOMAIN s]
    BY <1>2, <1>3
  <2>2. \A k \in DOMAIN Tail(s) : Tail(s)[k] = s[f[k]]
    BY <1>1, <1>3
  <2>3. \A k, l \in DOMAIN Tail(s) : f[k] = f[l] => k = l
    BY <1>2, <1>3
  <2> HIDE DEF f
  <2> QED
    BY <2>1, <2>2, <2>3 DEF PartOf
<1>5. Head(s) = s[1] /\ 1 \in DOMAIN s
  BY <1>2
<1>6. ASSUME NEW T, Once(s, T), Head(s) \in T, Head(s) \in Range(Tail(s))
      PROVE  FALSE
  <2>1. PICK k \in DOMAIN Tail(s) : Tail(s)[k] = s[1]
    BY <1>5, <1>6 DEF Range
  <2>2. k + 1 \in DOMAIN s /\ s[k + 1] = s[1] /\ k + 1 # 1
    BY <1>1, <1>2, <1>3, <2>1
  <2> QED
    BY <1>5, <1>6, <2>2 DEF Once
<1> QED
  BY <1>1, <1>4, <1>5, <1>6 DEF Range

LEMMA SubSeqIs ==
  ASSUME NEW S, NEW s \in Seq(S), NEW k \in 0..Len(s)
  PROVE  /\ SubSeq(s, k + 1, Len(s)) \in Seq(S)
         /\ PartOf(SubSeq(s, k + 1, Len(s)), s)
         /\ \A i \in DOMAIN s : i > k => s[i] \in Range(SubSeq(s, k + 1, Len(s)))
<1> DEFINE u == SubSeq(s, k + 1, Len(s))
<1>1. Len(s) \in Nat /\ DOMAIN s = 1..Len(s) /\ \A i \in 1..Len(s) : s[i] \in S
  BY LenProperties, ElementOfSeq
<1>2. /\ u \in Seq(S) /\ Len(u) = Len(s) - k
      /\ \A i \in 1..Len(s) - k : u[i] = s[k + i]
  <2>1. \A i \in k + 1..Len(s) : s[i] \in S
    BY <1>1
  <2>2. /\ u \in Seq(S)
        /\ Len(u) = IF k + 1 <= Len(s) THEN Len(s) - (k + 1) + 1 ELSE 0
        /\ \A i \in 1..Len(s) - (k + 1) + 1 : u[i] = s[(k + 1) + i - 1]
    BY <1>1, <2>1, SubSeqProperties
  <2> HIDE DEF u
  <2>3. Len(u) = Len(s) - k
    <3>1. Len(u) = IF k + 1 <= Len(s) THEN Len(s) - (k + 1) + 1 ELSE 0
      BY <2>2
    <3>2. ASSUME NEW n \in Nat, NEW j \in 0..n
          PROVE  (IF j + 1 <= n THEN n - (j + 1) + 1 ELSE 0) = n - j
      OBVIOUS
    <3> QED
      BY <1>1, <3>1, <3>2
  <2>4. ASSUME NEW i \in 1..Len(s) - k
        PROVE  u[i] = s[k + i]
    <3>1. (k + 1) + i - 1 = k + i /\ i \in 1..Len(s) - (k + 1) + 1
      BY <1>1
    <3> QED
      BY <2>2, <3>1
  <2> QED
    BY <2>2, <2>3, <2>4
<1> HIDE DEF u
<1>3. DOMAIN u = 1..Len(s) - k
  BY <1>2, LenProperties
<1>4. PartOf(u, s)
  <2> DEFINE f == [i \in DOMAIN u |-> k + i]
  <2>1. f \in [DOMAIN u -> DOMAIN s] /\ \A i \in DOMAIN u : u[i] = s[f[i]]
    BY <1>1, <1>2, <1>3
  <2>2. \A i, j \in DOMAIN u : f[i] = f[j] => i = j
    BY <1>3
  <2> HIDE DEF f
  <2> QED
    BY <2>1, <2>2 DEF PartOf
<1>5. ASSUME NEW i \in DOMAIN s, i > k
      PROVE  s[i] \in Range(u)
  <2>1. i - k \in DOMAIN u /\ u[i - k] = s[i]
    BY <1>1, <1>2, <1>3, <1>5
  <2> QED
    BY <2>1 DEF Range
<1> QED
  BY <1>2, <1>4, <1>5 DEF u

LEMMA ConcatIs ==
  ASSUME NEW S, NEW s \in Seq(S), NEW t \in Seq(S)
  PROVE  /\ s \o t \in Seq(S)
         /\ Range(s \o t) = Range(s) \cup Range(t)
         /\ Names(s \o t) = Names(s) \cup Names(t)
         /\ \A X : Distinct(s, X) /\ Distinct(t, X) /\ Names(s) \cap Names(t) \subseteq X =>
                     Distinct(s \o t, X)
         /\ \A T : Once(s, T) /\ Once(t, T) /\ Range(s) \cap Range(t) \cap T = {} =>
                     Once(s \o t, T)
<1> DEFINE u == s \o t
<1>1. /\ u \in Seq(S) /\ Len(u) = Len(s) + Len(t)
      /\ \A i \in 1..Len(s) + Len(t) : u[i] = IF i <= Len(s) THEN s[i] ELSE t[i - Len(s)]
  BY ConcatProperties
<1>2. /\ Len(s) \in Nat /\ DOMAIN s = 1..Len(s)
      /\ Len(t) \in Nat /\ DOMAIN t = 1..Len(t)
  BY LenProperties
<1> HIDE DEF u
<1>3. DOMAIN u = 1..Len(s) + Len(t)
  BY <1>1, LenProperties
<1>4. /\ \A i \in DOMAIN s : i \in DOMAIN u /\ u[i] = s[i]
      /\ \A i \in DOMAIN t : Len(s) + i \in DOMAIN u /\ u[Len(s) + i] = t[i]
  BY <1>1, <1>2, <1>3
<1>5. ASSUME NEW i \in DOMAIN u
      PROVE  \/ i \in DOMAIN s /\ u[i] = s[i] /\ i <= Len(s)
             \/ i - Len(s) \in DOMAIN t /\ u[i] = t[i - Len(s)] /\ i > Len(s)
  BY <1>1, <1>2, <1>3
<1>6. Range(u) = Range(s) \cup Range(t)
  <2>1. ASSUME NEW x \in Range(u)
        PROVE  x \in Range(s) \cup Range(t)
    BY <1>5, <2>1 DEF Range
  <2>2. ASSUME NEW x \in Range(s) \cup Range(t)
        PROVE  x \in Range(u)
    BY <1>4, <2>2 DEF Range
  <2> QED
    BY <2>1, <2>2
<1>7. Names(u) = Names(s) \cup Names(t)
  BY <1>6 DEF Names
<1>8. ASSUME NEW X, Distinct(s, X), Distinct(t, X), Names(s) \cap Names(t) \subseteq X
      PROVE  Distinct(u, X)
  <2> SUFFICES ASSUME NEW i \in DOMAIN u, NEW j \in DOMAIN u,
                      i # j, u[i].t # "notice", u[j].t # "notice", Same(u[i], u[j])
               PROVE  u[i].id \in X
    BY DEF Distinct
  <2>1. CASE i \in DOMAIN s /\ u[i] = s[i] /\ j \in DOMAIN s /\ u[j] = s[j]
    BY <1>8, <2>1 DEF Distinct
  <2>2. CASE /\ i - Len(s) \in DOMAIN t /\ u[i] = t[i - Len(s)]
             /\ j - Len(s) \in DOMAIN t /\ u[j] = t[j - Len(s)]
    <3>1. i - Len(s) # j - Len(s)
      BY <1>2, <1>3
    <3> QED
      BY <1>8, <2>2, <3>1 DEF Distinct
  <2>3. ASSUME NEW x \in Range(s), NEW y \in Range(t),
               x.t # "notice", y.t # "notice", x.id = y.id
        PROVE  x.id \in X
    BY <1>8, <2>3 DEF Names
  <2>4. CASE i \in DOMAIN s /\ u[i] = s[i] /\ j - Len(s) \in DOMAIN t /\ u[j] = t[j - Len(s)]
    <3>1. u[i] \in Range(s) /\ u[j] \in Range(t)
      BY <2>4 DEF Range
    <3> QED
      BY <2>3, <3>1 DEF Same
  <2>5. CASE j \in DOMAIN s /\ u[j] = s[j] /\ i - Len(s) \in DOMAIN t /\ u[i] = t[i - Len(s)]
    <3>1. u[j] \in Range(s) /\ u[i] \in Range(t)
      BY <2>5 DEF Range
    <3> QED
      BY <2>3, <3>1 DEF Same
  <2> QED
    BY <1>5, <2>1, <2>2, <2>4, <2>5
<1>9. ASSUME NEW T, Once(s, T), Once(t, T), Range(s) \cap Range(t) \cap T = {}
      PROVE  Once(u, T)
  <2> SUFFICES ASSUME NEW i \in DOMAIN u, NEW j \in DOMAIN u, u[i] = u[j], u[i] \in T
               PROVE  i = j
    BY DEF Once
  <2>1. CASE i \in DOMAIN s /\ u[i] = s[i] /\ j \in DOMAIN s /\ u[j] = s[j]
    BY <1>9, <2>1 DEF Once
  <2>2. CASE /\ i - Len(s) \in DOMAIN t /\ u[i] = t[i - Len(s)]
             /\ j - Len(s) \in DOMAIN t /\ u[j] = t[j - Len(s)]
    <3>1. i - Len(s) = j - Len(s)
      BY <1>9, <2>2 DEF Once
    <3> QED
      BY <1>2, <1>3, <3>1
  <2>3. CASE \/ i \in DOMAIN s /\ u[i] = s[i] /\ j - Len(s) \in DOMAIN t /\ u[j] = t[j - Len(s)]
             \/ j \in DOMAIN s /\ u[j] = s[j] /\ i - Len(s) \in DOMAIN t /\ u[i] = t[i - Len(s)]
    <3>1. u[i] \in Range(s) /\ u[i] \in Range(t)
      BY <2>3 DEF Range
    <3> QED
      BY <1>9, <3>1
  <2> QED
    BY <1>5, <2>1, <2>2, <2>3
<1> QED
  BY <1>1, <1>6, <1>7, <1>8, <1>9 DEF u

LEMMA SingleIs ==
  ASSUME NEW S, NEW x \in S
  PROVE  /\ <<x>> \in Seq(S) /\ Range(<<x>>) = {x}
         /\ \A X : Distinct(<<x>>, X)
         /\ \A T : Once(<<x>>, T)
  BY DEF Range, Distinct, Once

LEMMA AppendIs ==
  ASSUME NEW S, NEW s \in Seq(S), NEW x \in S
  PROVE  Append(s, x) = s \o <<x>>
<1>1. /\ Append(s, x) \in Seq(S) /\ s \o <<x>> \in Seq(S)
      /\ Len(Append(s, x)) = Len(s) + 1 /\ Len(s \o <<x>>) = Len(s) + 1
      /\ Len(s) \in Nat
  BY LenProperties
<1>2. ASSUME NEW i \in 1..Len(s) + 1
      PROVE  Append(s, x)[i] = (s \o <<x>>)[i]
  BY <1>1, LenProperties
<1> QED
  BY <1>1, <1>2, SeqEqual

-----------------------------------------------------------------------------
\* Sessions

\* N: the names given so far.  X: those that a dismissal may have doubled.
Sound(s, N, X) ==
  /\ Names(s.rows) \cup Names(s.cp) \cup Range(s.jrnl) \subseteq N
  /\ Distinct(s.rows, X) /\ Distinct(s.cp, {})
  /\ Names(s.rows) \cap Names(s.cp) \subseteq X
  /\ Once(s.jrnl, Messages) /\ Range(s.jrnl) \cap Names(s.rows) = {}

\* What every operation of the recovery does to a session: rows are added, from
\* the checkpoint and by way of notice, and the checkpoint is cleared with that.
Tidied(s, t) ==
  /\ t \in Sessions
  /\ t.jrnl = s.jrnl
  /\ t.cp = s.cp \/ t.cp = <<>>
  /\ Range(s.rows) \subseteq Range(t.rows)
  /\ Range(s.cp) \subseteq Range(t.rows) \cup Range(t.cp)
  /\ Names(t.rows) \subseteq Names(s.rows) \cup Names(s.cp)
  /\ \A N, X : Sound(s, N, X) => Sound(t, N, X)

LEMMA RowTypes ==
  /\ \A m \in Messages : User(m) \in Rows /\ User(m).t = "user" /\ User(m).id = m
  /\ Notice \in Rows /\ Notice.t = "notice"
  /\ \A n \in Nat, op \in Ops \cup {NoOp}, t \in {"call", "result", "lost", "answer"} :
       /\ Row(t, n, op) \in Output
       /\ Row(t, n, op).t = t /\ Row(t, n, op).id = n
  /\ Output \subseteq Rows
  /\ \A r \in Output : r.id \in Nat
  /\ \A r \in Rows : r.id \in Messages <=> r.t = "user"
  /\ \A n \in Nat : n \notin Messages
<1>1. \A n \in Nat : n \notin Messages
  BY TurnRecoveryAssumption
<1>2. \A m \in Messages : User(m) \in Rows /\ User(m).t = "user" /\ User(m).id = m
  BY DEF User, Row, Rows
<1>3. Notice \in Rows /\ Notice.t = "notice"
  BY <1>1 DEF Notice, Row, Rows
<1>4. ASSUME NEW n \in Nat, NEW op \in Ops \cup {NoOp},
             NEW t \in {"call", "result", "lost", "answer"}
      PROVE  Row(t, n, op) \in Output /\ Row(t, n, op).t = t /\ Row(t, n, op).id = n
  BY <1>1 DEF Row, Rows, Output
<1>5. Output \subseteq Rows
  BY DEF Output
<1>6. \A r \in Rows : r.id \in Messages <=> r.t = "user"
  BY DEF Rows
<1>7. \A r \in Output : r.id \in Nat
  BY DEF Output, Rows
<1> QED
  BY <1>1, <1>2, <1>3, <1>4, <1>5, <1>6, <1>7

LEMMA InputNames ==
  ASSUME NEW rows \in Seq(Rows)
  PROVE  Users(rows) = Names(rows) \cap Messages
<1>1. \A r \in Range(rows) : r \in Rows
  BY LenProperties, ElementOfSeq DEF Range
<1>2. \A r \in Range(rows) : r.id \in Messages <=> r.t = "user"
  BY <1>1, RowTypes
<1> QED
  BY <1>2 DEF Users, Names

LEMMA OutputIs ==
  ASSUME NEW cp \in Seq(Output)
  PROVE  /\ cp \in Seq(Rows) /\ Names(cp) \subseteq Nat
         /\ {r.id : r \in Range(cp)} = Names(cp)
<1>1. cp \in Seq(Rows)
  BY RowTypes, SeqMonotonic
<1>2. \A r \in Range(cp) : r \in Output
  BY LenProperties, ElementOfSeq DEF Range
<1>3. \A r \in Range(cp) : r.id \in Nat /\ r.t # "notice"
  BY <1>2, RowTypes DEF Output
<1>4. Names(cp) \subseteq Nat
  BY <1>3 DEF Names
<1>5. {r.id : r \in Range(cp)} = Names(cp)
  BY <1>3 DEF Names
<1> QED
  BY <1>1, <1>4, <1>5

LEMMA EmptyIs ==
  ASSUME NEW S
  PROVE  <<>> \in Seq(S) /\ Range(<<>>) = {} /\ Names(<<>>) = {}
  BY DEF Range, Names

LEMMA EmptyDistinct == (\A X : Distinct(<<>>, X)) /\ (\A T : Once(<<>>, T))
  BY DEF Distinct, Once

LEMMA SessionTypes ==
  ASSUME NEW s \in Sessions
  PROVE  /\ s.rows \in Seq(Rows) /\ s.pending \in BOOLEAN /\ s.cp \in Seq(Output)
         /\ s.jrnl \in Seq(Messages)
         /\ s.rec \in [st : Open \cup {"none", "recovered"}, id : Nat, base : Nat, ok : BOOLEAN]
  BY DEF Sessions

LEMMA TidiedItself == ASSUME NEW s \in Sessions PROVE Tidied(s, s)
  BY DEF Tidied

LEMMA TidiedTwice ==
  ASSUME NEW s, NEW t, NEW u, Tidied(s, t), Tidied(t, u)
  PROVE  Tidied(s, u)
<1>1. Names(t.cp) \subseteq Names(s.cp)
  BY EmptyIs DEF Tidied
<1>2. Range(s.rows) \subseteq Range(u.rows) /\ Range(s.cp) \subseteq Range(u.rows) \cup Range(u.cp)
  BY DEF Tidied
<1>3. Names(u.rows) \subseteq Names(s.rows) \cup Names(s.cp)
  BY <1>1 DEF Tidied
<1> QED
  BY <1>2, <1>3 DEF Tidied

\* A step that sets fields of a session or appends a notice.
LEMMA TouchedTidied ==
  ASSUME NEW s \in Sessions, NEW t \in Sessions, t.cp = s.cp, t.jrnl = s.jrnl,
         t.rows = s.rows \/ t.rows = Append(s.rows, Notice)
  PROVE  Tidied(s, t)
<1>1. CASE t.rows = s.rows
  <2>1. \A N, X : Sound(s, N, X) => Sound(t, N, X)
    BY <1>1 DEF Sound
  <2> QED
    BY <1>1, <2>1 DEF Tidied
<1>2. CASE t.rows = Append(s.rows, Notice)
  <2>0. Notice \in Rows /\ Notice.t = "notice" /\ s.rows \in Seq(Rows)
    BY RowTypes, SessionTypes
  <2> DEFINE n == <<Notice>>
  <2>1. t.rows = s.rows \o n
    BY <1>2, <2>0, AppendIs
  <2>2. n \in Seq(Rows) /\ Range(n) = {Notice} /\ \A X : Distinct(n, X)
    BY <2>0, SingleIs
  <2> HIDE DEF n
  <2>3. Names(n) = {}
    BY <2>0, <2>2 DEF Names
  <2>4. /\ Names(t.rows) = Names(s.rows)
        /\ Range(s.rows) \subseteq Range(t.rows)
        /\ \A X : Distinct(s.rows, X) => Distinct(t.rows, X)
    <3>1. /\ Names(t.rows) = Names(s.rows) \cup Names(n)
          /\ Range(t.rows) = Range(s.rows) \cup Range(n)
      BY <2>0, <2>1, <2>2, ConcatIs
    <3>2. ASSUME NEW X, Distinct(s.rows, X)
          PROVE  Distinct(t.rows, X)
      <4>1. Distinct(n, X) /\ Names(s.rows) \cap Names(n) \subseteq X
        BY <2>2, <2>3
      <4> QED
        BY <2>0, <2>1, <2>2, <3>2, <4>1, ConcatIs
    <3> QED
      BY <2>3, <3>1, <3>2
  <2>5. \A N, X : Sound(s, N, X) => Sound(t, N, X)
    BY <2>4 DEF Sound
  <2> QED
    BY <2>4, <2>5 DEF Tidied
<1> QED
  BY <1>1, <1>2

LEMMA SetStateTypes ==
  ASSUME NEW s \in Sessions, NEW st \in Open \cup {"none", "recovered"}
  PROVE  /\ SetState(s, st) \in Sessions
         /\ SetState(s, st).rows = s.rows /\ SetState(s, st).cp = s.cp
         /\ SetState(s, st).jrnl = s.jrnl
         /\ SetState(s, st).rec.st = st /\ SetState(s, st).rec.id = s.rec.id
  BY DEF SetState, Sessions

LEMMA NewStateTypes ==
  ASSUME NEW s \in Sessions, NEW st \in Open \cup {"none", "recovered"}
  PROVE  /\ NewState(s, st) \in Sessions
         /\ NewState(s, st).rows = s.rows /\ NewState(s, st).cp = s.cp
         /\ NewState(s, st).jrnl = s.jrnl
         /\ NewState(s, st).rec.st = st /\ NewState(s, st).rec.id = s.rec.id + 1
<1> DEFINE t == SetState(s, st)
<1>1. /\ t \in Sessions /\ t.rows = s.rows /\ t.cp = s.cp /\ t.jrnl = s.jrnl
      /\ t.rec.st = st /\ t.rec.id = s.rec.id
  BY SetStateTypes
<1>2. NewState(s, st) = [t EXCEPT !.rec.id = @ + 1, !.rec.base = 0]
  BY DEF NewState
<1> HIDE DEF t
<1> DEFINE r == [t.rec EXCEPT !.id = @ + 1, !.base = 0]
<1>3. t.rec \in [st : Open \cup {"none", "recovered"}, id : Nat, base : Nat, ok : BOOLEAN]
  BY <1>1, SessionTypes
<1>4. /\ r \in [st : Open \cup {"none", "recovered"}, id : Nat, base : Nat, ok : BOOLEAN]
      /\ r.st = t.rec.st /\ r.id = t.rec.id + 1
  <2>1. t.rec.id + 1 \in Nat
    BY <1>3
  <2> QED
    BY <1>3, <2>1
<1>5. NewState(s, st) = [t EXCEPT !.rec = r]
  BY <1>1, <1>2 DEF Sessions
<1> HIDE DEF r
<1> QED
  BY <1>1, <1>4, <1>5 DEF Sessions

LEMMA CloseTypes ==
  ASSUME NEW s \in Sessions
  PROVE  /\ Tidied(s, Close(s)) /\ Close(s).cp = s.cp /\ Close(s).rec = s.rec
<1>1. CASE ~s.pending
  BY <1>1, TidiedItself DEF Close
<1>2. CASE s.pending
  <2> DEFINE rows == IF s.rows # <<>> /\ Last(s.rows).t = "user" THEN Append(s.rows, Notice)
                                                             ELSE s.rows
  <2>1. Close(s) = [s EXCEPT !.rows = rows, !.pending = FALSE]
    BY <1>2 DEF Close
  <2>2. rows \in Seq(Rows) /\ (rows = s.rows \/ rows = Append(s.rows, Notice))
    BY SessionTypes, RowTypes
  <2> HIDE DEF rows
  <2>3. /\ Close(s) \in Sessions /\ Close(s).rows = rows /\ Close(s).cp = s.cp
        /\ Close(s).jrnl = s.jrnl /\ Close(s).rec = s.rec
    BY <2>1, <2>2 DEF Sessions
  <2> QED
    BY <2>2, <2>3, TouchedTidied
<1> QED
  BY <1>1, <1>2

LEMMA InterruptTypes ==
  ASSUME NEW s \in Sessions
  PROVE  Tidied(s, Interrupt(s)) /\ Interrupt(s).cp = s.cp /\ Interrupt(s).rec = s.rec
<1>1. CASE Interrupt(s) = s
  BY <1>1, TidiedItself
<1>2. CASE Interrupt(s) = [s EXCEPT !.rows = Append(@, Notice)]
  <2>1. Append(s.rows, Notice) \in Seq(Rows)
    BY SessionTypes, RowTypes
  <2>2. /\ Interrupt(s) \in Sessions /\ Interrupt(s).rows = Append(s.rows, Notice)
        /\ Interrupt(s).cp = s.cp /\ Interrupt(s).jrnl = s.jrnl /\ Interrupt(s).rec = s.rec
    BY <1>2, <2>1 DEF Sessions
  <2> QED
    BY <2>2, TouchedTidied
<1> QED
  BY <1>1, <1>2 DEF Interrupt

\* What the rows and the checkpoint overlap in is added once.
LEMMA RestoreTypes ==
  ASSUME NEW s \in Sessions
  PROVE  /\ Tidied(s, Restore(s)) /\ Restore(s).cp = <<>> /\ Restore(s).rec = s.rec
         /\ s.cp = <<>> => Restore(s) = s
<1>1. CASE s.cp = <<>>
  BY <1>1, TidiedItself DEF Restore
<1>2. CASE s.cp # <<>>
  <2> DEFINE k == Overlap(s.rows, s.cp)
             u == SubSeq(s.cp, k + 1, Len(s.cp))
             t == Restore(s)
  <2>1. t = [s EXCEPT !.rows = @ \o u, !.cp = <<>>, !.pending = FALSE]
    BY <1>2 DEF Restore
  <2>2. /\ s.rows \in Seq(Rows) /\ s.cp \in Seq(Output) /\ s.cp \in Seq(Rows)
        /\ Names(s.cp) \subseteq Nat
    BY SessionTypes, OutputIs
  <2>3. /\ k \in 0..Len(s.cp) /\ k <= Len(s.rows)
        /\ SubSeq(s.rows, Len(s.rows) - k + 1, Len(s.rows)) = SubSeq(s.cp, 1, k)
    BY <2>2, OverlapIs
  <2>4. /\ u \in Seq(Rows) /\ PartOf(u, s.cp)
        /\ \A i \in DOMAIN s.cp : i > k => s.cp[i] \in Range(u)
    BY <2>2, <2>3, SubSeqIs
  <2>5. \A i \in DOMAIN s.cp : i <= k => s.cp[i] \in Range(s.rows)
    <3> SUFFICES ASSUME NEW i \in DOMAIN s.cp, i <= k
                 PROVE  s.cp[i] \in Range(s.rows)
      OBVIOUS
    <3>1. /\ Len(s.cp) \in Nat /\ DOMAIN s.cp = 1..Len(s.cp)
          /\ Len(s.rows) \in Nat /\ DOMAIN s.rows = 1..Len(s.rows)
          /\ \A j \in 1..Len(s.cp) : s.cp[j] \in Rows
          /\ \A j \in 1..Len(s.rows) : s.rows[j] \in Rows
      BY <2>2, LenProperties, ElementOfSeq
    <3>2. i \in 1..k
      BY <3>1, <2>3
    <3> HIDE DEF k
    <3>3. SubSeq(s.cp, 1, k)[i] = s.cp[i]
      <4>1. \A j \in 1..k - 1 + 1 : SubSeq(s.cp, 1, k)[j] = s.cp[1 + j - 1]
        BY <2>3, <3>1, SubSeqProperties
      <4> QED
        BY <2>3, <3>1, <3>2, <4>1
    <3> DEFINE a == Len(s.rows) - k + 1
    <3>4. SubSeq(s.rows, a, Len(s.rows))[i] = s.rows[a + i - 1] /\ a + i - 1 \in DOMAIN s.rows
      <4>1. /\ a \in Int /\ a >= 1 /\ i \in 1..Len(s.rows) - a + 1
            /\ a + i - 1 \in DOMAIN s.rows
        BY <2>3, <3>1, <3>2
      <4>2. \A j \in a..Len(s.rows) : s.rows[j] \in Rows
        BY <3>1, <4>1
      <4> HIDE DEF a
      <4>3. \A j \in 1..Len(s.rows) - a + 1 : SubSeq(s.rows, a, Len(s.rows))[j] = s.rows[a + j - 1]
        BY <3>1, <4>1, <4>2, SubSeqProperties
      <4> QED
        BY <4>1, <4>3
    <3> QED
      BY <2>3, <3>3, <3>4 DEF Range
  <2> HIDE DEF k, u
  <2>6. /\ s.rows \o u \in Seq(Rows)
        /\ Range(s.rows \o u) = Range(s.rows) \cup Range(u)
        /\ Names(s.rows \o u) = Names(s.rows) \cup Names(u)
    BY <2>2, <2>4, ConcatIs
  <2>7. /\ t \in Sessions /\ t.rows = s.rows \o u /\ t.cp = <<>> /\ t.jrnl = s.jrnl
        /\ t.rec = s.rec
    <3> DEFINE rows == s.rows \o u
    <3>1. <<>> \in Seq(Output) /\ rows \in Seq(Rows)
      BY <2>6, EmptyIs
    <3>2. t = [s EXCEPT !.rows = rows, !.cp = <<>>, !.pending = FALSE]
      BY <2>1
    <3> HIDE DEF rows, t
    <3>3. /\ t \in Sessions /\ t.rows = rows /\ t.cp = <<>> /\ t.jrnl = s.jrnl
          /\ t.rec = s.rec
      BY <3>1, <3>2 DEF Sessions
    <3> QED
      BY <3>3 DEF rows
  <2> HIDE DEF t
  <2>8. /\ Range(u) \subseteq Range(s.cp) /\ Names(u) \subseteq Names(s.cp)
        /\ \A X : Distinct(s.cp, X) => Distinct(u, X)
    BY <2>4, PartIs
  <2>9. Range(s.cp) \subseteq Range(t.rows)
    <3>1. ASSUME NEW i \in DOMAIN s.cp
          PROVE  s.cp[i] \in Range(t.rows)
      <4>1. i \in Nat /\ k \in Nat
        BY <2>2, <2>3, LenProperties
      <4>2. CASE i > k
        BY <2>4, <2>6, <2>7, <4>2
      <4>3. CASE i <= k
        BY <2>5, <2>6, <2>7, <4>3
      <4> QED
        BY <4>1, <4>2, <4>3
    <3> QED
      BY <3>1 DEF Range
  <2>10. ASSUME NEW N, NEW X, Sound(s, N, X)
         PROVE  Sound(t, N, X)
    <3>1. Distinct(u, X)
      BY <2>8, <2>10 DEF Sound, Distinct
    <3>2. Names(s.rows) \cap Names(u) \subseteq X
      BY <2>8, <2>10 DEF Sound
    <3>3. Distinct(t.rows, X)
      BY <2>2, <2>4, <2>7, <2>10, <3>1, <3>2, ConcatIs DEF Sound
    <3>4. Range(t.jrnl) \cap Names(t.rows) = {}
      <4>1. Range(s.jrnl) \subseteq Messages
        BY SessionTypes, LenProperties, ElementOfSeq DEF Range
      <4>2. Range(s.jrnl) \cap Names(u) = {}
        BY <2>2, <2>8, <4>1, RowTypes
      <4> QED
        BY <2>6, <2>7, <2>10, <4>2 DEF Sound
    <3>5. Names(t.cp) = {} /\ Distinct(t.cp, {})
      BY <2>7, EmptyIs, EmptyDistinct
    <3>6. Names(t.rows) \cup Names(t.cp) \cup Range(t.jrnl) \subseteq N
      BY <2>6, <2>7, <2>8, <2>10, <3>5 DEF Sound
    <3> QED
      BY <2>7, <2>10, <3>3, <3>4, <3>5, <3>6 DEF Sound
  <2>11. Tidied(s, t)
    BY <2>6, <2>7, <2>8, <2>9, <2>10 DEF Tidied
  <2> QED
    BY <1>2, <2>7, <2>11 DEF t
<1> QED
  BY <1>1, <1>2

LEMMA SetStateTidies ==
  ASSUME NEW s \in Sessions, NEW st \in Open \cup {"none", "recovered"}
  PROVE  Tidied(s, SetState(s, st))
  BY SetStateTypes, TouchedTidied

LEMMA NewStateTidies ==
  ASSUME NEW s \in Sessions, NEW st \in Open \cup {"none", "recovered"}
  PROVE  Tidied(s, NewState(s, st))
  BY NewStateTypes, TouchedTidied

LEMMA TidiedSession == ASSUME NEW s, NEW t, Tidied(s, t) PROVE t \in Sessions
  BY DEF Tidied

LEMMA AdmitTypes ==
  ASSUME NEW s \in Sessions
  PROVE  /\ Tidied(s, Admit(s)) /\ Admit(s).rec.st \notin Open /\ Admit(s).rec.id = s.rec.id
         /\ s.rec.st \notin Open => Admit(s) = s
<1>1. CASE s.rec.st \notin Open
  BY <1>1, TidiedItself DEF Admit
<1>2. CASE s.rec.st \in Open
  <2> DEFINE r == Restore(s)
             t == IF r.pending THEN Close(r) ELSE Interrupt(r)
             a == SetState(t, "recovered")
  <2>1. Admit(s) = a
    BY <1>2 DEF Admit
  <2>2. Tidied(s, r) /\ r \in Sessions /\ r.rec = s.rec
    BY RestoreTypes, TidiedSession
  <2> HIDE DEF r
  <2>3. Tidied(r, t) /\ t \in Sessions /\ t.rec = r.rec
    BY <2>2, CloseTypes, InterruptTypes, TidiedSession
  <2> HIDE DEF t
  <2>4. Tidied(t, a) /\ a.rec.st = "recovered" /\ a.rec.id = t.rec.id
    BY <2>3, SetStateTypes, SetStateTidies
  <2> HIDE DEF a
  <2>5. Tidied(s, a)
    BY <2>2, <2>3, <2>4, TidiedTwice
  <2> QED
    BY <1>2, <2>1, <2>2, <2>3, <2>4, <2>5 DEF Open
<1> QED
  BY <1>1, <1>2

LEMMA ReadyTypes ==
  ASSUME NEW s \in Sessions
  PROVE  LET t == Close(Restore(Admit(s)))
         IN Tidied(s, t) /\ t.cp = <<>> /\ t.rec.st \notin Open /\ t.rec.id = s.rec.id
<1> DEFINE a == Admit(s)
           r == Restore(a)
           t == Close(r)
<1>1. Tidied(s, a) /\ a \in Sessions /\ a.rec.st \notin Open /\ a.rec.id = s.rec.id
  BY AdmitTypes, TidiedSession
<1> HIDE DEF a
<1>2. Tidied(a, r) /\ r \in Sessions /\ r.cp = <<>> /\ r.rec = a.rec
  BY <1>1, RestoreTypes, TidiedSession
<1> HIDE DEF r
<1>3. Tidied(r, t) /\ t.cp = r.cp /\ t.rec = r.rec
  BY <1>2, CloseTypes
<1> HIDE DEF t
<1>4. Tidied(s, t)
  BY <1>1, <1>2, <1>3, TidiedTwice
<1>5. t.cp = <<>> /\ t.rec.st \notin Open /\ t.rec.id = s.rec.id
  BY <1>1, <1>2, <1>3
<1> QED
  BY <1>4, <1>5 DEF t, r, a

LEMMA ResolveTypes ==
  ASSUME NEW s \in Sessions
  PROVE  /\ Tidied(s, Resolve(s)) /\ Resolve(s).rows = s.rows /\ Resolve(s).cp = s.cp
         /\ Resolve(s).jrnl = s.jrnl /\ Resolve(s).rec.id = s.rec.id
         /\ Resolve(s).rec.st # "resuming"
<1>1. CASE s.rec.st = "resuming"
  BY <1>1, SetStateTypes, SetStateTidies DEF Resolve
<1>2. CASE s.rec.st # "resuming"
  BY <1>2, TidiedItself DEF Resolve
<1> QED
  BY <1>1, <1>2

LEMMA DismissTypes ==
  ASSUME NEW s \in Sessions
  PROVE  LET t == SetState(Close(Restore(s)), "recovered")
         IN Tidied(s, t) /\ t.cp = <<>> /\ t.rec.st = "recovered" /\ t.rec.id = s.rec.id
<1> DEFINE r == Restore(s)
           c == Close(r)
           t == SetState(c, "recovered")
<1>1. Tidied(s, r) /\ r \in Sessions /\ r.cp = <<>> /\ r.rec = s.rec
  BY RestoreTypes, TidiedSession
<1> HIDE DEF r
<1>2. Tidied(r, c) /\ c \in Sessions /\ c.cp = r.cp /\ c.rec = r.rec
  BY <1>1, CloseTypes, TidiedSession
<1> HIDE DEF c
<1>3. Tidied(c, t) /\ t.cp = c.cp /\ t.rec.st = "recovered" /\ t.rec.id = c.rec.id
  BY <1>2, SetStateTypes, SetStateTidies
<1> HIDE DEF t
<1>4. Tidied(s, t)
  BY <1>1, <1>2, <1>3, TidiedTwice
<1>5. t.cp = <<>> /\ t.rec.st = "recovered" /\ t.rec.id = s.rec.id
  BY <1>1, <1>2, <1>3
<1> QED
  BY <1>4, <1>5 DEF t, c, r

LEMMA RecoverTypes ==
  ASSUME NEW s \in Sessions, NEW unfinished
  PROVE  LET t == Recover(s, unfinished)
         IN /\ Tidied(s, t) /\ t.rec.id \in {s.rec.id, s.rec.id + 1}
            /\ t.rec.st # "resuming"
<1> DEFINE idle == ~s.pending /\ s.cp = <<>>
           t == Recover(s, unfinished)
<1>1. CASE idle /\ s.rec.st = "resuming"
  <2> DEFINE st == IF Len(s.rows) > s.rec.base THEN "recovered" ELSE "awaiting_user"
  <2>1. t = SetState(s, st)
    BY <1>1 DEF Recover
  <2>2. st \in Open \cup {"none", "recovered"} /\ st # "resuming"
    BY DEF Open
  <2> HIDE DEF st, t
  <2>3. Tidied(s, t) /\ t.rec.st = st /\ t.rec.id = s.rec.id
    BY <2>1, <2>2, SetStateTypes, SetStateTidies
  <2> QED
    BY <2>2, <2>3 DEF t
<1>2. CASE idle /\ s.rec.st # "resuming"
  <2> DEFINE n == NewState(s, "awaiting_user")
             u == [n EXCEPT !.rec.ok = HasContext(s.rows)]
  <2>1. t = IF unfinished THEN u ELSE s
    BY <1>2 DEF Recover
  <2>2. /\ n \in Sessions /\ n.rows = s.rows /\ n.cp = s.cp /\ n.jrnl = s.jrnl
        /\ n.rec.id = s.rec.id + 1 /\ n.rec.st = "awaiting_user"
    BY NewStateTypes DEF Open
  <2>3. HasContext(s.rows) \in BOOLEAN
    BY DEF HasContext
  <2> HIDE DEF n
  <2>4. /\ u \in Sessions /\ u.rows = n.rows /\ u.cp = n.cp /\ u.jrnl = n.jrnl
        /\ u.rec.id = n.rec.id /\ u.rec.st = n.rec.st
    BY <2>2, <2>3 DEF Sessions
  <2> HIDE DEF u, t
  <2>5. Tidied(s, u)
    BY <2>2, <2>4, TouchedTidied
  <2> QED
    BY <1>2, <2>1, <2>2, <2>4, <2>5, TidiedItself DEF t
<1>3. CASE ~idle /\ s.rec.st = "awaiting_user"
  <2>1. t = s
    BY <1>3 DEF Recover
  <2> HIDE DEF t
  <2> QED
    BY <1>3, <2>1, TidiedItself DEF t
<1>4. CASE ~idle /\ s.rec.st = "resuming"
  <2> DEFINE r == Restore(s)
             c == Close(r)
  <2>1. t = SetState(c, "awaiting_user")
    BY <1>4 DEF Recover
  <2>2. Tidied(s, r) /\ r \in Sessions /\ r.cp = <<>> /\ r.rec = s.rec
    BY RestoreTypes, TidiedSession
  <2> HIDE DEF r
  <2>3. Tidied(r, c) /\ c \in Sessions /\ c.cp = r.cp /\ c.rec = r.rec
    BY <2>2, CloseTypes, TidiedSession
  <2> HIDE DEF c, t
  <2>4. Tidied(c, t) /\ t.rec.st = "awaiting_user" /\ t.rec.id = c.rec.id
    BY <2>1, <2>3, SetStateTypes, SetStateTidies DEF Open
  <2>5. Tidied(s, t)
    BY <2>2, <2>3, <2>4, TidiedTwice
  <2> QED
    BY <2>2, <2>3, <2>4, <2>5 DEF t
<1>5. CASE ~idle /\ s.rec.st \notin {"awaiting_user", "resuming"}
  <2> DEFINE r == Restore(s)
             st == IF s.cp # <<>> /\ Head(s.cp).t = "answer" THEN "recovered" ELSE "awaiting_user"
  <2>1. t = NewState(r, st)
    BY <1>5 DEF Recover
  <2>2. Tidied(s, r) /\ r \in Sessions /\ r.cp = <<>> /\ r.rec = s.rec
    BY RestoreTypes, TidiedSession
  <2>3. st \in Open \cup {"none", "recovered"}
    BY DEF Open
  <2> HIDE DEF r, st, t
  <2>4. Tidied(r, t) /\ t.rec.st = st /\ t.rec.id = r.rec.id + 1
    BY <2>1, <2>2, <2>3, NewStateTypes, NewStateTidies
  <2>5. Tidied(s, t)
    BY <2>2, <2>4, TidiedTwice
  <2> QED
    BY <2>2, <2>4, <2>5 DEF t, st
<1> QED
  BY <1>1, <1>2, <1>3, <1>4, <1>5

LEMMA JournalTypes ==
  ASSUME NEW s \in Sessions, NEW m \in Messages
  PROVE  LET t == Journal(s, m)
         IN /\ t \in Sessions /\ t.rows = s.rows /\ t.cp = s.cp /\ t.rec = s.rec
            /\ Range(t.jrnl) = Range(s.jrnl) \cup {m}
            /\ Once(s.jrnl, Messages) => Once(t.jrnl, Messages)
<1> DEFINE jrnl == IF m \in Range(s.jrnl) THEN s.jrnl ELSE Append(s.jrnl, m)
           t == Journal(s, m)
<1>1. s.jrnl \in Seq(Messages)
  BY SessionTypes
<1>2. /\ jrnl \in Seq(Messages)
      /\ Range(jrnl) = Range(s.jrnl) \cup {m}
      /\ Once(s.jrnl, Messages) => Once(jrnl, Messages)
  <2>1. CASE m \in Range(s.jrnl)
    BY <1>1, <2>1
  <2>2. CASE m \notin Range(s.jrnl)
    <3> DEFINE n == <<m>>
    <3>1. n \in Seq(Messages) /\ Range(n) = {m} /\ Once(n, Messages)
      BY SingleIs
    <3>2. jrnl = s.jrnl \o n
      BY <1>1, <2>2, AppendIs
    <3> HIDE DEF n, jrnl
    <3>3. jrnl \in Seq(Messages) /\ Range(jrnl) = Range(s.jrnl) \cup Range(n)
      BY <1>1, <3>1, <3>2, ConcatIs
    <3>4. Range(s.jrnl) \cap Range(n) \cap Messages = {}
      BY <2>2, <3>1
    <3>5. Once(s.jrnl, Messages) => Once(jrnl, Messages)
      BY <1>1, <3>1, <3>2, <3>4, ConcatIs
    <3> QED
      BY <3>1, <3>3, <3>5
  <2> QED
    BY <2>1, <2>2
<1>3. t = [s EXCEPT !.jrnl = jrnl]
  BY DEF Journal
<1> HIDE DEF jrnl, t
<1>4. t \in Sessions /\ t.rows = s.rows /\ t.cp = s.cp /\ t.rec = s.rec /\ t.jrnl = jrnl
  BY <1>2, <1>3 DEF Sessions
<1> QED
  BY <1>2, <1>4 DEF t

LEMMA AckTypes ==
  ASSUME NEW s \in Sessions, NEW ms
  PROVE  LET t == Ack(s, ms)
         IN /\ t \in Sessions /\ t.rows = s.rows /\ t.cp = s.cp /\ t.rec = s.rec
            /\ Range(t.jrnl) = Range(s.jrnl) \ ms
            /\ Once(s.jrnl, Messages) => Once(t.jrnl, Messages)
<1> DEFINE K == {i \in DOMAIN s.jrnl : s.jrnl[i] \notin ms}
           jrnl == At(s.jrnl, K)
           t == Ack(s, ms)
<1>1. s.jrnl \in Seq(Messages) /\ K \in SUBSET DOMAIN s.jrnl
  BY SessionTypes
<1>2. t = [s EXCEPT !.jrnl = jrnl]
  BY DEF Ack
<1>3. Range(s.jrnl) \ ms = {s.jrnl[i] : i \in K}
  BY DEF Range
<1> HIDE DEF K
<1>4. jrnl \in Seq(Messages) /\ PartOf(jrnl, s.jrnl) /\ Range(jrnl) = {s.jrnl[i] : i \in K}
  BY <1>1, AtPositions
<1> HIDE DEF jrnl, t
<1>5. t \in Sessions /\ t.rows = s.rows /\ t.cp = s.cp /\ t.rec = s.rec /\ t.jrnl = jrnl
  BY <1>2, <1>4 DEF Sessions
<1> QED
  BY <1>3, <1>4, <1>5, PartIs DEF t

\* Results of calls that have one are dropped, and nothing else.
LEMMA NewRowsTypes ==
  ASSUME NEW rows, NEW new \in Seq(Rows)
  PROVE  LET u == NewRows(rows, new)
         IN /\ u \in Seq(Rows) /\ PartOf(u, new)
            /\ \A r \in Range(new) : r.t # "result" => r \in Range(u)
<1> DEFINE K == {i \in DOMAIN new : ~Resolved(rows, new[i])}
           u == NewRows(rows, new)
<1>1. u = At(new, K) /\ K \in SUBSET DOMAIN new
  BY DEF NewRows
<1>2. ASSUME NEW r \in Range(new), r.t # "result"
      PROVE  r \in {new[i] : i \in K}
  BY <1>2 DEF Range, Resolved
<1> HIDE DEF K, u
<1>3. u \in Seq(Rows) /\ PartOf(u, new) /\ Range(u) = {new[i] : i \in K}
  BY <1>1, AtPositions
<1> QED
  BY <1>2, <1>3 DEF u

\* The inputs drained into a turn.
LEMMA DrainedTypes ==
  ASSUME NEW q \in Seq(Messages)
  PROVE  LET u == [i \in DOMAIN q |-> User(q[i])]
         IN /\ u \in Seq(Rows) /\ Names(u) = Range(q)
            /\ Range(u) = {User(m) : m \in Range(q)}
            /\ Once(q, Messages) => Distinct(u, {})
<1> DEFINE u == [i \in DOMAIN q |-> User(q[i])]
<1>1. Len(q) \in Nat /\ DOMAIN q = 1..Len(q) /\ \A i \in DOMAIN q : q[i] \in Messages
  BY LenProperties, ElementOfSeq
<1>2. \A i \in DOMAIN q : /\ User(q[i]) \in Rows /\ User(q[i]).t = "user"
                          /\ User(q[i]).id = q[i]
  BY <1>1, RowTypes
<1>3. u \in Seq(Rows)
  BY <1>1, <1>2, IsASeq
<1>4. Range(u) = {User(m) : m \in Range(q)}
  BY DEF Range
<1>5. Names(u) = Range(q)
  <2>1. ASSUME NEW m \in Range(q)
        PROVE  m \in Names(u)
    BY <1>2, <1>4, <2>1 DEF Names, Range
  <2>2. ASSUME NEW n \in Names(u)
        PROVE  n \in Range(q)
    BY <1>2, <1>4, <2>2 DEF Names, Range
  <2> QED
    BY <2>1, <2>2
<1>6. ASSUME Once(q, Messages)
      PROVE  Distinct(u, {})
  <2>1. ASSUME NEW i \in DOMAIN q, NEW j \in DOMAIN q, Same(u[i], u[j])
        PROVE  i = j
    BY <1>1, <1>2, <1>6, <2>1 DEF Same, Once
  <2> QED
    BY <2>1 DEF Distinct
<1> HIDE DEF u
<1> QED
  BY <1>3, <1>4, <1>5, <1>6 DEF u

-----------------------------------------------------------------------------
\* Types

\* The files and the cached session.  Up to the checkpoint the file is what is
\* in the cache, and a restart can give a number to its recovery.
FilesOK ==
  /\ main \in Sessions /\ mem \in Sessions
  /\ side \in Seq(Output) /\ stale \in BOOLEAN
  /\ named \in {"no", "exposed", "yes"}
  /\ up \in BOOLEAN
  /\ cuts \in Nat /\ cuts <= MaxCuts
  /\ main.rec.id <= cuts /\ mem.rec.id <= cuts
  /\ ~up => main.rec.id < cuts
  /\ up => mem = [main EXCEPT !.cp = mem.cp]
  /\ up /\ named # "exposed" => mem = Loaded

TurnOK ==
  /\ turn \in Turns
  /\ turn.kind = "none" <=> turn.phase = "none"
  /\ turn.began => turn.phase = "tools"
  /\ turn.phase = "tools" => turn.op \in Ops
  /\ turn.kind = "user" => turn.msg \in sent /\ mem.rec.st \notin Open
  /\ ids \in Nat

WaitOK ==
  /\ queue \in Seq(Messages)
  /\ bus \in Seq(Messages \cup (0..cuts))
  /\ ~up => turn = NoTurn /\ queue = <<>> /\ bus = <<>>

HistoryOK ==
  /\ recorded \subseteq sent /\ sent \subseteq Messages /\ dropped \subseteq Messages
  /\ last \in Seq(Output) /\ spoiled \subseteq Nat
  /\ unsure \subseteq Ops
  /\ wish \in {"no", "yes", "late"} /\ blind \in BOOLEAN

TypeInv == FilesOK /\ TurnOK /\ WaitOK /\ HistoryOK

\* The session is stored: saved, or as it was.
Stores(s) ==
  /\ mem' = s
  /\ Save(s) \/ (s = mem /\ UNCHANGED fileVars)

LEMMA SavesStore ==
  ASSUME NEW s, mem' = s, Save(s) \/ SaveIfChanged(s)
  PROVE  Stores(s)
  BY DEF Stores, SaveIfChanged

LEMMA StoresKeeps ==
  ASSUME FilesOK, up, up' = up, named' = named, NEW s \in Sessions, s.rec.id <= cuts,
         Stores(s), cuts' = cuts \/ (cuts' = cuts + 1 /\ cuts < MaxCuts)
  PROVE  FilesOK'
<1>1. cuts' \in Nat /\ cuts' <= MaxCuts /\ cuts <= cuts'
  BY TurnRecoveryAssumption DEF FilesOK
<1>2. main.rec.id \in Nat /\ mem.rec.id \in Nat /\ s.rec.id \in Nat
  BY SessionTypes DEF FilesOK
<1>3. main' \in Sessions /\ mem' \in Sessions /\ side' \in Seq(Output) /\ stale' \in BOOLEAN
  BY DEF FilesOK, Stores, Save, fileVars
<1>4. main'.rec.id <= cuts' /\ mem'.rec.id <= cuts'
  BY <1>1, <1>2 DEF FilesOK, Stores, Save, fileVars
<1>5. mem' = [main' EXCEPT !.cp = mem'.cp] /\ (named' # "exposed" => mem' = Loaded')
  <2>1. CASE Save(s)
    <3>1. main' = s /\ mem' = s /\ stale' = TRUE
      BY <2>1 DEF Stores, Save
    <3>2. s = [s EXCEPT !.cp = s.cp]
      BY DEF Sessions
    <3> QED
      BY <3>1, <3>2 DEF Loaded
  <2>2. CASE s = mem /\ UNCHANGED fileVars
    BY <2>2 DEF FilesOK, Stores, Loaded, fileVars
  <2> QED
    BY <2>1, <2>2 DEF Stores
<1> QED
  BY <1>1, <1>3, <1>4, <1>5 DEF FilesOK

LEMMA CheckpointIs ==
  ASSUME FilesOK, up, up' = up, cuts' = cuts, NEW rows \in Seq(Output), Checkpoint(rows)
  PROVE  /\ FilesOK'
         /\ mem' \in Sessions /\ mem'.rows = mem.rows /\ mem'.cp = rows /\ mem'.jrnl = mem.jrnl
         /\ mem'.rec = mem.rec
         /\ main' = main /\ Loaded' = mem' /\ last' = rows
<1>1. /\ side' = rows /\ stale' = FALSE /\ mem' = [mem EXCEPT !.cp = rows] /\ main' = main
      /\ last' = rows
      /\ named' = IF named = "exposed" THEN "yes" ELSE named
  BY DEF Checkpoint
<1>2. /\ mem' \in Sessions /\ mem'.rows = mem.rows /\ mem'.cp = rows /\ mem'.jrnl = mem.jrnl
      /\ mem'.rec = mem.rec
  BY <1>1 DEF Sessions, FilesOK
<1>3. mem' = [main EXCEPT !.cp = rows]
  <2>1. mem = [main EXCEPT !.cp = mem.cp]
    BY DEF FilesOK
  <2> QED
    BY <1>1, <2>1 DEF FilesOK, Sessions
<1>4. Loaded' = mem'
  BY <1>1, <1>3 DEF Loaded
<1>5. FilesOK'
  BY <1>1, <1>2, <1>3, <1>4 DEF FilesOK
<1> QED
  BY <1>1, <1>2, <1>4, <1>5

\* A turn, as it begins and where there is none.
LEMMA TurnTypes ==
  /\ NoTurn \in Turns /\ NoTurn.kind = "none" /\ NoTurn.phase = "none" /\ ~NoTurn.began
  /\ NoTurn.new = <<>>
  /\ \A kind \in {"user", "recovery"}, m \in Messages \cup {0} :
       LET t == Turn(kind, m)
       IN /\ t \in Turns /\ t.kind = kind /\ t.phase = "start" /\ t.msg = m /\ ~t.began
          /\ t.new = <<>>
<1>1. /\ NoTurn \in Turns /\ NoTurn.kind = "none" /\ NoTurn.phase = "none" /\ ~NoTurn.began
      /\ NoTurn.new = <<>>
  <2>1. <<>> \in Seq(Rows)
    BY EmptyIs
  <2> QED
    BY <2>1 DEF NoTurn, Turns
<1>2. ASSUME NEW kind \in {"user", "recovery"}, NEW m \in Messages \cup {0}
      PROVE  LET t == Turn(kind, m)
             IN /\ t \in Turns /\ t.kind = kind /\ t.phase = "start" /\ t.msg = m /\ ~t.began
                /\ t.new = <<>>
  <2>1. Turn(kind, m) = [NoTurn EXCEPT !.kind = kind, !.phase = "start", !.msg = m]
    BY DEF Turn
  <2> QED
    BY <1>1, <2>1 DEF Turns
<1> QED
  BY <1>1, <1>2

\* What is left of a turn that ends unfinished.
LEMMA UnfinishedTypes ==
  ASSUME TypeInv, EndsUnfinished
  PROVE  dropped' \subseteq Messages /\ unsure' \subseteq Ops
<1>1. Users(turn.new) \subseteq Messages
  BY InputNames DEF TypeInv, TurnOK, Turns
<1>2. turn.began => turn.op \in Ops
  BY DEF TypeInv, TurnOK
<1> QED
  BY <1>1, <1>2 DEF EndsUnfinished, TypeInv, HistoryOK

LEMMA BusGrows ==
  ASSUME NEW n \in Nat, NEW k \in Nat, n <= k, NEW b \in Seq(Messages \cup (0..n))
  PROVE  b \in Seq(Messages \cup (0..k))
<1>1. Messages \cup (0..n) \subseteq Messages \cup (0..k)
  OBVIOUS
<1> QED
  BY <1>1, SeqMonotonic

LEMMA QueueOnBus ==
  ASSUME NEW n \in Nat, NEW b \in Seq(Messages \cup (0..n)), NEW q \in Seq(Messages)
  PROVE  b \o q \in Seq(Messages \cup (0..n))
<1>1. q \in Seq(Messages \cup (0..n))
  BY SeqMonotonic
<1> QED
  BY <1>1, ConcatProperties

\* What is left on the bus where an input is taken.
LEMMA RestTypes ==
  ASSUME WaitOK, HistoryOK, NEW m \in Messages, Takes(m)
  PROVE  /\ up /\ Rest(m) \in Seq(Messages \cup (0..cuts))
         /\ sent' = sent \cup {m} /\ sent' \subseteq Messages
<1>1. up /\ sent' = sent \cup {m} /\ (m \in sent => bus # <<>>)
  BY DEF Takes
<1>2. Rest(m) \in Seq(Messages \cup (0..cuts))
  BY <1>1, TailIs DEF Rest, WaitOK
<1> QED
  BY <1>1, <1>2 DEF HistoryOK

-----------------------------------------------------------------------------
\* The steps keep the types: inputs

LEMMA DispatchTyped ==
  ASSUME TypeInv, NEW m \in Messages, Dispatch(m)
  PROVE  TypeInv'
<1> USE DEF TypeInv
<1> DEFINE s == Close(Restore(Admit(mem)))
<1>1. /\ Takes(m) /\ mem' = s /\ SaveIfChanged(s) /\ turn' = Turn("user", m)
      /\ queue' = <<>> /\ bus' = Rest(m) \o queue /\ wish' = "no" /\ EndsUnfinished
      /\ UNCHANGED <<up, ids, named, cuts, recorded, last, spoiled, blind>>
  BY DEF Dispatch
<1>2. /\ up /\ Rest(m) \in Seq(Messages \cup (0..cuts))
      /\ sent' = sent \cup {m} /\ sent' \subseteq Messages
  BY <1>1, RestTypes
<1>3. s \in Sessions /\ s.rec.id = mem.rec.id /\ s.rec.st \notin Open
  BY ReadyTypes, TidiedSession DEF FilesOK
<1> HIDE DEF s
<1>4. FilesOK'
  BY <1>1, <1>2, <1>3, SavesStore, StoresKeeps DEF FilesOK
<1>5. TurnOK'
  BY <1>1, <1>2, <1>3, TurnTypes DEF TurnOK
<1>6. WaitOK'
  BY <1>1, <1>2, QueueOnBus, EmptyIs DEF WaitOK, FilesOK
<1>7. HistoryOK'
  BY <1>1, <1>2, UnfinishedTypes DEF HistoryOK
<1> QED
  BY <1>4, <1>5, <1>6, <1>7

\* An input is admitted into a turn where no recovery is open.
LEMMA RouteAdmits ==
  ASSUME TypeInv, NEW m \in Messages, Route(m)
  PROVE  mem.rec.st \notin Open /\ Admit(mem) = mem
<1>1. turn.kind \in {"user", "recovery"}
  BY DEF Route, TypeInv, TurnOK, Turns
<1>2. mem.rec.st \notin Open
  BY <1>1 DEF Route, Cancelled, TypeInv, TurnOK
<1> QED
  BY <1>2, AdmitTypes DEF TypeInv, FilesOK

LEMMA RouteTyped ==
  ASSUME TypeInv, NEW m \in Messages, Route(m)
  PROVE  TypeInv'
<1> USE DEF TypeInv
<1> DEFINE s == Journal(mem, m)
<1>1. /\ Takes(m) /\ mem' = s /\ Save(s) /\ mem.rec.st \notin Open
      /\ queue' = Append(queue, m) /\ bus' = Rest(m)
      /\ wish' = IF wish = "late" THEN wish ELSE "no"
      /\ recorded' = recorded \cup {m}
      /\ UNCHANGED <<up, turn, ids, named, cuts, last, spoiled, dropped, unsure, blind>>
  BY RouteAdmits DEF Route
<1>2. /\ up /\ Rest(m) \in Seq(Messages \cup (0..cuts))
      /\ sent' = sent \cup {m} /\ sent' \subseteq Messages
  BY <1>1, RestTypes
<1>3. s \in Sessions /\ s.rec = mem.rec
  BY JournalTypes DEF FilesOK
<1> HIDE DEF s
<1>4. FilesOK'
  BY <1>1, <1>2, <1>3, SavesStore, StoresKeeps DEF FilesOK
<1>5. TurnOK'
  BY <1>1, <1>2, <1>3 DEF TurnOK
<1>6. WaitOK'
  BY <1>1, <1>2, AppendProperties DEF WaitOK
<1>7. HistoryOK'
  BY <1>1, <1>2 DEF HistoryOK
<1> QED
  BY <1>4, <1>5, <1>6, <1>7

LEMMA ResumeTyped ==
  ASSUME TypeInv, NEW r, Resume(r)
  PROVE  TypeInv'
<1> USE DEF TypeInv
<1> DEFINE s == Restore(mem)
<1>1. /\ up /\ bus # <<>> /\ mem' = s /\ SaveIfChanged(s) /\ turn' = Turn("recovery", 0)
      /\ bus' = Tail(bus)
      /\ UNCHANGED <<up, queue, ids, named, cuts, sent, recorded, last, spoiled, wish,
                     dropped, unsure, blind>>
  BY DEF Resume
<1>2. s \in Sessions /\ s.rec = mem.rec
  BY RestoreTypes, TidiedSession DEF FilesOK
<1> HIDE DEF s
<1>3. FilesOK'
  BY <1>1, <1>2, SavesStore, StoresKeeps DEF FilesOK
<1>4. TurnOK'
  BY <1>1, TurnTypes DEF TurnOK
<1>5. WaitOK'
  BY <1>1, TailIs DEF WaitOK
<1>6. HistoryOK'
  BY <1>1 DEF HistoryOK
<1> QED
  BY <1>3, <1>4, <1>5, <1>6

LEMMA SkipStaleTyped ==
  ASSUME TypeInv, NEW r, SkipStale(r)
  PROVE  TypeInv'
<1> USE DEF TypeInv
<1>1. /\ up /\ bus # <<>> /\ bus' = Tail(bus)
      /\ UNCHANGED <<fileVars, mem, up, turn, queue, ids, named, cuts, historyVars>>
  BY DEF SkipStale
<1>2. FilesOK'
  BY <1>1 DEF FilesOK, Loaded, fileVars
<1>3. TurnOK'
  BY <1>1 DEF TurnOK, historyVars
<1>4. WaitOK'
  BY <1>1, TailIs DEF WaitOK
<1>5. HistoryOK'
  BY <1>1 DEF HistoryOK, historyVars
<1> QED
  BY <1>2, <1>3, <1>4, <1>5

-----------------------------------------------------------------------------
\* The steps keep the types: the turn

LEMMA UpInTurn ==
  ASSUME TypeInv, turn.kind # "none" \/ turn.phase # "none"
  PROVE  up /\ turn.kind # "none" /\ turn.phase # "none"
  BY TurnTypes DEF TypeInv, FilesOK, TurnOK, WaitOK

\* What the turn's input does to the session.
LEMMA BeginIs ==
  ASSUME TypeInv, Begin, turn.kind = "user"
  PROVE  /\ turn.msg \in Messages /\ turn.msg \in sent /\ recorded' = recorded \cup {turn.msg}
         /\ Stores(mem')
         /\ mem' \in Sessions
         /\ mem'.rows = mem.rows \o <<User(turn.msg)>> /\ mem'.cp = mem.cp
         /\ mem'.rec = mem.rec
         /\ Range(mem'.jrnl) = Range(mem.jrnl) \ {turn.msg}
         /\ Once(mem.jrnl, Messages) => Once(mem'.jrnl, Messages)
         /\ Save(mem')
<1> DEFINE a == Ack(mem, {turn.msg})
           s == [a EXCEPT !.rows = Append(@, User(turn.msg)), !.pending = TRUE]
<1>1. mem' = s /\ Save(s) /\ recorded' = recorded \cup {turn.msg}
  BY DEF Begin
<1>2. turn.msg \in Messages /\ turn.msg \in sent
  BY DEF TypeInv, TurnOK, HistoryOK
<1>3. mem \in Sessions
  BY DEF TypeInv, FilesOK
<1>4. /\ a \in Sessions /\ a.rows = mem.rows /\ a.cp = mem.cp /\ a.rec = mem.rec
      /\ Range(a.jrnl) = Range(mem.jrnl) \ {turn.msg}
      /\ Once(mem.jrnl, Messages) => Once(a.jrnl, Messages)
  BY <1>3, AckTypes
<1> HIDE DEF a
<1>5. User(turn.msg) \in Rows /\ a.rows \in Seq(Rows)
  BY <1>2, <1>4, RowTypes, SessionTypes
<1>6. Append(a.rows, User(turn.msg)) \in Seq(Rows)
      /\ Append(a.rows, User(turn.msg)) = a.rows \o <<User(turn.msg)>>
  BY <1>5, AppendProperties, AppendIs
<1>7. /\ s \in Sessions /\ s.rows = Append(a.rows, User(turn.msg)) /\ s.cp = a.cp
      /\ s.rec = a.rec /\ s.jrnl = a.jrnl
  BY <1>4, <1>6 DEF Sessions
<1> HIDE DEF s
<1>8. Stores(mem')
  BY <1>1 DEF Stores
<1> QED
  BY <1>1, <1>2, <1>4, <1>6, <1>7, <1>8

LEMMA MarkedTypes ==
  ASSUME NEW rows \in Seq(Rows)
  PROVE  Marked(View(rows)) \in SUBSET (Ops \cup {NoOp})
<1>1. \A i \in DOMAIN rows : rows[i].op \in Ops \cup {NoOp}
  BY LenProperties, ElementOfSeq DEF Rows
<1>2. \A i \in DOMAIN rows : rows[i] \in Rows
  BY LenProperties, ElementOfSeq
<1>3. ASSUME NEW i \in DOMAIN rows
      PROVE  View(rows)[i].op \in Ops \cup {NoOp}
  <2>1. View(rows)[i] = IF rows[i].t = "lost" THEN [rows[i] EXCEPT !.op = NoOp] ELSE rows[i]
    BY DEF View
  <2>2. rows[i] \in [t : {"user", "call", "result", "lost", "answer", "notice"},
                     id : Messages \cup Nat, op : Ops \cup {NoOp}]
    BY <1>2 DEF Rows
  <2>3. [rows[i] EXCEPT !.op = NoOp].op = NoOp
    BY <2>2
  <2> QED
    BY <1>1, <2>1, <2>3
<1>4. DOMAIN View(rows) = DOMAIN rows
  BY DEF View
<1> QED
  BY <1>3, <1>4 DEF Marked, Range

LEMMA BeginTyped ==
  ASSUME TypeInv, Begin
  PROVE  TypeInv'
<1> USE DEF TypeInv
<1>1. /\ turn.phase = "start"
      /\ turn' = [turn EXCEPT !.phase = "model", !.known = Marked(View(mem.rows))]
      /\ UNCHANGED <<up, queue, bus, ids, named, cuts, sent, last, spoiled, wish,
                     dropped, unsure, blind>>
  BY DEF Begin
<1>2. up /\ turn.kind # "none"
  BY <1>1, UpInTurn
<1>3. Marked(View(mem.rows)) \in SUBSET (Ops \cup {NoOp})
  BY MarkedTypes, SessionTypes DEF FilesOK
<1>4. turn' \in Turns /\ turn'.kind = turn.kind /\ turn'.phase = "model"
      /\ turn'.began = turn.began /\ turn'.msg = turn.msg
  BY <1>1, <1>3 DEF Turns, TurnOK
<1>5. FilesOK' /\ recorded' \subseteq sent /\ mem'.rec = mem.rec
  <2>1. CASE turn.kind = "user"
    <3>1. recorded' = recorded \cup {turn.msg} /\ turn.msg \in sent
          /\ Stores(mem') /\ mem' \in Sessions /\ mem'.rec = mem.rec
      BY <2>1, BeginIs
    <3>2. FilesOK'
      BY <1>1, <1>2, <3>1, StoresKeeps DEF FilesOK
    <3> QED
      BY <3>1, <3>2 DEF HistoryOK
  <2>2. CASE turn.kind # "user"
    BY <1>1, <2>2 DEF Begin, FilesOK, HistoryOK, Loaded, fileVars
  <2> QED
    BY <2>1, <2>2
<1>6. TurnOK'
  BY <1>1, <1>2, <1>4, <1>5 DEF TurnOK
<1>7. WaitOK'
  BY <1>1, <1>2 DEF WaitOK
<1>8. HistoryOK'
  BY <1>1, <1>5 DEF HistoryOK
<1> QED
  BY <1>5, <1>6, <1>7, <1>8

\* The rows of a checkpoint, and those of the turn with it.
LEMMA CheckpointTypes ==
  ASSUME NEW n \in Nat, NEW op \in Ops
  PROVE  /\ Awaiting(n, op) \in Seq(Output) /\ Names(Awaiting(n, op)) = {n}
         /\ Distinct(Awaiting(n, op), {})
         /\ Completed(n, op) \in Seq(Output) /\ Names(Completed(n, op)) = {n}
         /\ Distinct(Completed(n, op), {})
<1> DEFINE c == Row("call", n, op)
           l == Row("lost", n, op)
           r == Row("result", n, NoOp)
<1>1. /\ c \in Output /\ c.t = "call" /\ c.id = n
      /\ l \in Output /\ l.t = "lost" /\ l.id = n
      /\ r \in Output /\ r.t = "result" /\ r.id = n
  BY RowTypes
<1>2. Awaiting(n, op) = <<c, l>> /\ Completed(n, op) = <<c, r>>
  BY DEF Awaiting, Completed
<1> HIDE DEF c, l, r
<1>3. ASSUME NEW x \in Output, NEW y \in Output, x.id = n, y.id = n, x.t = "call",
             y.t # "call", y.t # "notice"
      PROVE  /\ <<x, y>> \in Seq(Output) /\ Names(<<x, y>>) = {n} /\ Distinct(<<x, y>>, {})
  <2>1. <<x, y>> \in Seq(Output) /\ Range(<<x, y>>) = {x, y}
    BY DEF Range
  <2>2. Names(<<x, y>>) = {n}
    BY <1>3, <2>1 DEF Names
  <2>3. ASSUME NEW i \in DOMAIN <<x, y>>, NEW j \in DOMAIN <<x, y>>, i # j
        PROVE  ~Same(<<x, y>>[i], <<x, y>>[j])
    BY <1>3, <2>3 DEF Same
  <2> QED
    BY <2>1, <2>2, <2>3 DEF Distinct
<1> QED
  BY <1>1, <1>2, <1>3

LEMMA FinalTypes ==
  ASSUME NEW n \in Nat
  PROVE  /\ Final(n) \in Seq(Output) /\ Names(Final(n)) = {n} /\ Distinct(Final(n), {})
         /\ \A r \in Range(Final(n)) : r.t = "answer"
<1> DEFINE a == Row("answer", n, NoOp)
<1>1. a \in Output /\ a.t = "answer" /\ a.id = n
  BY RowTypes
<1>2. Final(n) = <<a>>
  BY DEF Final
<1> HIDE DEF a
<1>3. <<a>> \in Seq(Output) /\ Range(<<a>>) = {a} /\ Distinct(<<a>>, {})
  BY <1>1, SingleIs
<1>4. Names(<<a>>) = {n}
  BY <1>1, <1>3 DEF Names
<1> QED
  BY <1>1, <1>2, <1>3, <1>4

LEMMA CallToolTyped ==
  ASSUME TypeInv, NEW op \in Ops, CallTool(op)
  PROVE  TypeInv'
<1> USE DEF TypeInv
<1> DEFINE c == Row("call", ids', op)
<1>1. /\ turn.phase = "model" /\ ids' = ids + 1
      /\ turn' = [turn EXCEPT !.phase = "tools", !.op = op, !.began = FALSE, !.new = Append(@, c)]
      /\ Checkpoint(Awaiting(ids', op))
      /\ UNCHANGED <<up, queue, bus, cuts, sent, recorded, spoiled, wish, dropped, unsure, blind>>
  BY DEF CallTool
<1>2. up /\ turn.kind # "none"
  BY <1>1, UpInTurn
<1>3. ids' \in Nat
  BY <1>1 DEF TurnOK
<1>4. Awaiting(ids', op) \in Seq(Output) /\ c \in Rows
  BY <1>3, CheckpointTypes, RowTypes
<1> HIDE DEF c
<1>5. FilesOK' /\ mem'.rec = mem.rec /\ last' \in Seq(Output)
  BY <1>1, <1>2, <1>4, CheckpointIs
<1>6. Append(turn.new, c) \in Seq(Rows)
  BY <1>4, AppendProperties DEF TurnOK, Turns
<1>7. /\ turn' \in Turns /\ turn'.kind = turn.kind /\ turn'.phase = "tools" /\ turn'.op = op
      /\ turn'.msg = turn.msg
  BY <1>1, <1>6 DEF Turns, TurnOK
<1>8. TurnOK'
  BY <1>1, <1>2, <1>3, <1>5, <1>7 DEF TurnOK
<1>9. WaitOK' /\ HistoryOK'
  BY <1>1, <1>2, <1>5 DEF WaitOK, HistoryOK
<1> QED
  BY <1>5, <1>8, <1>9

LEMMA RunToolTyped ==
  ASSUME TypeInv, NEW approved \in BOOLEAN, RunTool(approved)
  PROVE  TypeInv'
<1> USE DEF TypeInv
<1>1. /\ turn.phase = "tools" /\ turn' = [turn EXCEPT !.began = TRUE]
      /\ UNCHANGED <<fileVars, mem, up, queue, bus, ids, named, cuts, sent, recorded, last,
                     spoiled, wish, dropped>>
  BY DEF RunTool
<1>2. up /\ turn.kind # "none"
  BY <1>1, UpInTurn
<1>3. blind' \in BOOLEAN /\ unsure' \subseteq Ops
  BY DEF RunTool, HistoryOK
<1>4. FilesOK'
  BY <1>1 DEF FilesOK, Loaded, fileVars
<1>5. TurnOK'
  <2>1. /\ turn' \in Turns /\ turn'.kind = turn.kind /\ turn'.phase = "tools"
        /\ turn'.op = turn.op /\ turn'.msg = turn.msg
    BY <1>1 DEF Turns, TurnOK
  <2> QED
    BY <1>1, <1>2, <2>1 DEF TurnOK
<1>6. WaitOK' /\ HistoryOK'
  BY <1>1, <1>2, <1>3 DEF WaitOK, HistoryOK
<1> QED
  BY <1>4, <1>5, <1>6

LEMMA ToolDoneTyped ==
  ASSUME TypeInv, ToolDone
  PROVE  TypeInv'
<1> USE DEF TypeInv
<1> DEFINE r == <<Row("result", ids, NoOp)>>
           d == [i \in DOMAIN queue |-> User(queue[i])]
           new == (turn.new \o r) \o d
<1>1. /\ turn.phase = "tools"
      /\ turn' = [turn EXCEPT !.phase = "model", !.op = NoOp, !.began = FALSE, !.new = new]
      /\ queue' = <<>> /\ Checkpoint(Completed(ids, turn.op))
      /\ UNCHANGED <<up, bus, ids, cuts, sent, recorded, spoiled, wish, dropped, unsure, blind>>
  BY DEF ToolDone
<1>2. up /\ turn.kind # "none"
  BY <1>1, UpInTurn
<1>3. Completed(ids, turn.op) \in Seq(Output)
  BY <1>1, CheckpointTypes DEF TurnOK
<1>4. new \in Seq(Rows)
  <2>1. Row("result", ids, NoOp) \in Rows
    BY RowTypes DEF TurnOK
  <2>2. r \in Seq(Rows) /\ d \in Seq(Rows)
    BY <2>1, SingleIs, DrainedTypes DEF WaitOK
  <2> HIDE DEF r, d
  <2> QED
    BY <2>2, ConcatProperties DEF TurnOK, Turns
<1> HIDE DEF new
<1>5. FilesOK' /\ mem'.rec = mem.rec /\ last' \in Seq(Output)
  BY <1>1, <1>2, <1>3, CheckpointIs
<1>6. /\ turn' \in Turns /\ turn'.kind = turn.kind /\ turn'.phase = "model"
      /\ turn'.msg = turn.msg /\ ~turn'.began
  BY <1>1, <1>4 DEF Turns, TurnOK
<1>7. TurnOK'
  BY <1>1, <1>2, <1>5, <1>6 DEF TurnOK
<1>8. WaitOK' /\ HistoryOK'
  BY <1>1, <1>2, <1>5, EmptyIs DEF WaitOK, HistoryOK
<1> QED
  BY <1>5, <1>7, <1>8

LEMMA AnswerTyped ==
  ASSUME TypeInv, Answer
  PROVE  TypeInv'
<1> USE DEF TypeInv
<1> DEFINE d == [i \in DOMAIN queue |-> User(queue[i])]
           new == (turn.new \o Final(ids')) \o d
           phase == IF queue = <<>> THEN "answered" ELSE "model"
<1>1. /\ turn.phase = "model" /\ ids' = ids + 1
      /\ turn' = [turn EXCEPT !.phase = phase, !.new = new]
      /\ queue' = <<>> /\ Checkpoint(Final(ids'))
      /\ UNCHANGED <<up, bus, cuts, sent, recorded, spoiled, wish, dropped, unsure, blind>>
  BY DEF Answer
<1>2. up /\ turn.kind # "none"
  BY <1>1, UpInTurn
<1>3. ids' \in Nat
  BY <1>1 DEF TurnOK
<1>4. Final(ids') \in Seq(Output)
  BY <1>3, FinalTypes
<1>5. new \in Seq(Rows)
  <2>1. Final(ids') \in Seq(Rows) /\ d \in Seq(Rows)
    BY <1>4, OutputIs, DrainedTypes DEF WaitOK
  <2> HIDE DEF d
  <2> QED
    BY <2>1, ConcatProperties DEF TurnOK, Turns
<1> HIDE DEF new
<1>6. FilesOK' /\ mem'.rec = mem.rec /\ last' \in Seq(Output)
  BY <1>1, <1>2, <1>4, CheckpointIs
<1>7. /\ turn' \in Turns /\ turn'.kind = turn.kind /\ turn'.phase = phase
      /\ turn'.msg = turn.msg /\ ~turn'.began
  BY <1>1, <1>5 DEF Turns, TurnOK
<1>8. TurnOK'
  BY <1>1, <1>2, <1>3, <1>6, <1>7 DEF TurnOK
<1>9. WaitOK' /\ HistoryOK'
  BY <1>1, <1>2, <1>6, EmptyIs DEF WaitOK, HistoryOK
<1> QED
  BY <1>6, <1>8, <1>9

\* What a turn that is saved does to the session.
LEMMA PersistIs ==
  ASSUME TypeInv, Persist
  PROVE  /\ up /\ Save(mem') /\ Stores(mem') /\ mem' \in Sessions
         /\ NewRows(mem.rows, turn.new) \in Seq(Rows)
         /\ mem'.rows = mem.rows \o NewRows(mem.rows, turn.new) /\ mem'.cp = <<>>
         /\ mem'.rec = mem.rec
         /\ Range(mem'.jrnl) = Range(mem.jrnl) \ Users(turn.new)
         /\ Once(mem.jrnl, Messages) => Once(mem'.jrnl, Messages)
<1> DEFINE a == Ack(mem, Users(turn.new))
           n == NewRows(mem.rows, turn.new)
           s == [a EXCEPT !.rows = @ \o NewRows(@, turn.new), !.pending = FALSE, !.cp = <<>>]
<1>1. mem' = s /\ Save(s) /\ turn.phase = "answered"
  BY DEF Persist
<1>2. mem \in Sessions /\ turn.new \in Seq(Rows) /\ up
  BY <1>1, UpInTurn DEF TypeInv, FilesOK, TurnOK, Turns
<1>3. /\ a \in Sessions /\ a.rows = mem.rows /\ a.rec = mem.rec
      /\ Range(a.jrnl) = Range(mem.jrnl) \ Users(turn.new)
      /\ Once(mem.jrnl, Messages) => Once(a.jrnl, Messages)
  BY <1>2, AckTypes
<1> HIDE DEF a
<1>4. n \in Seq(Rows) /\ mem.rows \in Seq(Rows)
  BY <1>2, NewRowsTypes, SessionTypes
<1>5. s = [a EXCEPT !.rows = mem.rows \o n, !.pending = FALSE, !.cp = <<>>]
  BY <1>3
<1> HIDE DEF n, s
<1>6. mem.rows \o n \in Seq(Rows) /\ <<>> \in Seq(Output)
  BY <1>4, ConcatProperties, EmptyIs
<1>7. /\ s \in Sessions /\ s.rows = mem.rows \o n /\ s.cp = <<>> /\ s.rec = a.rec
      /\ s.jrnl = a.jrnl
  BY <1>3, <1>5, <1>6 DEF Sessions
<1>8. Stores(mem')
  BY <1>1 DEF Stores
<1> QED
  BY <1>1, <1>2, <1>3, <1>4, <1>7, <1>8 DEF n

LEMMA PersistTyped ==
  ASSUME TypeInv, Persist
  PROVE  TypeInv'
<1> USE DEF TypeInv
<1>1. /\ turn.phase = "answered" /\ turn' = [turn EXCEPT !.phase = "saved"]
      /\ UNCHANGED <<up, queue, bus, ids, named, cuts, historyVars>>
  BY DEF Persist
<1>2. up /\ Stores(mem') /\ mem' \in Sessions /\ mem'.rec = mem.rec /\ turn.kind # "none"
  BY <1>1, PersistIs, UpInTurn
<1>3. FilesOK'
  BY <1>1, <1>2, StoresKeeps DEF FilesOK
<1>4. TurnOK'
  <2>1. /\ turn' \in Turns /\ turn'.kind = turn.kind /\ turn'.phase = "saved"
        /\ turn'.msg = turn.msg /\ turn'.began = turn.began
    BY <1>1 DEF Turns, TurnOK
  <2> QED
    BY <1>1, <1>2, <2>1 DEF TurnOK, historyVars
<1>5. WaitOK' /\ HistoryOK'
  BY <1>1, <1>2 DEF WaitOK, HistoryOK, historyVars
<1> QED
  BY <1>3, <1>4, <1>5

LEMMA EndTurnTyped ==
  ASSUME TypeInv, up, UNCHANGED <<up, ids, named, sent>>, NEW s \in Sessions,
         s.rec.id <= cuts, EndTurn(s), cuts' = cuts \/ (cuts' = cuts + 1 /\ cuts < MaxCuts)
  PROVE  FilesOK' /\ TurnOK' /\ WaitOK'
<1> USE DEF TypeInv
<1>1. mem' = s /\ SaveIfChanged(s) /\ turn' = NoTurn /\ queue' = <<>> /\ bus' = bus \o queue
  BY DEF EndTurn
<1>2. FilesOK'
  BY <1>1, SavesStore, StoresKeeps
<1>3. TurnOK'
  BY <1>1, TurnTypes DEF TurnOK
<1>4. WaitOK'
  <2>1. cuts \in Nat /\ cuts' \in Nat /\ cuts <= cuts'
    BY DEF FilesOK
  <2>2. bus \o queue \in Seq(Messages \cup (0..cuts))
    BY <2>1, QueueOnBus DEF WaitOK
  <2>3. bus' \in Seq(Messages \cup (0..cuts'))
    BY <1>1, <2>1, <2>2, BusGrows
  <2> QED
    BY <1>1, <2>3, EmptyIs DEF WaitOK
<1> QED
  BY <1>2, <1>3, <1>4

LEMMA CompleteTyped ==
  ASSUME TypeInv, Complete
  PROVE  TypeInv'
<1>1. turn.phase = "saved" /\ EndTurn(Resolve(mem)) /\ UNCHANGED <<up, ids, named, cuts, historyVars>>
  BY DEF Complete
<1>2. up /\ Resolve(mem) \in Sessions /\ Resolve(mem).rec.id <= cuts
  BY <1>1, UpInTurn, ResolveTypes, TidiedSession DEF TypeInv, FilesOK
<1>3. FilesOK' /\ TurnOK' /\ WaitOK'
  BY <1>1, <1>2, EndTurnTyped DEF historyVars
<1>4. HistoryOK'
  BY <1>1 DEF TypeInv, HistoryOK, historyVars
<1> QED
  BY <1>3, <1>4 DEF TypeInv

LEMMA FailTyped ==
  ASSUME TypeInv, Fail
  PROVE  TypeInv'
<1>1. /\ turn.phase # "none" /\ cuts < MaxCuts /\ cuts' = cuts + 1
      /\ EndTurn(Resolve(mem)) /\ EndsUnfinished
      /\ UNCHANGED <<up, ids, named, sent, recorded, last, spoiled, wish, blind>>
  BY DEF Fail
<1>2. up /\ Resolve(mem) \in Sessions /\ Resolve(mem).rec.id <= cuts
  BY <1>1, UpInTurn, ResolveTypes, TidiedSession DEF TypeInv, FilesOK
<1>3. FilesOK' /\ TurnOK' /\ WaitOK'
  BY <1>1, <1>2, EndTurnTyped
<1>4. HistoryOK'
  BY <1>1, UnfinishedTypes DEF TypeInv, HistoryOK
<1> QED
  BY <1>3, <1>4 DEF TypeInv

LEMMA StopTyped ==
  ASSUME TypeInv, Stop
  PROVE  TypeInv'
<1>1. /\ turn.kind # "none" /\ cuts < MaxCuts /\ cuts' = cuts + 1
      /\ EndTurn(Restore(mem)) /\ EndsUnfinished
      /\ UNCHANGED <<up, ids, named, sent, recorded, last, spoiled, wish, blind>>
  BY DEF Stop
<1>2. up /\ Restore(mem) \in Sessions /\ Restore(mem).rec.id <= cuts
  BY <1>1, UpInTurn, RestoreTypes, TidiedSession DEF TypeInv, FilesOK
<1>3. FilesOK' /\ TurnOK' /\ WaitOK'
  BY <1>1, <1>2, EndTurnTyped
<1>4. HistoryOK'
  BY <1>1, UnfinishedTypes DEF TypeInv, HistoryOK
<1> QED
  BY <1>3, <1>4 DEF TypeInv

-----------------------------------------------------------------------------
\* The steps keep the types: the user and the process

LEMMA ContinueIs ==
  ASSUME TypeInv, Continue
  PROVE  /\ up /\ Save(mem') /\ Stores(mem') /\ Tidied(mem, mem')
         /\ mem.rec.st = "awaiting_user" /\ mem'.rec.st = "resuming"
         /\ mem'.rows = mem.rows /\ mem'.rec.id = mem.rec.id
<1> DEFINE t == SetState(mem, "resuming")
           s == [t EXCEPT !.rec.base = Len(mem.rows)]
<1>1. up /\ mem' = s /\ Save(s) /\ mem.rec.st = "awaiting_user"
  BY DEF Continue
<1>2. mem \in Sessions
  BY DEF TypeInv, FilesOK
<1>3. /\ t \in Sessions /\ t.rows = mem.rows /\ t.cp = mem.cp /\ t.jrnl = mem.jrnl
      /\ t.rec.id = mem.rec.id /\ t.rec.st = "resuming"
  BY <1>2, SetStateTypes DEF Open
<1> HIDE DEF t
<1>4. Len(mem.rows) \in Nat
  BY <1>2, SessionTypes, LenProperties
<1>5. /\ s \in Sessions /\ s.rows = mem.rows /\ s.cp = mem.cp /\ s.jrnl = mem.jrnl
      /\ s.rec.id = mem.rec.id /\ s.rec.st = "resuming"
  BY <1>3, <1>4 DEF Sessions
<1> HIDE DEF s
<1>6. Tidied(mem, s)
  BY <1>2, <1>5, TouchedTidied
<1> QED
  BY <1>1, <1>5, <1>6 DEF Stores

LEMMA ContinueTyped ==
  ASSUME TypeInv, Continue
  PROVE  TypeInv'
<1> USE DEF TypeInv
<1>1. /\ bus' = Append(bus, mem.rec.id) /\ wish' = "yes"
      /\ UNCHANGED <<up, turn, queue, ids, named, cuts, sent, recorded, last, spoiled,
                     dropped, unsure, blind>>
  BY DEF Continue
<1>2. /\ up /\ Stores(mem') /\ mem' \in Sessions /\ mem.rec.st = "awaiting_user"
      /\ mem'.rec.id = mem.rec.id
  BY ContinueIs, TidiedSession
<1>3. FilesOK'
  BY <1>1, <1>2, StoresKeeps DEF FilesOK
<1>4. TurnOK'
  BY <1>1, <1>2 DEF TurnOK, Open
<1>5. WaitOK'
  <2>1. mem.rec.id \in 0..cuts
    BY SessionTypes DEF FilesOK
  <2>2. bus' \in Seq(Messages \cup (0..cuts))
    BY <1>1, <2>1, AppendProperties DEF WaitOK
  <2> QED
    BY <1>1, <1>2, <2>2 DEF WaitOK
<1>6. HistoryOK'
  BY <1>1 DEF HistoryOK
<1> QED
  BY <1>3, <1>4, <1>5, <1>6

LEMMA DismissIs ==
  ASSUME TypeInv, Dismiss
  PROVE  /\ up /\ Save(mem') /\ Stores(mem') /\ Tidied(mem, mem')
         /\ mem'.rec.st = "recovered" /\ mem'.rec.id = mem.rec.id
         /\ spoiled' = spoiled \cup IF turn.kind = "none" THEN {} ELSE Names(mem.cp)
         /\ spoiled' \subseteq Nat
<1> DEFINE s == SetState(Close(Restore(mem)), "recovered")
<1>1. /\ up /\ mem' = s /\ Save(s)
      /\ spoiled' = spoiled \cup IF turn.kind = "none" THEN {} ELSE {r.id : r \in Range(mem.cp)}
  BY DEF Dismiss
<1>2. mem \in Sessions
  BY DEF TypeInv, FilesOK
<1>3. Tidied(mem, s) /\ s.rec.st = "recovered" /\ s.rec.id = mem.rec.id
  BY <1>2, DismissTypes
<1> HIDE DEF s
<1>4. {r.id : r \in Range(mem.cp)} = Names(mem.cp) /\ Names(mem.cp) \subseteq Nat
  BY <1>2, SessionTypes, OutputIs
<1>5. spoiled' \subseteq Nat
  BY <1>1, <1>4 DEF TypeInv, HistoryOK
<1> QED
  BY <1>1, <1>3, <1>4, <1>5 DEF Stores

LEMMA DismissTyped ==
  ASSUME TypeInv, Dismiss
  PROVE  TypeInv'
<1> USE DEF TypeInv
<1>1. /\ wish' = IF turn.kind = "recovery" THEN "late" ELSE "no"
      /\ UNCHANGED <<up, turn, queue, bus, ids, named, cuts, sent, recorded, last,
                     dropped, unsure, blind>>
  BY DEF Dismiss
<1>2. /\ up /\ Stores(mem') /\ mem' \in Sessions /\ mem'.rec.st = "recovered"
      /\ mem'.rec.id = mem.rec.id /\ spoiled' \subseteq Nat
  BY DismissIs, TidiedSession
<1>3. FilesOK'
  BY <1>1, <1>2, StoresKeeps DEF FilesOK
<1>4. TurnOK'
  BY <1>1, <1>2 DEF TurnOK, Open
<1>5. WaitOK'
  BY <1>1, <1>2 DEF WaitOK
<1>6. HistoryOK'
  BY <1>1, <1>2 DEF HistoryOK
<1> QED
  BY <1>3, <1>4, <1>5, <1>6

LEMMA UpdateMetadataTyped ==
  ASSUME TypeInv, UpdateMetadata
  PROVE  TypeInv'
<1>1. /\ up /\ named' = "exposed" /\ stale' = TRUE
      /\ UNCHANGED <<main, side, mem, up, turn, queue, bus, ids, cuts, historyVars>>
  BY DEF UpdateMetadata
<1>2. FilesOK'
  BY <1>1 DEF TypeInv, FilesOK
<1>3. TurnOK' /\ WaitOK' /\ HistoryOK'
  BY <1>1 DEF TypeInv, TurnOK, WaitOK, HistoryOK, historyVars
<1> QED
  BY <1>2, <1>3 DEF TypeInv

LEMMA NoSessionTypes ==
  /\ NoSession \in Sessions /\ NoSession.rows = <<>> /\ NoSession.cp = <<>>
  /\ NoSession.jrnl = <<>> /\ NoSession.rec.id = 0 /\ NoSession.rec.st = "none"
<1>1. <<>> \in Seq(Rows) /\ <<>> \in Seq(Output) /\ <<>> \in Seq(Messages)
  BY EmptyIs
<1> QED
  BY <1>1 DEF NoSession, Sessions

LEMMA CrashTyped ==
  ASSUME TypeInv, Crash
  PROVE  TypeInv'
<1> USE DEF TypeInv
<1>1. /\ up /\ cuts < MaxCuts /\ cuts' = cuts + 1 /\ up' = FALSE
      /\ turn' = NoTurn /\ queue' = <<>> /\ bus' = <<>> /\ mem' = NoSession
      /\ dropped' = {} /\ unsure' = unsure \cup IF turn.began THEN {turn.op} ELSE {}
      /\ UNCHANGED <<fileVars, ids, named, sent, recorded, last, spoiled, wish, blind>>
  BY DEF Crash
<1>2. cuts' \in Nat /\ cuts' <= MaxCuts /\ cuts < cuts'
  BY <1>1, TurnRecoveryAssumption DEF FilesOK
<1>3. FilesOK'
  <2>1. main.rec.id \in Nat
    BY SessionTypes DEF FilesOK
  <2>2. main'.rec.id < cuts' /\ mem'.rec.id <= cuts'
    BY <1>1, <1>2, <2>1, NoSessionTypes DEF FilesOK, fileVars
  <2>3. main'.rec.id <= cuts'
    BY <1>1, <1>2, <2>1 DEF FilesOK, fileVars
  <2>4. main' \in Sessions /\ mem' \in Sessions /\ side' \in Seq(Output) /\ stale' \in BOOLEAN
    BY <1>1, NoSessionTypes DEF FilesOK, fileVars
  <2> QED
    BY <1>1, <1>2, <2>2, <2>3, <2>4 DEF FilesOK
<1>4. TurnOK'
  BY <1>1, TurnTypes DEF TurnOK
<1>5. WaitOK'
  BY <1>1, EmptyIs DEF WaitOK
<1>6. HistoryOK'
  BY <1>1 DEF HistoryOK, TurnOK
<1> QED
  BY <1>3, <1>4, <1>5, <1>6

LEMMA LoadedTypes ==
  ASSUME FilesOK
  PROVE  /\ Loaded \in Sessions /\ Loaded.rows = main.rows /\ Loaded.jrnl = main.jrnl
         /\ Loaded.rec = main.rec
<1>1. CASE stale
  BY <1>1 DEF Loaded, FilesOK
<1>2. CASE ~stale
  BY <1>2 DEF Loaded, FilesOK, Sessions
<1> QED
  BY <1>1, <1>2

LEMMA RestartIs ==
  ASSUME TypeInv, NEW unfinished, Restart(unfinished)
  PROVE  /\ ~up /\ up' = TRUE /\ Tidied(Loaded, mem')
         /\ mem'.rec.id <= cuts /\ mem'.rec.st # "resuming" /\ bus' = mem'.jrnl
         /\ Save(mem') \/ (mem' = Loaded /\ UNCHANGED fileVars)
         /\ UNCHANGED <<turn, queue, ids, named, cuts, historyVars>>
<1> DEFINE r == Recover(Loaded, unfinished)
           s == IF unfinished \/ NeedsRecovery(main) THEN r ELSE Loaded
<1>1. /\ ~up /\ up' = TRUE /\ mem' = s /\ bus' = s.jrnl
      /\ IF s = Loaded THEN UNCHANGED fileVars ELSE Save(s)
      /\ UNCHANGED <<turn, queue, ids, named, cuts, historyVars>>
  BY DEF Restart
<1>2. Loaded \in Sessions /\ Loaded.rec = main.rec
  BY LoadedTypes DEF TypeInv
<1>3. /\ Tidied(Loaded, s) /\ s.rec.id \in {main.rec.id, main.rec.id + 1}
      /\ s.rec.st # "resuming"
  <2>1. CASE s = r
    BY <1>2, <2>1, RecoverTypes
  <2>2. CASE s = Loaded /\ ~NeedsRecovery(main)
    <3>1. Tidied(Loaded, Loaded)
      BY <1>2, TidiedItself
    <3>2. main.rec.st # "resuming"
      BY <2>2 DEF NeedsRecovery, Open
    <3> QED
      BY <1>2, <2>2, <3>1, <3>2
  <2> QED
    BY <2>1, <2>2
<1> HIDE DEF s, r
<1>4. main.rec.id \in Nat /\ main.rec.id < cuts /\ cuts \in Nat
  BY <1>1, SessionTypes DEF TypeInv, FilesOK
<1>5. s.rec.id <= cuts
  BY <1>3, <1>4
<1> QED
  BY <1>1, <1>3, <1>5

LEMMA RestartTyped ==
  ASSUME TypeInv, NEW unfinished, Restart(unfinished)
  PROVE  TypeInv'
<1> USE DEF TypeInv
<1>1. /\ ~up /\ up' = TRUE /\ Tidied(Loaded, mem')
      /\ mem'.rec.id <= cuts /\ bus' = mem'.jrnl
      /\ Save(mem') \/ (mem' = Loaded /\ UNCHANGED fileVars)
      /\ UNCHANGED <<turn, queue, ids, named, cuts, historyVars>>
  BY RestartIs
<1>2. mem' \in Sessions /\ main \in Sessions
  BY <1>1, TidiedSession DEF FilesOK
<1>3. FilesOK'
  <2>1. CASE Save(mem')
    <3>1. main' = mem' /\ stale' = TRUE /\ side' = side
      BY <2>1 DEF Save
    <3>2. mem' = [mem' EXCEPT !.cp = mem'.cp]
      BY <1>2 DEF Sessions
    <3> QED
      BY <1>1, <1>2, <3>1, <3>2 DEF FilesOK, Loaded
  <2>2. CASE mem' = Loaded /\ UNCHANGED fileVars
    <3>1. Loaded = [main EXCEPT !.cp = Loaded.cp]
      BY <1>2 DEF Loaded, Sessions
    <3> QED
      BY <1>1, <1>2, <2>2, <3>1 DEF FilesOK, Loaded, fileVars
  <2> QED
    BY <1>1, <2>1, <2>2
<1>4. TurnOK'
  BY <1>1, TurnTypes DEF TurnOK, WaitOK, historyVars
<1>5. WaitOK'
  <2>1. mem'.jrnl \in Seq(Messages)
    BY <1>2, SessionTypes
  <2>2. bus' \in Seq(Messages \cup (0..cuts))
    BY <1>1, <2>1, SeqMonotonic
  <2> QED
    BY <1>1, <2>2 DEF WaitOK
<1>6. HistoryOK'
  BY <1>1 DEF HistoryOK, historyVars
<1> QED
  BY <1>3, <1>4, <1>5, <1>6

LEMMA TypeInvInit == Init => TypeInv
<1> SUFFICES ASSUME Init
             PROVE  TypeInv
  OBVIOUS
<1>1. /\ main = NoSession /\ mem = NoSession /\ side = <<>> /\ stale = TRUE /\ up = TRUE
      /\ turn = NoTurn /\ queue = <<>> /\ bus = <<>> /\ ids = 0 /\ cuts = 0 /\ named = "no"
      /\ sent = {} /\ recorded = {} /\ last = <<>> /\ spoiled = {} /\ wish = "no"
      /\ dropped = {} /\ unsure = {} /\ blind = FALSE
  BY DEF Init
<1>2. NoSession = [NoSession EXCEPT !.cp = NoSession.cp]
  BY NoSessionTypes DEF Sessions
<1>3. FilesOK
  BY <1>1, <1>2, NoSessionTypes, EmptyIs, TurnRecoveryAssumption DEF FilesOK, Loaded
<1>4. TurnOK
  BY <1>1, TurnTypes DEF TurnOK
<1>5. WaitOK /\ HistoryOK
  BY <1>1, EmptyIs DEF WaitOK, HistoryOK
<1> QED
  BY <1>3, <1>4, <1>5 DEF TypeInv

LEMMA TypeInvNext == TypeInv /\ [Next]_vars => TypeInv'
<1> SUFFICES ASSUME TypeInv, [Next]_vars
             PROVE  TypeInv'
  OBVIOUS
<1>1. CASE UNCHANGED vars
  BY <1>1 DEF TypeInv, FilesOK, TurnOK, WaitOK, HistoryOK, Loaded, vars, fileVars, historyVars
<1>2. CASE Arrive \/ Receive
  <2>1. \A m \in sent : m \in Messages
    BY DEF TypeInv, HistoryOK
  <2> QED
    BY <1>2, <2>1, DispatchTyped, RouteTyped, ResumeTyped, SkipStaleTyped DEF Arrive, Receive
<1>3. CASE Run
  BY <1>3, BeginTyped, ToolDoneTyped, AnswerTyped, PersistTyped, CompleteTyped, CallToolTyped,
     RunToolTyped DEF Run
<1>4. CASE Boot \/ Fail \/ Stop
  BY <1>4, RestartTyped, FailTyped, StopTyped DEF Boot
<1>5. CASE Continue \/ Dismiss \/ UpdateMetadata \/ Crash
  BY <1>5, ContinueTyped, DismissTyped, UpdateMetadataTyped, CrashTyped
<1> QED
  BY <1>1, <1>2, <1>3, <1>4, <1>5 DEF Next

\* Every session has its shape, on disk and in the cache, a recovery is numbered
\* by the restarts there were, and what a checkpoint has is output.
THEOREM TypesHold == Spec => []TypeOK
<1>1. TypeInv => TypeOK
  BY DEF TypeInv, FilesOK, TurnOK, WaitOK, HistoryOK, TypeOK
<1> QED
  BY <1>1, TypeInvInit, TypeInvNext, PTL DEF Spec

-----------------------------------------------------------------------------
\* What the files and the turn hold

\* The names there are: inputs that were taken, and numbers that were given.
Known == sent \cup (1..ids)

SessionsSound ==
  Sound(mem, Known, spoiled) /\ Sound(main, Known, spoiled) /\ Sound(Loaded, Known, spoiled)

RecordedKept == recorded \subseteq Names(main.rows) \cup Range(main.jrnl)

\* The rows of a turn are new to the session until they are saved.  While a call
\* is made it has no result, and an answer is the last checkpoint.
TurnSound ==
  /\ turn.phase \in {"none", "start"} => turn.new = <<>>
  /\ Distinct(turn.new, {})
  /\ Names(turn.new) \subseteq Known
  /\ turn.phase # "saved" => Names(turn.new) \cap Names(mem.rows) \subseteq spoiled
  /\ turn.phase = "tools" =>
       /\ ids \in Names(turn.new)
       /\ \A r \in Range(turn.new) : r.id = ids => r.t = "call"
  /\ turn.phase = "answered" =>
       Range(last) \subseteq Range(turn.new) /\ \A r \in Range(last) : r.t = "answer"

\* An input that waits, on the bus, in the queue or for its turn to begin, waits
\* in one place, and is not in the history yet.
Starting == IF turn.phase = "start" /\ turn.kind = "user" THEN {turn.msg} ELSE {}

BusInputs == Range(bus) \cap Messages

Places ==
  /\ Once(bus, Messages) /\ Once(queue, Messages)
  /\ BusInputs \cup Range(queue) \cup Starting \subseteq sent
  /\ BusInputs \cap Range(queue) = {}
  /\ BusInputs \cap Starting = {}
  /\ Range(queue) \cap Starting = {}
  /\ (BusInputs \cup Range(queue)) \cap Names(turn.new) = {}
  /\ (BusInputs \cup Range(queue) \cup Starting) \cap Names(mem.rows) = {}

KeepInv ==
  /\ SessionsSound /\ RecordedKept /\ LastCheckpointKept
  /\ TurnSound
  /\ Places

\* Names are only added.
Grow == sent \subseteq sent' /\ 1..ids \subseteq 1..ids' /\ spoiled \subseteq spoiled'

LEMMA SoundGrows ==
  ASSUME NEW s, NEW M, NEW N, NEW X, NEW Y, Sound(s, M, X), M \subseteq N, X \subseteq Y
  PROVE  Sound(s, N, Y)
  BY DEF Sound, Distinct

LEMMA StoredSound ==
  ASSUME SessionsSound, Grow, NEW s, Stores(s), Sound(s, Known', spoiled')
  PROVE  SessionsSound'
<1>1. Known \subseteq Known' /\ spoiled \subseteq spoiled'
  BY DEF Known, Grow
<1>2. /\ Sound(mem, Known', spoiled') /\ Sound(main, Known', spoiled')
      /\ Sound(Loaded, Known', spoiled')
  BY <1>1, SoundGrows DEF SessionsSound
<1>3. CASE Save(s)
  <2>1. mem' = s /\ main' = s /\ Loaded' = s
    BY <1>3 DEF Stores, Save, Loaded
  <2> QED
    BY <2>1 DEF SessionsSound
<1>4. CASE s = mem /\ UNCHANGED fileVars
  <2>1. mem' = s /\ main' = main /\ Loaded' = Loaded
    BY <1>4 DEF Stores, fileVars, Loaded
  <2> QED
    BY <1>2, <2>1 DEF SessionsSound
<1> QED
  BY <1>3, <1>4 DEF Stores

\* Nothing is read or written.
LEMMA UnchangedSound ==
  ASSUME SessionsSound, Grow, UNCHANGED <<mem, fileVars>>
  PROVE  SessionsSound'
<1>1. Known \subseteq Known' /\ spoiled \subseteq spoiled'
  BY DEF Known, Grow
<1>2. mem' = mem /\ main' = main /\ Loaded' = Loaded
  BY DEF fileVars, Loaded
<1> QED
  BY <1>1, <1>2, SoundGrows DEF SessionsSound

\* The cached session has the rows and the journal of its file.
LEMMA CachedIs ==
  ASSUME FilesOK, up
  PROVE  mem.rows = main.rows /\ mem.jrnl = main.jrnl
  BY DEF FilesOK, Sessions

\* A session that is tidied and stored.
LEMMA TidiedKeeps ==
  ASSUME TypeInv, KeepInv, up, Grow, UNCHANGED <<recorded, last, named>>,
         NEW s, Tidied(mem, s), Stores(s)
  PROVE  SessionsSound' /\ RecordedKept' /\ LastCheckpointKept'
<1>1. Known \subseteq Known' /\ spoiled \subseteq spoiled'
  BY DEF Known, Grow
<1>2. Sound(s, Known', spoiled')
  BY <1>1, SoundGrows DEF KeepInv, SessionsSound, Tidied
<1>3. SessionsSound'
  BY <1>2, StoredSound DEF KeepInv
<1>4. CASE Save(s)
  <2>1. main' = s /\ Loaded' = s
    BY <1>4 DEF Save, Loaded
  <2>2. /\ Range(mem.rows) \subseteq Range(s.rows) /\ s.jrnl = mem.jrnl
        /\ Range(mem.cp) \subseteq Range(s.rows) \cup Range(s.cp)
    BY DEF Tidied
  <2>3. Names(mem.rows) \subseteq Names(s.rows)
    BY <2>2 DEF Names
  <2>4. RecordedKept'
    BY <2>1, <2>2, <2>3, CachedIs DEF RecordedKept, KeepInv, TypeInv
  <2>5. ASSUME named # "exposed"
        PROVE  Range(last) \subseteq Range(s.rows) \cup Range(s.cp)
    <3>1. mem = Loaded
      BY <2>5 DEF TypeInv, FilesOK
    <3> QED
      BY <2>2, <2>5, <3>1 DEF KeepInv, LastCheckpointKept
  <2>6. LastCheckpointKept'
    BY <2>1, <2>5 DEF LastCheckpointKept
  <2> QED
    BY <1>3, <2>4, <2>6
<1>5. CASE UNCHANGED fileVars
  <2>1. main' = main /\ Loaded' = Loaded
    BY <1>5 DEF fileVars, Loaded
  <2> QED
    BY <1>3, <2>1 DEF KeepInv, RecordedKept, LastCheckpointKept
<1> QED
  BY <1>4, <1>5 DEF Stores

\* The rows it gains are those of a checkpoint.
LEMMA TidiedInputs ==
  ASSUME NEW s \in Sessions, NEW t, Tidied(s, t)
  PROVE  Names(t.rows) \cap Messages \subseteq Names(s.rows)
<1>1. Names(s.cp) \subseteq Nat
  BY SessionTypes, OutputIs
<1>2. Names(t.rows) \subseteq Names(s.rows) \cup Names(s.cp)
  BY DEF Tidied
<1> QED
  BY <1>1, <1>2, TurnRecoveryAssumption

\* The turn goes on, ...
LEMMA TurnStays ==
  ASSUME TurnSound, Grow, UNCHANGED <<turn, ids, last>>,
         Names(turn.new) \cap Names(mem'.rows) \subseteq Names(mem.rows) \cup spoiled'
  PROVE  TurnSound'
<1>1. Known \subseteq Known' /\ spoiled \subseteq spoiled'
  BY DEF Known, Grow
<1>2. turn.phase # "saved" => Names(turn.new) \cap Names(mem'.rows) \subseteq spoiled'
  BY <1>1 DEF TurnSound
<1> QED
  BY <1>1, <1>2 DEF TurnSound

\* ... or ends, or begins.
LEMMA TurnIsNew ==
  ASSUME turn'.new = <<>>, turn'.phase \in {"none", "start"}
  PROVE  TurnSound'
  BY EmptyIs, EmptyDistinct DEF TurnSound

LEMMA PlacesStay ==
  ASSUME Places, Grow, UNCHANGED <<bus, queue, turn>>,
         Names(mem'.rows) \cap sent \subseteq Names(mem.rows)
  PROVE  Places'
<1>1. BusInputs' = BusInputs /\ Starting' = Starting
  BY DEF BusInputs, Starting
<1> QED
  BY <1>1 DEF Places, Grow

LEMMA SeqRange == ASSUME NEW S, NEW s \in Seq(S) PROVE Range(s) \subseteq S
  BY LenProperties, ElementOfSeq DEF Range

\* The input that is taken is in no other place.
LEMMA TakenIs ==
  ASSUME TypeInv, KeepInv, NEW m \in Messages, Takes(m)
  PROVE  /\ Rest(m) \in Seq(Messages \cup (0..cuts))
         /\ Once(Rest(m), Messages)
         /\ Range(Rest(m)) \subseteq Range(bus) /\ m \notin Range(Rest(m))
         /\ m \notin Range(queue) \cup Starting \cup Names(turn.new) \cup Names(mem.rows)
         /\ sent' = sent \cup {m}
<1>1. sent' = sent \cup {m} /\ (m \in sent => bus # <<>> /\ Head(bus) = m)
  BY DEF Takes
<1>2. bus \in Seq(Messages \cup (0..cuts))
  BY DEF TypeInv, WaitOK
<1>3. CASE m \in sent
  <2>1. Rest(m) = Tail(bus)
    BY <1>3 DEF Rest
  <2>2. /\ Tail(bus) \in Seq(Messages \cup (0..cuts)) /\ PartOf(Tail(bus), bus)
        /\ m \in Range(bus) /\ m \notin Range(Tail(bus))
    BY <1>1, <1>2, <1>3, TailIs DEF KeepInv, Places
  <2>3. Range(Tail(bus)) \subseteq Range(bus) /\ Once(Tail(bus), Messages)
    BY <2>2, PartIs DEF KeepInv, Places
  <2>4. m \in BusInputs
    BY <2>2 DEF BusInputs
  <2> QED
    BY <1>1, <2>1, <2>2, <2>3, <2>4 DEF KeepInv, Places
<1>4. CASE m \notin sent
  <2>1. Rest(m) = bus
    BY <1>4 DEF Rest
  <2>2. m \notin BusInputs \cup Range(queue) \cup Starting
    BY <1>4 DEF KeepInv, Places
  <2>3. m \notin Known
    BY <1>4, TurnRecoveryAssumption DEF Known
  <2>4. m \notin Names(turn.new) \cup Names(mem.rows)
    BY <2>3 DEF KeepInv, TurnSound, SessionsSound, Sound
  <2>5. m \notin Range(bus)
    BY <2>2 DEF BusInputs
  <2> QED
    BY <1>1, <1>2, <2>1, <2>2, <2>4, <2>5 DEF KeepInv, Places
<1> QED
  BY <1>3, <1>4

-----------------------------------------------------------------------------
\* The steps keep it: inputs

LEMMA DispatchKeeps ==
  ASSUME TypeInv, KeepInv, NEW m \in Messages, Dispatch(m)
  PROVE  KeepInv'
<1> DEFINE s == Close(Restore(Admit(mem)))
<1>1. /\ Takes(m) /\ mem' = s /\ SaveIfChanged(s) /\ turn' = Turn("user", m)
      /\ queue' = <<>> /\ bus' = Rest(m) \o queue
      /\ UNCHANGED <<up, ids, named, recorded, last, spoiled>>
  BY DEF Dispatch
<1>2. mem \in Sessions
  BY DEF TypeInv, FilesOK
<1>3. Tidied(mem, s)
  BY <1>2, ReadyTypes
<1> HIDE DEF s
<1>4. up /\ Stores(s)
  BY <1>1, SavesStore DEF Takes
<1>5. /\ Rest(m) \in Seq(Messages \cup (0..cuts)) /\ Once(Rest(m), Messages)
      /\ Range(Rest(m)) \subseteq Range(bus) /\ m \notin Range(Rest(m))
      /\ m \notin Range(queue) \cup Starting \cup Names(turn.new) \cup Names(mem.rows)
      /\ sent' = sent \cup {m}
  BY <1>1, TakenIs
<1>6. Grow
  BY <1>1, <1>5 DEF Grow
<1>7. SessionsSound' /\ RecordedKept' /\ LastCheckpointKept'
  BY <1>1, <1>3, <1>4, <1>6, TidiedKeeps
<1>8. turn'.new = <<>> /\ turn'.phase = "start" /\ turn'.kind = "user" /\ turn'.msg = m
  BY <1>1, TurnTypes
<1>9. TurnSound'
  BY <1>8, TurnIsNew
<1>10. Places'
  <2>1. Starting' = {m} /\ Range(queue') = {} /\ Names(turn'.new) = {} /\ Once(queue', Messages)
    BY <1>1, <1>8, EmptyIs, EmptyDistinct DEF Starting
  <2>2. queue \in Seq(Messages \cup (0..cuts)) /\ Range(queue) \subseteq Messages
    BY SeqMonotonic, SeqRange DEF TypeInv, WaitOK
  <2>3. /\ BusInputs \cap Range(queue) = {} /\ Once(queue, Messages)
        /\ BusInputs \cup Range(queue) \subseteq sent
        /\ (BusInputs \cup Range(queue)) \cap Names(mem.rows) = {}
    BY DEF KeepInv, Places
  <2>4. /\ Range(bus') = Range(Rest(m)) \cup Range(queue)
        /\ Once(bus', Messages)
    <3>1. Range(Rest(m)) \cap Range(queue) \cap Messages = {}
      BY <1>5, <2>3 DEF BusInputs
    <3> QED
      BY <1>1, <1>5, <2>2, <2>3, <3>1, ConcatIs
  <2>5. BusInputs' \subseteq BusInputs \cup Range(queue) /\ m \notin BusInputs'
    BY <1>5, <2>4 DEF BusInputs
  <2>6. BusInputs' \subseteq Messages
    BY DEF BusInputs
  <2>7. Names(mem'.rows) \cap Messages \subseteq Names(mem.rows)
    BY <1>1, <1>2, <1>3, TidiedInputs
  <2> QED
    BY <1>5, <2>1, <2>3, <2>4, <2>5, <2>6, <2>7 DEF Places
<1> QED
  BY <1>7, <1>9, <1>10 DEF KeepInv

LEMMA RouteKeeps ==
  ASSUME TypeInv, KeepInv, NEW m \in Messages, Route(m)
  PROVE  KeepInv'
<1> DEFINE s == Journal(mem, m)
<1>1. /\ Takes(m) /\ mem' = s /\ Save(s)
      /\ queue' = Append(queue, m) /\ bus' = Rest(m)
      /\ recorded' = recorded \cup {m}
      /\ UNCHANGED <<up, turn, ids, named, last, spoiled>>
  BY RouteAdmits DEF Route
<1>2. mem \in Sessions
  BY DEF TypeInv, FilesOK
<1>3. /\ s.rows = mem.rows /\ s.cp = mem.cp /\ Range(s.jrnl) = Range(mem.jrnl) \cup {m}
      /\ Once(mem.jrnl, Messages) => Once(s.jrnl, Messages)
  BY <1>2, JournalTypes
<1> HIDE DEF s
<1>4. up /\ Stores(s)
  BY <1>1 DEF Takes, Stores
<1>5. /\ Rest(m) \in Seq(Messages \cup (0..cuts)) /\ Once(Rest(m), Messages)
      /\ Range(Rest(m)) \subseteq Range(bus) /\ m \notin Range(Rest(m))
      /\ m \notin Range(queue) \cup Starting \cup Names(turn.new) \cup Names(mem.rows)
      /\ sent' = sent \cup {m}
  BY <1>1, TakenIs
<1>6. Grow
  BY <1>1, <1>5 DEF Grow
<1>7. SessionsSound'
  <2>1. Sound(mem, Known', spoiled') /\ m \in Known'
    BY <1>5, <1>6, SoundGrows DEF KeepInv, SessionsSound, Known, Grow
  <2>2. Sound(s, Known', spoiled')
    BY <1>3, <1>5, <2>1 DEF Sound
  <2> QED
    BY <1>4, <1>6, <2>2, StoredSound DEF KeepInv
<1>8. main' = s /\ Loaded' = s
  BY <1>1 DEF Save, Loaded
<1>9. RecordedKept'
  BY <1>1, <1>3, <1>4, <1>8, CachedIs DEF RecordedKept, KeepInv, TypeInv
<1>10. LastCheckpointKept'
  BY <1>1, <1>3, <1>4, <1>8 DEF LastCheckpointKept, KeepInv, TypeInv, FilesOK
<1>11. TurnSound'
  BY <1>1, <1>3, <1>6, TurnStays DEF KeepInv
<1>12. Places'
  <2>1. Starting' = Starting
    BY <1>1 DEF Starting
  <2>2. queue \in Seq(Messages)
    BY DEF TypeInv, WaitOK
  <2>3. Range(queue') = Range(queue) \cup {m} /\ Once(queue', Messages)
    <3> DEFINE n == <<m>>
    <3>1. n \in Seq(Messages) /\ Range(n) = {m} /\ Once(n, Messages)
      BY SingleIs
    <3>2. queue' = queue \o n
      BY <1>1, <2>2, AppendIs
    <3> HIDE DEF n
    <3>3. Range(queue) \cap Range(n) \cap Messages = {}
      BY <1>5, <3>1
    <3> QED
      BY <2>2, <3>1, <3>2, <3>3, ConcatIs DEF KeepInv, Places
  <2>4. BusInputs' \subseteq BusInputs /\ m \notin BusInputs'
    BY <1>1, <1>5 DEF BusInputs
  <2> QED
    BY <1>1, <1>3, <1>5, <2>1, <2>3, <2>4 DEF KeepInv, Places
<1> QED
  BY <1>7, <1>9, <1>10, <1>11, <1>12 DEF KeepInv

\* What is behind a continuation on the bus.
LEMMA TailPlaces ==
  ASSUME WaitOK, Places, bus # <<>>, bus' = Tail(bus)
  PROVE  Once(bus', Messages) /\ BusInputs' \subseteq BusInputs
<1>1. PartOf(Tail(bus), bus)
  BY TailIs DEF WaitOK
<1>2. Range(Tail(bus)) \subseteq Range(bus) /\ Once(Tail(bus), Messages)
  BY <1>1, PartIs DEF Places
<1> QED
  BY <1>2 DEF BusInputs

LEMMA ResumeKeeps ==
  ASSUME TypeInv, KeepInv, NEW r, Resume(r)
  PROVE  KeepInv'
<1> DEFINE s == Restore(mem)
<1>1. /\ up /\ bus # <<>> /\ mem' = s /\ SaveIfChanged(s) /\ turn' = Turn("recovery", 0)
      /\ bus' = Tail(bus)
      /\ UNCHANGED <<up, queue, ids, named, sent, recorded, last, spoiled>>
  BY DEF Resume
<1>2. mem \in Sessions
  BY DEF TypeInv, FilesOK
<1>3. Tidied(mem, s)
  BY <1>2, RestoreTypes
<1> HIDE DEF s
<1>4. Stores(s) /\ Grow
  BY <1>1, SavesStore DEF Grow
<1>5. SessionsSound' /\ RecordedKept' /\ LastCheckpointKept'
  BY <1>1, <1>3, <1>4, TidiedKeeps
<1>6. turn'.new = <<>> /\ turn'.phase = "start" /\ turn'.kind = "recovery"
  BY <1>1, TurnTypes
<1>7. TurnSound'
  BY <1>6, TurnIsNew
<1>8. Places'
  <2>1. Starting' = {} /\ Names(turn'.new) = {}
    BY <1>6, EmptyIs DEF Starting
  <2>2. Once(bus', Messages) /\ BusInputs' \subseteq BusInputs
    BY <1>1, TailPlaces DEF TypeInv, KeepInv
  <2>3. Names(mem'.rows) \cap Messages \subseteq Names(mem.rows)
    BY <1>1, <1>2, <1>3, TidiedInputs
  <2>4. BusInputs' \cup Range(queue') \subseteq Messages
    BY <1>1, SeqRange DEF BusInputs, TypeInv, WaitOK
  <2> QED
    BY <1>1, <2>1, <2>2, <2>3, <2>4 DEF KeepInv, Places
<1> QED
  BY <1>5, <1>7, <1>8 DEF KeepInv

LEMMA SkipStaleKeeps ==
  ASSUME TypeInv, KeepInv, NEW r, SkipStale(r)
  PROVE  KeepInv'
<1>1. /\ bus # <<>> /\ bus' = Tail(bus)
      /\ UNCHANGED <<fileVars, mem, up, turn, queue, ids, named, cuts, historyVars>>
  BY DEF SkipStale
<1>2. Grow
  BY <1>1 DEF Grow, historyVars
<1>3. SessionsSound'
  BY <1>1, <1>2, UnchangedSound DEF KeepInv
<1>4. RecordedKept' /\ LastCheckpointKept'
  BY <1>1 DEF KeepInv, RecordedKept, LastCheckpointKept, Loaded, fileVars, historyVars
<1>5. TurnSound'
  BY <1>1, <1>2, TurnStays DEF KeepInv, historyVars
<1>6. Places'
  <2>1. Starting' = Starting
    BY <1>1 DEF Starting
  <2>2. Once(bus', Messages) /\ BusInputs' \subseteq BusInputs
    BY <1>1, TailPlaces DEF TypeInv, KeepInv
  <2> QED
    BY <1>1, <2>1, <2>2 DEF KeepInv, Places, historyVars
<1> QED
  BY <1>3, <1>4, <1>5, <1>6 DEF KeepInv

-----------------------------------------------------------------------------
\* The steps keep it: the turn

LEMMA BeginKeeps ==
  ASSUME TypeInv, KeepInv, Begin
  PROVE  KeepInv'
<1>1. /\ turn.phase = "start"
      /\ turn' = [turn EXCEPT !.phase = "model", !.known = Marked(View(mem.rows))]
      /\ UNCHANGED <<up, queue, bus, ids, named, sent, last, spoiled>>
  BY DEF Begin
<1>2. up /\ Grow
  BY <1>1, UpInTurn DEF Grow
<1>3. turn'.phase = "model" /\ turn'.new = <<>>
  BY <1>1 DEF TypeInv, TurnOK, Turns, KeepInv, TurnSound
<1>4. Starting' = {} /\ BusInputs' = BusInputs
  BY <1>1, <1>3 DEF Starting, BusInputs
<1>5. TurnSound'
  BY <1>3, EmptyIs, EmptyDistinct DEF TurnSound
<1>6. CASE turn.kind = "user"
  <2> DEFINE m == turn.msg
             n == <<User(m)>>
  <2>1. /\ m \in Messages /\ m \in sent /\ recorded' = recorded \cup {m}
        /\ Stores(mem') /\ Save(mem')
        /\ mem'.rows = mem.rows \o n /\ mem'.cp = mem.cp
        /\ Range(mem'.jrnl) = Range(mem.jrnl) \ {m}
        /\ Once(mem.jrnl, Messages) => Once(mem'.jrnl, Messages)
    BY <1>6, BeginIs
  <2>2. m \in Starting
    BY <1>1, <1>6 DEF Starting
  <2> HIDE DEF m
  <2>3. /\ n \in Seq(Rows) /\ Range(n) = {User(m)} /\ Names(n) = {m}
        /\ \A X : Distinct(n, X)
    <3>1. User(m) \in Rows /\ User(m).t = "user" /\ User(m).id = m
      BY <2>1, RowTypes
    <3>2. n \in Seq(Rows) /\ Range(n) = {User(m)} /\ \A X : Distinct(n, X)
      BY <3>1, SingleIs
    <3> HIDE DEF n
    <3>3. Names(n) = {m}
      BY <3>1, <3>2 DEF Names
    <3> QED
      BY <3>2, <3>3
  <2> HIDE DEF n
  <2>4. mem.rows \in Seq(Rows) /\ mem.cp \in Seq(Output)
    BY SessionTypes DEF TypeInv, FilesOK
  <2>5. m \notin Names(mem.rows)
    BY <2>2 DEF KeepInv, Places
  <2>6. Sound(mem, Known', spoiled') /\ m \in Known'
    BY <1>1, <1>2, <2>1, SoundGrows DEF KeepInv, SessionsSound, Known, Grow
  <2>7. /\ Names(mem'.rows) = Names(mem.rows) \cup {m}
        /\ Range(mem'.rows) = Range(mem.rows) \cup Range(n)
        /\ Distinct(mem'.rows, spoiled')
    <3>1. Names(mem.rows) \cap Names(n) \subseteq spoiled'
      BY <2>3, <2>5
    <3>2. Distinct(mem.rows, spoiled') /\ Distinct(n, spoiled')
      BY <2>3, <2>6 DEF Sound
    <3> QED
      BY <2>1, <2>3, <2>4, <3>1, <3>2, ConcatIs
  <2>8. Names(mem.cp) \subseteq Nat /\ m \notin Nat
    BY <2>1, <2>4, OutputIs, TurnRecoveryAssumption
  <2>9. Sound(mem', Known', spoiled')
    BY <2>1, <2>6, <2>7, <2>8 DEF Sound
  <2>10. SessionsSound'
    BY <1>2, <2>1, <2>9, StoredSound DEF KeepInv
  <2>11. main' = mem' /\ Loaded' = mem'
    BY <2>1 DEF Save, Loaded
  <2>12. RecordedKept'
    BY <1>2, <2>1, <2>7, <2>11, CachedIs DEF RecordedKept, KeepInv, TypeInv
  <2>13. LastCheckpointKept'
    BY <1>1, <1>2, <2>1, <2>7, <2>11 DEF LastCheckpointKept, KeepInv, TypeInv, FilesOK
  <2>14. Places'
    BY <1>1, <1>3, <1>4, <2>2, <2>7, EmptyIs DEF KeepInv, Places
  <2> QED
    BY <1>5, <2>10, <2>12, <2>13, <2>14 DEF KeepInv
<1>7. CASE turn.kind # "user"
  <2>1. UNCHANGED <<mem, fileVars, recorded>>
    BY <1>7 DEF Begin
  <2>2. SessionsSound'
    BY <1>2, <2>1, UnchangedSound DEF KeepInv
  <2>3. RecordedKept' /\ LastCheckpointKept'
    BY <1>1, <2>1 DEF KeepInv, RecordedKept, LastCheckpointKept, Loaded, fileVars
  <2>4. Places'
    BY <1>1, <1>3, <1>4, <2>1, EmptyIs DEF KeepInv, Places
  <2> QED
    BY <1>5, <2>2, <2>3, <2>4 DEF KeepInv
<1> QED
  BY <1>6, <1>7

\* A checkpoint of rows that the session does not have.
LEMMA CheckpointKeepsSound ==
  ASSUME TypeInv, KeepInv, up, up' = up, cuts' = cuts, recorded' = recorded, Grow,
         NEW rows \in Seq(Output), Checkpoint(rows),
         Names(rows) \subseteq Known', Distinct(rows, {}),
         Names(mem.rows) \cap Names(rows) \subseteq spoiled'
  PROVE  SessionsSound' /\ RecordedKept' /\ LastCheckpointKept' /\ mem'.rows = mem.rows
<1>1. /\ mem'.rows = mem.rows /\ mem'.cp = rows /\ mem'.jrnl = mem.jrnl
      /\ main' = main /\ Loaded' = mem' /\ last' = rows
  BY CheckpointIs DEF TypeInv
<1>2. Sound(mem, Known', spoiled') /\ Sound(main, Known', spoiled')
  BY SoundGrows DEF KeepInv, SessionsSound, Known, Grow
<1>3. Sound(mem', Known', spoiled')
  BY <1>1, <1>2 DEF Sound
<1>4. SessionsSound' /\ RecordedKept' /\ LastCheckpointKept'
  BY <1>1, <1>2, <1>3 DEF SessionsSound, RecordedKept, LastCheckpointKept, KeepInv
<1> QED
  BY <1>1, <1>4

\* The next number is not known yet.
LEMMA NextNumber ==
  ASSUME TypeInv, ids' = ids + 1, sent' = sent
  PROVE  ids' \in Nat /\ ids' \notin Known /\ Known' = Known \cup {ids'} /\ ids' \notin Messages
         /\ 1..ids \subseteq 1..ids'
<1>1. ids \in Nat /\ sent \subseteq Messages
  BY DEF TypeInv, TurnOK, HistoryOK
<1>2. ids' \in Nat /\ ids' \notin 1..ids /\ 1..ids' = (1..ids) \cup {ids'}
  BY <1>1
<1> QED
  BY <1>1, <1>2, TurnRecoveryAssumption DEF Known

LEMMA CallToolKeeps ==
  ASSUME TypeInv, KeepInv, NEW op \in Ops, CallTool(op)
  PROVE  KeepInv'
<1> DEFINE c == Row("call", ids', op)
           n == <<c>>
           new == turn.new \o n
<1>0. turn.new \in Seq(Rows)
  BY DEF TypeInv, TurnOK, Turns
<1>1. /\ turn.phase = "model" /\ ids' = ids + 1
      /\ turn' = [turn EXCEPT !.phase = "tools", !.op = op, !.began = FALSE,
                              !.new = Append(@, c)]
      /\ Checkpoint(Awaiting(ids', op))
      /\ UNCHANGED <<up, queue, bus, cuts, sent, recorded, spoiled>>
  BY DEF CallTool
<1>2. up
  BY <1>1, UpInTurn
<1>3. /\ ids' \in Nat /\ ids' \notin Known /\ Known' = Known \cup {ids'} /\ ids' \notin Messages
      /\ 1..ids \subseteq 1..ids'
  BY <1>1, NextNumber
<1>4. Grow
  BY <1>1, <1>3 DEF Grow
<1>5. c \in Rows /\ c.t = "call" /\ c.id = ids'
  BY <1>3, RowTypes
<1> HIDE DEF c
<1>6. n \in Seq(Rows) /\ Range(n) = {c} /\ Distinct(n, {})
  BY <1>5, SingleIs
<1>7. Append(turn.new, c) = new
  BY <1>0, <1>5, AppendIs
<1> HIDE DEF n
<1>8. Names(n) = {ids'}
  BY <1>5, <1>6 DEF Names
<1>9. ids' \notin Names(mem.rows) /\ ids' \notin Names(turn.new)
  BY <1>3 DEF KeepInv, SessionsSound, Sound, TurnSound
<1>10. /\ Names(new) = Names(turn.new) \cup {ids'} /\ Range(new) = Range(turn.new) \cup {c}
       /\ Distinct(new, {})
  <2>1. Names(turn.new) \cap Names(n) \subseteq {}
    BY <1>8, <1>9
  <2> QED
    BY <1>0, <1>6, <1>8, <2>1, ConcatIs DEF KeepInv, TurnSound
<1> HIDE DEF new
<1>11. turn'.phase = "tools" /\ turn'.new = new
  BY <1>1, <1>7 DEF TypeInv, TurnOK, Turns
<1>12. SessionsSound' /\ RecordedKept' /\ LastCheckpointKept' /\ mem'.rows = mem.rows
  <2>1. /\ Awaiting(ids', op) \in Seq(Output) /\ Names(Awaiting(ids', op)) = {ids'}
        /\ Distinct(Awaiting(ids', op), {})
    BY <1>3, CheckpointTypes
  <2> QED
    BY <1>1, <1>2, <1>3, <1>4, <1>9, <2>1, CheckpointKeepsSound
<1>13. TurnSound'
  <2>1. \A r \in Range(turn.new) : r.t # "notice" => r.id # ids'
    BY <1>9 DEF Names
  <2>2. \A r \in Range(turn.new) : r.t = "notice" => r.id = 0
    BY <1>0, SeqRange DEF Rows
  <2>3. ids' # 0
    BY <1>1 DEF TypeInv, TurnOK
  <2>4. \A r \in Range(new) : r.id = ids' => r.t = "call"
    BY <1>5, <1>10, <2>1, <2>2, <2>3
  <2>5. Names(new) \subseteq Known' /\ Names(new) \cap Names(mem'.rows) \subseteq spoiled'
    BY <1>1, <1>3, <1>9, <1>10, <1>12 DEF KeepInv, TurnSound
  <2> QED
    BY <1>10, <1>11, <2>4, <2>5 DEF TurnSound
<1>14. Places'
  <2>1. Starting' = {} /\ BusInputs' = BusInputs
    BY <1>1, <1>11 DEF Starting, BusInputs
  <2>2. ids' \notin BusInputs \cup Range(queue)
    BY <1>3, SeqRange DEF BusInputs, TypeInv, WaitOK
  <2> QED
    BY <1>1, <1>10, <1>11, <1>12, <2>1, <2>2 DEF KeepInv, Places
<1> QED
  BY <1>12, <1>13, <1>14 DEF KeepInv

LEMMA RunToolKeeps ==
  ASSUME TypeInv, KeepInv, NEW approved, RunTool(approved)
  PROVE  KeepInv'
<1>1. /\ turn.phase = "tools" /\ turn' = [turn EXCEPT !.began = TRUE]
      /\ UNCHANGED <<fileVars, mem, queue, bus, ids, named, sent, recorded, last, spoiled>>
  BY DEF RunTool
<1>2. Grow
  BY <1>1 DEF Grow
<1>3. turn'.phase = "tools" /\ turn'.new = turn.new
  BY <1>1 DEF TypeInv, TurnOK, Turns
<1>4. SessionsSound'
  BY <1>1, <1>2, UnchangedSound DEF KeepInv
<1>5. RecordedKept' /\ LastCheckpointKept'
  BY <1>1 DEF KeepInv, RecordedKept, LastCheckpointKept, Loaded, fileVars
<1>6. TurnSound'
  BY <1>1, <1>3 DEF KeepInv, TurnSound, Known
<1>7. Places'
  <2>1. Starting' = {} /\ Starting = {} /\ BusInputs' = BusInputs
    BY <1>1, <1>3 DEF Starting, BusInputs
  <2> QED
    BY <1>1, <1>3, <2>1 DEF KeepInv, Places
<1> QED
  BY <1>4, <1>5, <1>6, <1>7 DEF KeepInv

\* Output and then the inputs of the queue join the rows of a turn.
LEMMA DrainKeeps ==
  ASSUME TypeInv, KeepInv, NEW o \in Seq(Output), NEW n \in Nat, Names(o) = {n},
         Distinct(turn.new \o o, {})
  PROVE  LET d == [i \in DOMAIN queue |-> User(queue[i])]
             new == (turn.new \o o) \o d
         IN /\ Names(new) = Names(turn.new) \cup {n} \cup Range(queue)
            /\ Range(o) \subseteq Range(new)
            /\ Distinct(new, {})
<1> DEFINE d == [i \in DOMAIN queue |-> User(queue[i])]
           p == turn.new \o o
<1>1. turn.new \in Seq(Rows) /\ o \in Seq(Rows) /\ queue \in Seq(Messages)
  BY OutputIs DEF TypeInv, TurnOK, WaitOK, Turns
<1>2. d \in Seq(Rows) /\ Names(d) = Range(queue) /\ Distinct(d, {})
  BY <1>1, DrainedTypes DEF KeepInv, Places
<1> HIDE DEF d
<1>3. /\ p \in Seq(Rows) /\ Names(p) = Names(turn.new) \cup {n}
      /\ Range(p) = Range(turn.new) \cup Range(o)
  BY <1>1, ConcatIs
<1>4. Distinct(p, {})
  OBVIOUS
<1> HIDE DEF p
<1>5. Names(p) \cap Names(d) \subseteq {}
  <2>1. n \notin Range(queue)
    BY <1>1, SeqRange, TurnRecoveryAssumption
  <2>2. Range(queue) \cap Names(turn.new) = {}
    BY DEF KeepInv, Places
  <2> QED
    BY <1>2, <1>3, <2>1, <2>2
<1>6. /\ Names(p \o d) = Names(p) \cup Names(d) /\ Range(p \o d) = Range(p) \cup Range(d)
      /\ Distinct(p \o d, {})
  BY <1>2, <1>3, <1>4, <1>5, ConcatIs
<1> QED
  BY <1>2, <1>3, <1>6 DEF d, p

\* The queue was drained.
LEMMA DrainedPlaces ==
  ASSUME TypeInv, KeepInv, NEW n \in Nat, UNCHANGED <<bus, sent>>, queue' = <<>>,
         turn'.phase # "start", mem'.rows = mem.rows,
         Names(turn'.new) = Names(turn.new) \cup {n} \cup Range(queue)
  PROVE  Places'
<1>1. Starting' = {} /\ BusInputs' = BusInputs
  BY DEF Starting, BusInputs
<1>2. Range(queue') = {} /\ Once(queue', Messages)
  BY EmptyIs, EmptyDistinct
<1>3. n \notin BusInputs
  BY TurnRecoveryAssumption DEF BusInputs
<1> QED
  BY <1>1, <1>2, <1>3 DEF KeepInv, Places

LEMMA ToolDoneKeeps ==
  ASSUME TypeInv, KeepInv, ToolDone
  PROVE  KeepInv'
<1> DEFINE r == Row("result", ids, NoOp)
           o == <<r>>
           d == [i \in DOMAIN queue |-> User(queue[i])]
           new == (turn.new \o o) \o d
<1>0. turn.new \in Seq(Rows) /\ ids \in Nat /\ queue \in Seq(Messages)
  BY DEF TypeInv, TurnOK, WaitOK, Turns
<1>1. /\ turn.phase = "tools"
      /\ turn' = [turn EXCEPT !.phase = "model", !.op = NoOp, !.began = FALSE, !.new = new]
      /\ queue' = <<>> /\ Checkpoint(Completed(ids, turn.op))
      /\ UNCHANGED <<up, bus, ids, cuts, sent, recorded, spoiled>>
  BY DEF ToolDone
<1>2. up /\ Grow
  BY <1>1, UpInTurn DEF Grow
<1>3. r \in Output /\ r.t = "result" /\ r.id = ids
  BY <1>0, RowTypes
<1> HIDE DEF r
<1>4. o \in Seq(Output) /\ Range(o) = {r} /\ Distinct(o, {})
  BY <1>3, SingleIs
<1>5. \A i \in DOMAIN o : o[i] = r
  OBVIOUS
<1> HIDE DEF o
<1>6. Names(o) = {ids}
  BY <1>3, <1>4 DEF Names
<1>7. /\ ids \in Names(turn.new)
      /\ \A q \in Range(turn.new) : q.id = ids => q.t = "call"
      /\ Names(turn.new) \cap Names(mem.rows) \subseteq spoiled
      /\ Names(turn.new) \subseteq Known
  BY <1>1 DEF KeepInv, TurnSound
<1>8. Distinct(turn.new \o o, {})
  <2> DEFINE p == turn.new \o o
  <2>1. o \in Seq(Rows)
    BY <1>4, OutputIs
  <2>2. /\ Len(p) = Len(turn.new) + Len(o) /\ p \in Seq(Rows)
        /\ \A i \in 1..Len(turn.new) + Len(o) :
             p[i] = IF i <= Len(turn.new) THEN turn.new[i] ELSE o[i - Len(turn.new)]
    BY <1>0, <2>1, ConcatProperties
  <2>3. /\ Len(turn.new) \in Nat /\ DOMAIN turn.new = 1..Len(turn.new)
        /\ Len(o) = 1 /\ DOMAIN o = 1..1
    BY <1>0, LenProperties DEF o
  <2> HIDE DEF p
  <2>4. DOMAIN p = 1..Len(turn.new) + 1
    BY <2>2, <2>3, LenProperties
  <2>5. ASSUME NEW i \in DOMAIN p
        PROVE  \/ i \in DOMAIN turn.new /\ p[i] = turn.new[i]
               \/ i = Len(turn.new) + 1 /\ p[i] = r
    BY <1>5, <2>2, <2>3, <2>4
  <2>6. ASSUME NEW q \in Range(turn.new)
        PROVE  ~Same(q, r) /\ ~Same(r, q)
    BY <1>3, <1>7 DEF Same
  <2>7. Distinct(turn.new, {})
    BY DEF KeepInv, TurnSound
  <2> SUFFICES ASSUME NEW i \in DOMAIN p, NEW j \in DOMAIN p, i # j,
                      p[i].t # "notice", p[j].t # "notice", Same(p[i], p[j])
               PROVE  FALSE
    BY DEF Distinct, p
  <2>8. CASE i \in DOMAIN turn.new /\ p[i] = turn.new[i] /\ j \in DOMAIN turn.new /\ p[j] = turn.new[j]
    BY <2>7, <2>8 DEF Distinct
  <2>9. CASE i \in DOMAIN turn.new /\ p[i] = turn.new[i] /\ p[j] = r
    BY <2>6, <2>9 DEF Range
  <2>10. CASE j \in DOMAIN turn.new /\ p[j] = turn.new[j] /\ p[i] = r
    BY <2>6, <2>10 DEF Range
  <2> QED
    BY <2>5, <2>8, <2>9, <2>10
<1>9. Names(new) = Names(turn.new) \cup {ids} \cup Range(queue) /\ Distinct(new, {})
  BY <1>0, <1>4, <1>6, <1>8, DrainKeeps
<1> HIDE DEF new
<1>10. turn'.phase = "model" /\ turn'.new = new
  BY <1>1 DEF TypeInv, TurnOK, Turns
<1>11. SessionsSound' /\ RecordedKept' /\ LastCheckpointKept' /\ mem'.rows = mem.rows
  <2>1. /\ Completed(ids, turn.op) \in Seq(Output) /\ Names(Completed(ids, turn.op)) = {ids}
        /\ Distinct(Completed(ids, turn.op), {})
    BY <1>0, <1>1, CheckpointTypes DEF TypeInv, TurnOK
  <2>2. ids \in Known' /\ Names(mem.rows) \cap {ids} \subseteq spoiled'
    BY <1>1, <1>7 DEF Known
  <2> QED
    BY <1>1, <1>2, <2>1, <2>2, CheckpointKeepsSound
<1>12. TurnSound'
  <2>1. Range(queue) \subseteq sent /\ Range(queue) \cap Names(mem.rows) = {}
    BY DEF KeepInv, Places
  <2>2. Names(new) \subseteq Known' /\ Names(new) \cap Names(mem'.rows) \subseteq spoiled'
    BY <1>1, <1>7, <1>9, <1>11, <2>1 DEF Known
  <2> QED
    BY <1>9, <1>10, <2>2 DEF TurnSound
<1>13. Places'
  BY <1>0, <1>1, <1>9, <1>10, <1>11, DrainedPlaces
<1> QED
  BY <1>11, <1>12, <1>13 DEF KeepInv

LEMMA AnswerKeeps ==
  ASSUME TypeInv, KeepInv, Answer
  PROVE  KeepInv'
<1> DEFINE o == Final(ids')
           d == [i \in DOMAIN queue |-> User(queue[i])]
           new == (turn.new \o o) \o d
           phase == IF queue = <<>> THEN "answered" ELSE "model"
<1>0. turn.new \in Seq(Rows) /\ queue \in Seq(Messages)
  BY DEF TypeInv, TurnOK, WaitOK, Turns
<1>1. /\ turn.phase = "model" /\ ids' = ids + 1
      /\ turn' = [turn EXCEPT !.phase = phase, !.new = new]
      /\ queue' = <<>> /\ Checkpoint(o)
      /\ UNCHANGED <<up, bus, cuts, sent, recorded, spoiled>>
  BY DEF Answer
<1>2. up
  BY <1>1, UpInTurn
<1>3. /\ ids' \in Nat /\ ids' \notin Known /\ Known' = Known \cup {ids'} /\ ids' \notin Messages
      /\ 1..ids \subseteq 1..ids'
  BY <1>1, NextNumber
<1>4. Grow
  BY <1>1, <1>3 DEF Grow
<1>5. /\ o \in Seq(Output) /\ Names(o) = {ids'} /\ Distinct(o, {})
      /\ \A r \in Range(o) : r.t = "answer"
  BY <1>3, FinalTypes
<1> HIDE DEF o
<1>6. ids' \notin Names(mem.rows) /\ ids' \notin Names(turn.new)
  BY <1>3 DEF KeepInv, SessionsSound, Sound, TurnSound
<1>7. Distinct(turn.new \o o, {})
  <2>1. Names(turn.new) \cap Names(o) \subseteq {}
    BY <1>5, <1>6
  <2>2. o \in Seq(Rows)
    BY <1>5, OutputIs
  <2> QED
    BY <1>0, <1>5, <2>1, <2>2, ConcatIs DEF KeepInv, TurnSound
<1>8. /\ Names(new) = Names(turn.new) \cup {ids'} \cup Range(queue)
      /\ Range(o) \subseteq Range(new) /\ Distinct(new, {})
  BY <1>3, <1>5, <1>7, DrainKeeps
<1> HIDE DEF new
<1>9. turn'.phase = phase /\ turn'.new = new
  BY <1>1 DEF TypeInv, TurnOK, Turns
<1>10. SessionsSound' /\ RecordedKept' /\ LastCheckpointKept' /\ mem'.rows = mem.rows
  BY <1>1, <1>2, <1>3, <1>4, <1>5, <1>6, CheckpointKeepsSound
<1>11. TurnSound'
  <2>1. Range(queue) \subseteq sent /\ Range(queue) \cap Names(mem.rows) = {}
    BY DEF KeepInv, Places
  <2>2. Names(turn.new) \subseteq Known /\ Names(turn.new) \cap Names(mem.rows) \subseteq spoiled
    BY <1>1 DEF KeepInv, TurnSound
  <2>3. Names(new) \subseteq Known' /\ Names(new) \cap Names(mem'.rows) \subseteq spoiled'
    BY <1>1, <1>3, <1>6, <1>8, <1>10, <2>1, <2>2 DEF Known
  <2>4. last' = o
    BY <1>1 DEF Checkpoint
  <2> QED
    BY <1>5, <1>8, <1>9, <2>3, <2>4 DEF TurnSound
<1>12. Places'
  BY <1>1, <1>3, <1>8, <1>9, <1>10, DrainedPlaces
<1> QED
  BY <1>10, <1>11, <1>12 DEF KeepInv

LEMMA PersistKeeps ==
  ASSUME TypeInv, KeepInv, Persist
  PROVE  KeepInv'
<1> DEFINE n == NewRows(mem.rows, turn.new)
<1>1. /\ turn.phase = "answered" /\ turn' = [turn EXCEPT !.phase = "saved"]
      /\ UNCHANGED <<queue, bus, ids, named, sent, recorded, last, spoiled>>
  BY DEF Persist, historyVars
<1>2. /\ up /\ Save(mem') /\ Stores(mem') /\ n \in Seq(Rows)
      /\ mem'.rows = mem.rows \o n /\ mem'.cp = <<>>
      /\ Range(mem'.jrnl) = Range(mem.jrnl) \ Users(turn.new)
      /\ Once(mem.jrnl, Messages) => Once(mem'.jrnl, Messages)
  BY PersistIs
<1>3. turn.new \in Seq(Rows) /\ mem.rows \in Seq(Rows) /\ mem.jrnl \in Seq(Messages)
  BY SessionTypes DEF TypeInv, FilesOK, TurnOK, Turns
<1>4. PartOf(n, turn.new) /\ \A r \in Range(turn.new) : r.t # "result" => r \in Range(n)
  BY <1>3, NewRowsTypes
<1> HIDE DEF n
<1>5. /\ Distinct(turn.new, {}) /\ Names(turn.new) \subseteq Known
      /\ Names(turn.new) \cap Names(mem.rows) \subseteq spoiled
      /\ Range(last) \subseteq Range(turn.new) /\ \A r \in Range(last) : r.t = "answer"
  BY <1>1 DEF KeepInv, TurnSound
<1>6. Grow /\ Known' = Known /\ Sound(mem, Known, spoiled)
  BY <1>1 DEF Grow, Known, KeepInv, SessionsSound
<1>7. Names(n) \subseteq Names(turn.new) /\ Distinct(n, spoiled)
  <2>1. Names(n) \subseteq Names(turn.new) /\ Distinct(n, {})
    BY <1>4, <1>5, PartIs
  <2> QED
    BY <2>1 DEF Distinct
<1>8. /\ Names(mem'.rows) = Names(mem.rows) \cup Names(n)
      /\ Range(mem'.rows) = Range(mem.rows) \cup Range(n)
      /\ Distinct(mem'.rows, spoiled)
  <2>1. Names(mem.rows) \cap Names(n) \subseteq spoiled /\ Distinct(mem.rows, spoiled)
    BY <1>5, <1>6, <1>7 DEF Sound
  <2> QED
    BY <1>2, <1>3, <1>7, <2>1, ConcatIs
<1>9. Users(turn.new) = Names(turn.new) \cap Messages /\ Range(mem.jrnl) \subseteq Messages
  BY <1>3, InputNames, SeqRange
<1>10. Sound(mem', Known, spoiled)
  <2>1. Names(mem'.cp) = {} /\ Distinct(mem'.cp, {})
    BY <1>2, EmptyIs, EmptyDistinct
  <2>2. Range(mem'.jrnl) \cap Names(mem'.rows) = {}
    BY <1>2, <1>6, <1>7, <1>8, <1>9 DEF Sound
  <2> QED
    BY <1>2, <1>5, <1>6, <1>7, <1>8, <2>1, <2>2 DEF Sound
<1>11. SessionsSound'
  BY <1>1, <1>2, <1>6, <1>10, StoredSound DEF KeepInv
<1>12. main' = mem' /\ Loaded' = mem'
  BY <1>2 DEF Save, Loaded
<1>13. Users(turn.new) \subseteq Names(n)
  <2>1. ASSUME NEW m \in Users(turn.new)
        PROVE  m \in Names(n)
    <3>1. PICK r \in Range(turn.new) : r.t = "user" /\ r.id = m
      BY <2>1 DEF Users
    <3>2. r \in Range(n)
      BY <1>4, <3>1
    <3> QED
      BY <3>1, <3>2 DEF Names
  <2> QED
    BY <2>1
<1>14. RecordedKept'
  <2>1. recorded \subseteq Names(mem.rows) \cup Range(mem.jrnl)
    BY <1>2, CachedIs DEF KeepInv, RecordedKept, TypeInv
  <2> QED
    BY <1>1, <1>2, <1>8, <1>12, <1>13, <2>1 DEF RecordedKept
<1>15. LastCheckpointKept'
  <2>1. Range(last) \subseteq Range(mem'.rows)
    BY <1>4, <1>5, <1>8
  <2> QED
    BY <1>1, <1>12, <2>1 DEF LastCheckpointKept
<1>16. turn'.phase = "saved" /\ turn'.new = turn.new
  BY <1>1 DEF TypeInv, TurnOK, Turns
<1>17. TurnSound'
  BY <1>5, <1>6, <1>16 DEF TurnSound
<1>18. Places'
  <2>1. Starting' = {} /\ BusInputs' = BusInputs
    BY <1>1, <1>16 DEF Starting, BusInputs
  <2> QED
    BY <1>1, <1>7, <1>8, <1>16, <2>1 DEF KeepInv, Places
<1> QED
  BY <1>11, <1>14, <1>15, <1>17, <1>18 DEF KeepInv

\* The end of a turn puts its queue back on the bus.
LEMMA EndTurnKeeps ==
  ASSUME TypeInv, KeepInv, up, UNCHANGED <<ids, named, sent, recorded, last, spoiled>>,
         NEW s, Tidied(mem, s), EndTurn(s)
  PROVE  KeepInv'
<1>1. mem' = s /\ SaveIfChanged(s) /\ turn' = NoTurn /\ queue' = <<>> /\ bus' = bus \o queue
  BY DEF EndTurn
<1>2. Stores(s) /\ Grow
  BY <1>1, SavesStore DEF Grow
<1>3. SessionsSound' /\ RecordedKept' /\ LastCheckpointKept'
  BY <1>2, TidiedKeeps
<1>4. turn'.new = <<>> /\ turn'.phase = "none"
  BY <1>1, TurnTypes
<1>5. TurnSound'
  BY <1>4, TurnIsNew
<1>6. Places'
  <2>1. Starting' = {} /\ Range(queue') = {} /\ Names(turn'.new) = {} /\ Once(queue', Messages)
    BY <1>1, <1>4, EmptyIs, EmptyDistinct DEF Starting
  <2>2. /\ bus \in Seq(Messages \cup (0..cuts)) /\ queue \in Seq(Messages \cup (0..cuts))
        /\ Range(queue) \subseteq Messages
    BY SeqMonotonic, SeqRange DEF TypeInv, WaitOK
  <2>3. /\ BusInputs \cap Range(queue) = {} /\ Once(bus, Messages) /\ Once(queue, Messages)
        /\ BusInputs \cup Range(queue) \subseteq sent
        /\ (BusInputs \cup Range(queue)) \cap Names(mem.rows) = {}
    BY DEF KeepInv, Places
  <2>4. Range(bus') = Range(bus) \cup Range(queue) /\ Once(bus', Messages)
    <3>1. Range(bus) \cap Range(queue) \cap Messages = {}
      BY <2>3 DEF BusInputs
    <3> QED
      BY <1>1, <2>2, <2>3, <3>1, ConcatIs
  <2>5. BusInputs' = BusInputs \cup Range(queue) /\ BusInputs' \subseteq Messages
    BY <2>2, <2>4 DEF BusInputs
  <2>6. Names(mem'.rows) \cap Messages \subseteq Names(mem.rows)
    BY <1>1, TidiedInputs DEF TypeInv, FilesOK
  <2> QED
    BY <2>1, <2>3, <2>4, <2>5, <2>6 DEF Places
<1> QED
  BY <1>3, <1>5, <1>6 DEF KeepInv

LEMMA CompleteKeeps ==
  ASSUME TypeInv, KeepInv, Complete
  PROVE  KeepInv'
<1>1. turn.phase = "saved" /\ EndTurn(Resolve(mem)) /\ UNCHANGED <<ids, named, historyVars>>
  BY DEF Complete
<1>2. up /\ Tidied(mem, Resolve(mem))
  BY <1>1, UpInTurn, ResolveTypes DEF TypeInv, FilesOK
<1> QED
  BY <1>1, <1>2, EndTurnKeeps DEF historyVars

LEMMA FailKeeps ==
  ASSUME TypeInv, KeepInv, Fail
  PROVE  KeepInv'
<1>1. /\ turn.phase # "none" /\ EndTurn(Resolve(mem))
      /\ UNCHANGED <<ids, named, sent, recorded, last, spoiled>>
  BY DEF Fail
<1>2. up /\ Tidied(mem, Resolve(mem))
  BY <1>1, UpInTurn, ResolveTypes DEF TypeInv, FilesOK
<1> QED
  BY <1>1, <1>2, EndTurnKeeps

LEMMA StopKeeps ==
  ASSUME TypeInv, KeepInv, Stop
  PROVE  KeepInv'
<1>1. /\ turn.kind # "none" /\ EndTurn(Restore(mem))
      /\ UNCHANGED <<ids, named, sent, recorded, last, spoiled>>
  BY DEF Stop
<1>2. up /\ Tidied(mem, Restore(mem))
  BY <1>1, UpInTurn, RestoreTypes DEF TypeInv, FilesOK
<1> QED
  BY <1>1, <1>2, EndTurnKeeps

-----------------------------------------------------------------------------
\* The steps keep it: the user and the process

LEMMA ContinueKeeps ==
  ASSUME TypeInv, KeepInv, Continue
  PROVE  KeepInv'
<1>1. /\ bus' = Append(bus, mem.rec.id)
      /\ UNCHANGED <<turn, queue, ids, named, sent, recorded, last, spoiled>>
  BY DEF Continue
<1>2. up /\ Stores(mem') /\ Tidied(mem, mem') /\ mem'.rows = mem.rows
  BY ContinueIs
<1>3. Grow
  BY <1>1 DEF Grow
<1>4. SessionsSound' /\ RecordedKept' /\ LastCheckpointKept'
  BY <1>1, <1>2, <1>3, TidiedKeeps
<1>5. TurnSound'
  BY <1>1, <1>2, <1>3, TurnStays DEF KeepInv
<1>6. Places'
  <2> DEFINE id == mem.rec.id
             n == <<id>>
  <2>1. id \in 0..cuts /\ id \notin Messages
    BY SessionTypes, TurnRecoveryAssumption DEF TypeInv, FilesOK
  <2> HIDE DEF id
  <2>2. bus \in Seq(Messages \cup (0..cuts)) /\ id \in Messages \cup (0..cuts)
    BY <2>1 DEF TypeInv, WaitOK
  <2>3. n \in Seq(Messages \cup (0..cuts)) /\ Range(n) = {id} /\ Once(n, Messages)
    BY <2>2, SingleIs
  <2>4. bus' = bus \o n
    BY <1>1, <2>2, AppendIs DEF id
  <2> HIDE DEF n
  <2>5. Range(bus) \cap Range(n) \cap Messages = {}
    BY <2>1, <2>3
  <2>6. Range(bus') = Range(bus) \cup {id} /\ Once(bus', Messages)
    BY <2>2, <2>3, <2>4, <2>5, ConcatIs DEF KeepInv, Places
  <2>7. BusInputs' = BusInputs /\ Starting' = Starting
    BY <1>1, <2>1, <2>6 DEF BusInputs, Starting
  <2> QED
    BY <1>1, <1>2, <2>6, <2>7 DEF KeepInv, Places
<1> QED
  BY <1>4, <1>5, <1>6 DEF KeepInv

\* A dismissal while the turn goes on doubles what its checkpoint had.
LEMMA DismissKeeps ==
  ASSUME TypeInv, KeepInv, Dismiss
  PROVE  KeepInv'
<1>1. UNCHANGED <<turn, queue, bus, ids, named, sent, recorded, last>>
  BY DEF Dismiss
<1>2. /\ up /\ Stores(mem') /\ Tidied(mem, mem')
      /\ spoiled' = spoiled \cup IF turn.kind = "none" THEN {} ELSE Names(mem.cp)
  BY DismissIs
<1>3. Grow
  BY <1>1, <1>2 DEF Grow
<1>4. SessionsSound' /\ RecordedKept' /\ LastCheckpointKept'
  BY <1>1, <1>2, <1>3, TidiedKeeps
<1>5. Names(mem'.rows) \subseteq Names(mem.rows) \cup Names(mem.cp)
  BY <1>2 DEF Tidied
<1>6. TurnSound'
  <2>1. CASE turn.kind = "none"
    BY <1>1, <2>1, TurnIsNew DEF TypeInv, TurnOK, KeepInv, TurnSound
  <2>2. CASE turn.kind # "none"
    BY <1>1, <1>2, <1>3, <1>5, <2>2, TurnStays DEF KeepInv
  <2> QED
    BY <2>1, <2>2
<1>7. Places'
  <2>1. Names(mem'.rows) \cap sent \subseteq Names(mem.rows)
    BY <1>2, TidiedInputs DEF TypeInv, FilesOK, HistoryOK
  <2> QED
    BY <1>1, <1>3, <2>1, PlacesStay DEF KeepInv
<1> QED
  BY <1>4, <1>6, <1>7 DEF KeepInv

LEMMA UpdateMetadataKeeps ==
  ASSUME TypeInv, KeepInv, UpdateMetadata
  PROVE  KeepInv'
<1>1. /\ named' = "exposed" /\ stale' = TRUE
      /\ UNCHANGED <<main, side, mem, up, turn, queue, bus, ids, cuts, historyVars>>
  BY DEF UpdateMetadata
<1>2. Grow
  BY <1>1 DEF Grow, historyVars
<1>3. SessionsSound'
  BY <1>1 DEF KeepInv, SessionsSound, Loaded, Known, historyVars
<1>4. RecordedKept' /\ LastCheckpointKept'
  BY <1>1 DEF KeepInv, RecordedKept, LastCheckpointKept, historyVars
<1>5. TurnSound'
  BY <1>1, <1>2, TurnStays DEF KeepInv, historyVars
<1>6. Places'
  BY <1>1, <1>2, PlacesStay DEF KeepInv
<1> QED
  BY <1>3, <1>4, <1>5, <1>6 DEF KeepInv

LEMMA NoSessionSound == \A N, X : Sound(NoSession, N, X)
  BY NoSessionTypes, EmptyIs, EmptyDistinct DEF Sound

LEMMA CrashKeeps ==
  ASSUME TypeInv, KeepInv, Crash
  PROVE  KeepInv'
<1>1. /\ turn' = NoTurn /\ queue' = <<>> /\ bus' = <<>> /\ mem' = NoSession
      /\ UNCHANGED <<fileVars, ids, named, sent, recorded, last, spoiled>>
  BY DEF Crash
<1>2. SessionsSound'
  BY <1>1, NoSessionSound DEF KeepInv, SessionsSound, Known, Loaded, fileVars
<1>3. RecordedKept' /\ LastCheckpointKept'
  BY <1>1 DEF KeepInv, RecordedKept, LastCheckpointKept, Loaded, fileVars
<1>4. TurnSound'
  BY <1>1, TurnTypes, TurnIsNew
<1>5. Places'
  <2>1. /\ Starting' = {} /\ BusInputs' = {} /\ Range(queue') = {}
        /\ Once(bus', Messages) /\ Once(queue', Messages)
    BY <1>1, TurnTypes, EmptyIs, EmptyDistinct DEF Starting, BusInputs
  <2> QED
    BY <2>1 DEF Places
<1> QED
  BY <1>2, <1>3, <1>4, <1>5 DEF KeepInv

\* The journal is what a restart publishes.
LEMMA RestartKeeps ==
  ASSUME TypeInv, KeepInv, NEW unfinished, Restart(unfinished)
  PROVE  KeepInv'
<1>1. /\ ~up /\ Tidied(Loaded, mem') /\ bus' = mem'.jrnl
      /\ Save(mem') \/ (mem' = Loaded /\ UNCHANGED fileVars)
      /\ UNCHANGED <<turn, queue, ids, named, historyVars>>
  BY RestartIs
<1>2. /\ Loaded \in Sessions /\ Loaded.rows = main.rows /\ Loaded.jrnl = main.jrnl
      /\ mem' \in Sessions /\ Known' = Known /\ spoiled' = spoiled
  BY <1>1, LoadedTypes, TidiedSession DEF TypeInv, Known, historyVars
<1>3. Sound(mem', Known, spoiled)
  BY <1>1 DEF KeepInv, SessionsSound, Tidied
<1>4. SessionsSound'
  <2>1. CASE Save(mem')
    BY <1>2, <1>3, <2>1 DEF SessionsSound, Save, Loaded
  <2>2. CASE UNCHANGED fileVars
    BY <1>2, <1>3, <2>2 DEF KeepInv, SessionsSound, Loaded, fileVars
  <2> QED
    BY <1>1, <2>1, <2>2
<1>5. RecordedKept' /\ LastCheckpointKept'
  <2>1. CASE Save(mem')
    <3>1. main' = mem' /\ Loaded' = mem'
      BY <2>1 DEF Save, Loaded
    <3>2. /\ Range(Loaded.rows) \subseteq Range(mem'.rows) /\ mem'.jrnl = Loaded.jrnl
          /\ Range(Loaded.cp) \subseteq Range(mem'.rows) \cup Range(mem'.cp)
      BY <1>1 DEF Tidied
    <3>3. Names(main.rows) \subseteq Names(mem'.rows)
      BY <1>2, <3>2 DEF Names
    <3>4. RecordedKept'
      BY <1>1, <1>2, <3>1, <3>2, <3>3 DEF KeepInv, RecordedKept, historyVars
    <3>5. LastCheckpointKept'
      BY <1>1, <3>1, <3>2 DEF KeepInv, LastCheckpointKept, historyVars
    <3> QED
      BY <3>4, <3>5
  <2>2. CASE UNCHANGED fileVars
    BY <1>1, <2>2 DEF KeepInv, RecordedKept, LastCheckpointKept, Loaded, fileVars, historyVars
  <2> QED
    BY <1>1, <2>1, <2>2
<1>6. turn' = NoTurn /\ queue' = <<>>
  BY <1>1 DEF TypeInv, WaitOK
<1>7. TurnSound'
  BY <1>6, TurnTypes, TurnIsNew
<1>8. Places'
  <2>1. /\ Starting' = {} /\ Range(queue') = {} /\ Once(queue', Messages)
        /\ Names(turn'.new) = {}
    BY <1>6, TurnTypes, EmptyIs, EmptyDistinct DEF Starting
  <2>2. BusInputs' \subseteq Range(mem'.jrnl) /\ BusInputs' \subseteq Messages
    BY <1>1 DEF BusInputs
  <2>3. /\ Range(mem'.jrnl) \subseteq Known /\ Once(mem'.jrnl, Messages)
        /\ Range(mem'.jrnl) \cap Names(mem'.rows) = {}
    BY <1>3 DEF Sound
  <2>4. BusInputs' \subseteq sent'
    BY <1>1, <2>2, <2>3, TurnRecoveryAssumption DEF Known, historyVars
  <2> QED
    BY <1>1, <2>1, <2>2, <2>3, <2>4 DEF Places
<1> QED
  BY <1>4, <1>5, <1>7, <1>8 DEF KeepInv

LEMMA KeepInvInit == Init => KeepInv
<1> SUFFICES ASSUME Init
             PROVE  KeepInv
  OBVIOUS
<1>1. /\ main = NoSession /\ mem = NoSession /\ stale = TRUE
      /\ turn = NoTurn /\ queue = <<>> /\ bus = <<>>
      /\ recorded = {} /\ last = <<>>
  BY DEF Init
<1>2. SessionsSound
  BY <1>1, NoSessionSound DEF SessionsSound, Loaded
<1>3. RecordedKept /\ LastCheckpointKept
  BY <1>1, EmptyIs DEF RecordedKept, LastCheckpointKept
<1>4. TurnSound
  BY <1>1, TurnTypes, EmptyIs, EmptyDistinct DEF TurnSound
<1>5. Places
  <2>1. /\ Starting = {} /\ BusInputs = {} /\ Range(queue) = {}
        /\ Once(bus, Messages) /\ Once(queue, Messages)
    BY <1>1, TurnTypes, EmptyIs, EmptyDistinct DEF Starting, BusInputs
  <2> QED
    BY <2>1 DEF Places
<1> QED
  BY <1>2, <1>3, <1>4, <1>5 DEF KeepInv

LEMMA KeepInvNext == TypeInv /\ KeepInv /\ [Next]_vars => KeepInv'
<1> SUFFICES ASSUME TypeInv, KeepInv, [Next]_vars
             PROVE  KeepInv'
  OBVIOUS
<1>1. CASE UNCHANGED vars
  BY <1>1 DEF KeepInv, SessionsSound, RecordedKept, LastCheckpointKept, TurnSound, Places, Known,
     Starting, BusInputs, Loaded, vars, fileVars, historyVars
<1>2. CASE Arrive \/ Receive
  <2>1. \A m \in sent : m \in Messages
    BY DEF TypeInv, HistoryOK
  <2> QED
    BY <1>2, <2>1, DispatchKeeps, RouteKeeps, ResumeKeeps, SkipStaleKeeps DEF Arrive, Receive
<1>3. CASE Run
  BY <1>3, BeginKeeps, ToolDoneKeeps, AnswerKeeps, PersistKeeps, CompleteKeeps, CallToolKeeps,
     RunToolKeeps DEF Run
<1>4. CASE Boot \/ Fail \/ Stop
  BY <1>4, RestartKeeps, FailKeeps, StopKeeps DEF Boot
<1>5. CASE Continue \/ Dismiss \/ UpdateMetadata \/ Crash
  BY <1>5, ContinueKeeps, DismissKeeps, UpdateMetadataKeeps, CrashKeeps
<1> QED
  BY <1>1, <1>2, <1>3, <1>4, <1>5 DEF Next

LEMMA KeepInvHolds == Spec => [](TypeInv /\ KeepInv)
  BY TypeInvInit, TypeInvNext, KeepInvInit, KeepInvNext, PTL DEF Spec

\* An input that was written to disk is in the history or in the journal of the
\* session that a load gives: no end of a turn, no restart, dismissal or stale
\* checkpoint loses it.
THEOREM InputsAreKept == Spec => []InputNotLost
<1>1. TypeInv /\ KeepInv => InputNotLost
  <2> SUFFICES ASSUME TypeInv, KeepInv, NEW m \in recorded
               PROVE  m \in Users(Loaded.rows) \cup Range(Loaded.jrnl)
    BY DEF InputNotLost
  <2>1. /\ Loaded \in Sessions /\ Loaded.rows = main.rows /\ Loaded.jrnl = main.jrnl
    BY LoadedTypes DEF TypeInv
  <2>2. m \in Messages /\ m \in Names(main.rows) \cup Range(main.jrnl)
    BY DEF TypeInv, HistoryOK, KeepInv, RecordedKept
  <2>3. Users(Loaded.rows) = Names(Loaded.rows) \cap Messages
    BY <2>1, SessionTypes, InputNames
  <2> QED
    BY <2>1, <2>2, <2>3
<1> QED
  BY <1>1, KeepInvHolds, PTL

\* An input is a row of the history once, although its message is published again
\* at the end of a turn and after each restart.
THEOREM InputsAreRowsOnce == Spec => []InputOnce
<1>1. TypeInv /\ KeepInv => InputOnce
  <2> SUFFICES ASSUME TypeInv, KeepInv, NEW m \in Messages
               PROVE  Cardinality({i \in DOMAIN Loaded.rows : Loaded.rows[i] = User(m)}) <= 1
    BY DEF InputOnce
  <2> DEFINE D == {i \in DOMAIN Loaded.rows : Loaded.rows[i] = User(m)}
  <2>1. Distinct(Loaded.rows, spoiled) /\ spoiled \subseteq Nat
    BY DEF KeepInv, SessionsSound, Sound, TypeInv, HistoryOK
  <2>2. User(m).t = "user" /\ User(m).id = m /\ m \notin spoiled
    BY <2>1, RowTypes, TurnRecoveryAssumption
  <2>3. \A i, j \in D : i = j
    BY <2>1, <2>2 DEF Distinct, Same
  <2> HIDE DEF D
  <2>4. Cardinality(D) \in {0, 1}
    <3>1. CASE D = {}
      BY <3>1, FS_EmptySet
    <3>2. CASE D # {}
      <4>1. PICK i \in D : D = {i}
        BY <2>3, <3>2
      <4> QED
        BY <4>1, FS_Singleton
    <3> QED
      BY <3>1, <3>2
  <2>5. Cardinality(D) <= 1
    BY <2>4
  <2> QED
    BY <2>5 DEF D
<1> QED
  BY <1>1, KeepInvHolds, PTL

\* A call, its result and an answer are in the history once, restored or saved,
\* but for those of a checkpoint dismissed while its turn went on.
THEOREM RowsAreRowsOnce == Spec => []RowsOnce
<1>1. TypeInv /\ KeepInv => RowsOnce
  <2> SUFFICES ASSUME TypeInv, KeepInv,
                      NEW i \in DOMAIN Loaded.rows, NEW j \in DOMAIN Loaded.rows
               PROVE  LET a == Loaded.rows[i] b == Loaded.rows[j]
                      IN i # j /\ a.id = b.id /\ a.t \notin {"user", "notice"}
                           /\ a.id \notin spoiled =>
                           "call" \in {a.t, b.t} /\ a.t # b.t
    BY DEF RowsOnce
  <2> DEFINE a == Loaded.rows[i]
             b == Loaded.rows[j]
  <2> SUFFICES ASSUME i # j, a.id = b.id, a.t \notin {"user", "notice"}, a.id \notin spoiled
               PROVE  "call" \in {a.t, b.t} /\ a.t # b.t
    OBVIOUS
  <2>1. Sound(Loaded, Known, spoiled)
    BY DEF KeepInv, SessionsSound
  <2>2. Loaded.rows \in Seq(Rows)
    BY LoadedTypes, SessionTypes DEF TypeInv
  <2>3. a \in Range(Loaded.rows) /\ b \in Range(Loaded.rows)
    BY DEF Range
  <2>4. a \in Rows /\ b \in Rows
    BY <2>2, <2>3, SeqRange
  <2>5. a.id # 0
    <3>1. a.id \in Known
      BY <2>1, <2>3 DEF Sound, Names
    <3>2. 0 \notin sent /\ 0 \notin 1..ids
      BY TurnRecoveryAssumption DEF TypeInv, HistoryOK, TurnOK
    <3> QED
      BY <3>1, <3>2 DEF Known
  <2>6. b.t # "notice"
    BY <2>4, <2>5 DEF Rows
  <2>7. ~Same(a, b)
    BY <2>1, <2>6 DEF Sound, Distinct
  <2> QED
    BY <2>7 DEF Same
<1> QED
  BY <1>1, KeepInvHolds, PTL

\* What the last checkpoint said is in the session that a load gives, whatever
\* ended the turn and however often it was restored.
THEOREM CheckpointsAreKept == Spec => []LastCheckpointKept
<1>1. KeepInv => LastCheckpointKept
  BY DEF KeepInv
<1> QED
  BY <1>1, KeepInvHolds, PTL

-----------------------------------------------------------------------------
\* Continuations

\* Only Continue sets "resuming", and whatever takes the user's word back ends
\* that state or the turn: a turn that goes on after it was dismissed late.
WishInv ==
  /\ mem.rec.st = "resuming" => wish = "yes"
  /\ turn.kind = "recovery" =>
       wish = "late" \/ (wish = "yes" /\ mem.rec.st = "resuming")

\* A step that leaves the user's word, the recovery state and the kind of the
\* turn as they are.
LEMMA Indifferent ==
  ASSUME WishInv, wish' = wish, mem'.rec = mem.rec, turn'.kind = turn.kind
  PROVE  WishInv'
  BY DEF WishInv

\* The end of a turn.
LEMMA EndTurnWanted ==
  ASSUME WishInv, wish' = wish, NEW s, EndTurn(s),
         s.rec.st = "resuming" => mem.rec.st = "resuming"
  PROVE  WishInv'
  BY TurnTypes DEF EndTurn, WishInv

LEMMA InputWanted ==
  ASSUME TypeInv, WishInv, NEW m \in Messages, Dispatch(m) \/ Route(m)
  PROVE  WishInv'
<1>1. mem \in Sessions
  BY DEF TypeInv, FilesOK
<1>2. CASE Dispatch(m)
  <2> DEFINE s == Close(Restore(Admit(mem)))
  <2>1. mem' = s /\ turn' = Turn("user", m)
    BY <1>2 DEF Dispatch
  <2>2. s.rec.st \notin Open
    BY <1>1, ReadyTypes
  <2> HIDE DEF s
  <2> QED
    BY <2>1, <2>2, TurnTypes DEF WishInv, Open
\* An input joins a continuation only after that was dismissed.
<1>3. CASE Route(m)
  <2> DEFINE s == Journal(mem, m)
  <2>1. /\ mem.rec.st \notin Open /\ mem' = s /\ turn' = turn
        /\ wish' = IF wish = "late" THEN wish ELSE "no"
    BY <1>3, RouteAdmits DEF Route
  <2>2. s.rec = mem.rec
    BY <1>1, JournalTypes
  <2> HIDE DEF s
  <2> QED
    BY <2>1, <2>2 DEF WishInv, Open
<1> QED
  BY <1>2, <1>3

LEMMA ContinuationWaits ==
  ASSUME TypeInv, WishInv, NEW r, Resume(r) \/ SkipStale(r)
  PROVE  WishInv'
<1>1. CASE Resume(r)
  <2>1. /\ mem' = Restore(mem) /\ turn' = Turn("recovery", 0) /\ mem.rec.st = "resuming"
        /\ wish' = wish
    BY <1>1 DEF Resume, Admissible
  <2>2. Restore(mem).rec = mem.rec
    BY RestoreTypes DEF TypeInv, FilesOK
  <2> QED
    BY <2>1, <2>2, TurnTypes DEF WishInv
<1>2. CASE SkipStale(r)
  BY <1>2, Indifferent DEF SkipStale, historyVars
<1> QED
  BY <1>1, <1>2

LEMMA TurnWanted ==
  ASSUME TypeInv, WishInv, Run
  PROVE  WishInv'
<1>1. "kind" \in DOMAIN turn
  BY DEF TypeInv, TurnOK, Turns
<1>2. ASSUME NEW rows, Checkpoint(rows)
      PROVE  mem'.rec = mem.rec
  BY <1>2 DEF Checkpoint, TypeInv, FilesOK, Sessions
<1>3. CASE Begin
  <2>1. wish' = wish /\ turn'.kind = turn.kind
    BY <1>1, <1>3 DEF Begin
  <2>2. mem'.rec = mem.rec
    BY <1>3, BeginIs DEF Begin
  <2> QED
    BY <2>1, <2>2, Indifferent
<1>4. ASSUME NEW op \in Ops, CallTool(op)
      PROVE  WishInv'
  <2>1. wish' = wish /\ turn'.kind = turn.kind /\ Checkpoint(Awaiting(ids', op))
    BY <1>1, <1>4 DEF CallTool
  <2> QED
    BY <1>2, <2>1, Indifferent
<1>5. ASSUME NEW approved \in BOOLEAN, RunTool(approved)
      PROVE  WishInv'
  BY <1>1, <1>5, Indifferent DEF RunTool
<1>6. CASE ToolDone
  <2>1. wish' = wish /\ turn'.kind = turn.kind /\ Checkpoint(Completed(ids, turn.op))
    BY <1>1, <1>6 DEF ToolDone
  <2> QED
    BY <1>2, <2>1, Indifferent
<1>7. CASE Answer
  <2>1. wish' = wish /\ turn'.kind = turn.kind /\ Checkpoint(Final(ids'))
    BY <1>1, <1>7 DEF Answer
  <2> QED
    BY <1>2, <2>1, Indifferent
<1>8. CASE Persist
  <2>1. wish' = wish /\ turn'.kind = turn.kind
    BY <1>1, <1>8 DEF Persist, historyVars
  <2> QED
    BY <1>8, <2>1, PersistIs, Indifferent
<1>9. CASE Complete
  <2>1. wish' = wish /\ EndTurn(Resolve(mem))
    BY <1>9 DEF Complete, historyVars
  <2>2. Resolve(mem).rec.st # "resuming"
    BY ResolveTypes DEF TypeInv, FilesOK
  <2> QED
    BY <2>1, <2>2, EndTurnWanted
<1> QED
  BY <1>3, <1>4, <1>5, <1>6, <1>7, <1>8, <1>9 DEF Run

LEMMA WishInvInit == Init => WishInv
  BY NoSessionTypes, TurnTypes DEF Init, WishInv

LEMMA WishInvNext == TypeInv /\ WishInv /\ [Next]_vars => WishInv'
<1> SUFFICES ASSUME TypeInv, WishInv, [Next]_vars
             PROVE  WishInv'
  OBVIOUS
<1>1. CASE UNCHANGED vars
  BY <1>1 DEF WishInv, vars, historyVars
<1>2. CASE Arrive \/ Receive
  <2>1. \A m \in sent : m \in Messages
    BY DEF TypeInv, HistoryOK
  <2> QED
    BY <1>2, <2>1, InputWanted, ContinuationWaits DEF Arrive, Receive
<1>3. CASE Run
  BY <1>3, TurnWanted
<1>4. CASE Boot
  <2>1. PICK unfinished \in BOOLEAN : Restart(unfinished)
    BY <1>4 DEF Boot
  <2>2. ~up /\ mem'.rec.st # "resuming" /\ UNCHANGED <<turn, historyVars>>
    BY <2>1, RestartIs
  <2>3. turn'.kind = "none"
    BY <2>2, TurnTypes DEF TypeInv, WaitOK
  <2> QED
    BY <2>2, <2>3 DEF WishInv
<1>5. CASE Fail \/ Stop
  <2>1. Resolve(mem).rec.st # "resuming" /\ Restore(mem).rec = mem.rec
    BY ResolveTypes, RestoreTypes DEF TypeInv, FilesOK
  <2> QED
    BY <1>5, <2>1, EndTurnWanted DEF Fail, Stop
<1>6. CASE Continue
  <2>1. wish' = "yes" /\ turn' = turn /\ mem'.rec.st = "resuming"
    BY <1>6, ContinueIs DEF Continue
  <2> QED
    BY <2>1 DEF WishInv
<1>7. CASE Dismiss
  <2>1. /\ wish' = IF turn.kind = "recovery" THEN "late" ELSE "no"
        /\ turn' = turn /\ mem'.rec.st = "recovered"
    BY <1>7, DismissIs DEF Dismiss
  <2> QED
    BY <2>1 DEF WishInv
<1>8. CASE UpdateMetadata
  BY <1>8, Indifferent DEF UpdateMetadata, historyVars
<1>9. CASE Crash
  BY <1>9, NoSessionTypes, TurnTypes DEF Crash, WishInv
<1> QED
  BY <1>1, <1>2, <1>3, <1>4, <1>5, <1>6, <1>7, <1>8, <1>9 DEF Next

\* A continuation runs only while Continue is the user's last word, or was when
\* it began and it was dismissed since: a stop, an exception, a crash, a newer
\* input or a stale message on the bus never starts one.
THEOREM ContinuationsAreWanted == Spec => []ContinuationWanted
<1>1. WishInv => ContinuationWanted
  BY DEF WishInv, ContinuationWanted
<1> QED
  BY <1>1, TypeInvInit, TypeInvNext, WishInvInit, WishInvNext, PTL DEF Spec
=============================================================================
