------------------------- MODULE V5GenerationProofs -------------------------
(***************************************************************************)
(* Proofs about V5Generation, for any plans, frequencies, pools, calls,    *)
(* faults and removals of the root: type correctness, the truth of a       *)
(* manifest, and that the files under it hold every selected path once.    *)
(***************************************************************************)
EXTENDS V5Generation, TLAPS, FiniteSetTheorems, SequenceTheorems,
        WellFoundedInduction

-----------------------------------------------------------------------------
(* Sequences that are flattened *)

LEMMA LeastNumber ==
  ASSUME NEW T \in SUBSET Nat, T # {}
  PROVE  \E x \in T : \A y \in T : x <= y
<1>1. IsWellFoundedOn(OpToRel(<, Nat), Nat)
  BY NatLessThanWellFounded
<1>2. PICK x \in T : \A y \in T : ~(<<y, x>> \in OpToRel(<, Nat))
  BY <1>1, WFMin
<1>3. \A y \in T : ~(y < x)
  BY <1>2 DEF OpToRel
<1> QED
  BY <1>3

\* A function on the first n numbers is a sequence.
LEMMA IsSeq ==
  ASSUME NEW T, NEW n \in Nat, NEW f \in [1..n -> T]
  PROVE  f \in Seq(T)
BY SeqDef, Zenon

\* The sequences that are flattened up to the i-th.
Flattens(s, n, f) == f = [i \in 1..n |-> IF i = 1 THEN s[i] ELSE f[i - 1] \o s[i]]

\* There is one for every length.
LEMMA FlattensExists ==
  ASSUME NEW s, NEW n \in Nat
  PROVE  \E f : Flattens(s, n, f)
<1> DEFINE Bad == {k \in Nat : ~\E f : Flattens(s, k, f)}
<1> SUFFICES ASSUME Bad # {} PROVE FALSE
  OBVIOUS
<1>1. PICK k \in Bad : \A l \in Bad : k <= l
  BY LeastNumber
<1>2. k # 0
  <2>1. Flattens(s, 0, [i \in 1..0 |-> s])
    BY DEF Flattens
  <2> QED
    BY <2>1
<1>3. k - 1 \in Nat /\ k - 1 \notin Bad
  BY <1>1, <1>2
<1>4. PICK f : Flattens(s, k - 1, f)
  BY <1>3
<1> DEFINE g == [i \in 1..k |-> IF i < k THEN f[i]
                               ELSE IF i = 1 THEN s[i] ELSE f[i - 1] \o s[i]]
<1>5. \A i \in 1..(k - 1) : f[i] = IF i = 1 THEN s[i] ELSE f[i - 1] \o s[i]
  BY <1>4 DEF Flattens
<1>6. ASSUME NEW i \in 1..k PROVE g[i] = IF i = 1 THEN s[i] ELSE g[i - 1] \o s[i]
  <2>1. CASE i = 1
    <3>1. k > 1 => 1 \in 1..(k - 1)
      BY <1>1
    <3> QED
      BY <2>1, <1>5, <3>1
  <2>2. CASE i # 1
    <3>1. i - 1 \in 1..k /\ i - 1 < k /\ g[i - 1] = f[i - 1]
      BY <1>1, <2>2
    <3>2. CASE i = k
      <4>1. ~(i < k)
        BY <1>1, <3>2
      <4>2. g[i] = f[i - 1] \o s[i]
        BY <2>2, <4>1
      <4> QED
        BY <2>2, <3>1, <4>2
    <3>3. CASE i < k
      <4>1. i \in 1..(k - 1)
        BY <1>1, <3>3
      <4>2. f[i] = f[i - 1] \o s[i]
        BY <4>1, <2>2, <1>5
      <4> QED
        BY <2>2, <3>1, <3>3, <4>2
    <3> QED
      BY <1>1, <3>2, <3>3
  <2> QED
    BY <2>1, <2>2
<1>7. Flattens(s, k, g)
  BY <1>6, Zenon DEF Flattens
<1> QED
  BY <1>1, <1>7

LEMMA FlattenSeqIs ==
  ASSUME NEW s, Len(s) \in Nat \ {0}
  PROVE  \E f : Flattens(s, Len(s), f) /\ FlattenSeq(s) = f[Len(s)]
<1> DEFINE F == CHOOSE f : f = [i \in 1..Len(s) |-> IF i = 1 THEN s[i] ELSE f[i - 1] \o s[i]]
<1>1. \E f : f = [i \in 1..Len(s) |-> IF i = 1 THEN s[i] ELSE f[i - 1] \o s[i]]
  BY FlattensExists DEF Flattens
<1>2. Flattens(s, Len(s), F)
  BY <1>1, Zenon DEF Flattens
<1>3. FlattenSeq(s) = F[Len(s)]
  BY DEF FlattenSeq
<1> QED
  BY <1>2, <1>3

\* Where the elements of the first k sequences are, in a sequence F of them all.
Lays(s, k, F, seg, off) ==
    /\ \A i \in DOMAIN F : /\ seg[i] \in 1..k /\ off[i] \in DOMAIN s[seg[i]]
                           /\ F[i] = s[seg[i]][off[i]]
    /\ \A i, j \in DOMAIN F : seg[i] = seg[j] /\ off[i] = off[j] => i = j
    /\ \A m \in 1..k : \A n \in DOMAIN s[m] : \E i \in DOMAIN F : seg[i] = m /\ off[i] = n

\* One more sequence at the end.
LEMMA LaysOneMore ==
  ASSUME NEW S, NEW s \in Seq(Seq(S)), NEW k \in Nat, k + 1 \in DOMAIN s,
         NEW F \in Seq(S), NEW seg, NEW off, Lays(s, k, F, seg, off)
  PROVE  \E seg1, off1 : Lays(s, k + 1, F \o s[k + 1], seg1, off1)
<1> DEFINE L == Len(F)
           G == F \o s[k + 1]
           seg1 == [i \in DOMAIN G |-> IF i <= L THEN seg[i] ELSE k + 1]
           off1 == [i \in DOMAIN G |-> IF i <= L THEN off[i] ELSE i - L]
<1>1. /\ s[k + 1] \in Seq(S) /\ L \in Nat /\ DOMAIN F = 1..L
      /\ Len(s[k + 1]) \in Nat /\ DOMAIN s[k + 1] = 1..Len(s[k + 1])
  OBVIOUS
<1>2. /\ DOMAIN G = 1..(L + Len(s[k + 1]))
      /\ \A i \in 1..L : G[i] = F[i]
      /\ \A i \in DOMAIN G : i > L => G[i] = s[k + 1][i - L]
  BY <1>1
<1> HIDE DEF G, L
<1>3. ASSUME NEW i \in DOMAIN G
      PROVE  /\ seg1[i] \in 1..(k + 1) /\ off1[i] \in DOMAIN s[seg1[i]]
             /\ G[i] = s[seg1[i]][off1[i]]
  <2>1. CASE i <= L
    <3>1. i \in DOMAIN F /\ seg1[i] = seg[i] /\ off1[i] = off[i] /\ G[i] = F[i]
      BY <1>1, <1>2, <1>3, <2>1
    <3>2. seg[i] \in 1..k /\ off[i] \in DOMAIN s[seg[i]] /\ F[i] = s[seg[i]][off[i]]
      BY <3>1 DEF Lays
    <3> QED
      BY <3>1, <3>2
  <2>2. CASE i > L
    <3>1. seg1[i] = k + 1 /\ off1[i] = i - L
      BY <1>1, <1>2, <1>3, <2>2
    <3>2. i - L \in DOMAIN s[k + 1] /\ G[i] = s[k + 1][i - L]
      BY <1>1, <1>2, <1>3, <2>2
    <3> QED
      BY <3>1, <3>2
  <2> QED
    BY <1>1, <1>2, <1>3, <2>1, <2>2
<1>4. ASSUME NEW i \in DOMAIN G, NEW j \in DOMAIN G, seg1[i] = seg1[j], off1[i] = off1[j]
      PROVE  i = j
  <2>1. \A l \in DOMAIN G : l <= L <=> seg1[l] \in 1..k
    <3>1. \A l \in DOMAIN G : l <= L => seg[l] \in 1..k
      BY <1>1, <1>2 DEF Lays
    <3>2. k + 1 \notin 1..k
      OBVIOUS
    <3> QED
      BY <1>1, <1>2, <3>1, <3>2
  <2>2. CASE i <= L
    <3>1. j <= L
      BY <1>4, <2>1, <2>2
    <3>2. i \in DOMAIN F /\ j \in DOMAIN F /\ seg[i] = seg[j] /\ off[i] = off[j]
      BY <1>1, <1>2, <1>4, <2>2, <3>1
    <3> QED
      BY <3>2 DEF Lays
  <2>3. CASE ~(i <= L)
    <3>1. ~(j <= L)
      BY <1>4, <2>1, <2>3
    <3>2. i - L = j - L
      BY <1>4, <2>3, <3>1
    <3> QED
      BY <1>1, <1>2, <3>2
  <2> QED
    BY <2>2, <2>3
<1>5. ASSUME NEW m \in 1..(k + 1), NEW n \in DOMAIN s[m]
      PROVE  \E i \in DOMAIN G : seg1[i] = m /\ off1[i] = n
  <2>1. CASE m \in 1..k
    <3>1. PICK i \in DOMAIN F : seg[i] = m /\ off[i] = n
      BY <1>5, <2>1 DEF Lays
    <3>2. i \in DOMAIN G /\ i <= L
      BY <1>1, <1>2, <3>1
    <3> QED
      BY <3>1, <3>2
  <2>2. CASE m = k + 1
    <3>1. n \in Nat \ {0} /\ L + n \in DOMAIN G
      BY <1>1, <1>2, <1>5, <2>2
    <3>2. seg1[L + n] = m /\ off1[L + n] = n
      BY <1>1, <2>2, <3>1
    <3> QED
      BY <3>1, <3>2
  <2> QED
    BY <2>1, <2>2
<1>6. Lays(s, k + 1, G, seg1, off1)
  <2> HIDE DEF seg1, off1
  <2> QED
    BY <1>3, <1>4, <1>5 DEF Lays
<1> QED
  BY <1>6 DEF G

\* What is flattened is all of it, each element in one place.
LEMMA FlattenLays ==
  ASSUME NEW S, NEW s \in Seq(Seq(S)), s # << >>
  PROVE  /\ FlattenSeq(s) \in Seq(S)
         /\ \E seg, off : Lays(s, Len(s), FlattenSeq(s), seg, off)
<1>1. Len(s) \in Nat \ {0} /\ DOMAIN s = 1..Len(s) /\ \A i \in DOMAIN s : s[i] \in Seq(S)
  OBVIOUS
<1>2. PICK f : Flattens(s, Len(s), f) /\ FlattenSeq(s) = f[Len(s)]
  BY <1>1, FlattenSeqIs
<1>3. \A i \in 1..Len(s) : f[i] = IF i = 1 THEN s[i] ELSE f[i - 1] \o s[i]
  BY <1>2 DEF Flattens
<1> DEFINE Good(k) == f[k] \in Seq(S) /\ \E seg, off : Lays(s, k, f[k], seg, off)
           Bad == {k \in 1..Len(s) : ~Good(k)}
<1>4. Bad = {}
  <2> SUFFICES ASSUME Bad # {} PROVE FALSE
    OBVIOUS
  <2>1. PICK k \in Bad : \A l \in Bad : k <= l
    <3>1. Bad \in SUBSET Nat
      OBVIOUS
    <3> QED
      BY <3>1, LeastNumber
  <2>2. k \in 1..Len(s) /\ ~Good(k)
    BY <2>1
  <2>3. CASE k = 1
    <3>1. f[1] = s[1] /\ s[1] \in Seq(S)
      BY <1>1, <1>3
    <3>2. Lays(s, 1, s[1], [i \in DOMAIN s[1] |-> 1], [i \in DOMAIN s[1] |-> i])
      BY <3>1 DEF Lays
    <3> QED
      BY <2>2, <2>3, <3>1, <3>2
  <2>4. CASE k # 1
    <3>1. k - 1 \in 1..Len(s) /\ k - 1 \in Nat /\ (k - 1) + 1 = k /\ k \in DOMAIN s
      BY <1>1, <2>2, <2>4
    <3>2. Good(k - 1)
      BY <2>1, <3>1
    <3>3. f[k] = f[k - 1] \o s[k]
      BY <1>3, <2>2, <2>4
    <3>4. f[k] \in Seq(S)
      BY <1>1, <3>1, <3>2, <3>3
    <3>5. PICK seg, off : Lays(s, k - 1, f[k - 1], seg, off)
      BY <3>2
    <3>6. \E seg1, off1 : Lays(s, k, f[k], seg1, off1)
      BY <3>1, <3>2, <3>3, <3>5, LaysOneMore
    <3> QED
      BY <2>2, <3>4, <3>6
  <2> QED
    BY <2>3, <2>4
<1> QED
  BY <1>1, <1>2, <1>4

-----------------------------------------------------------------------------
(* What a plan covers *)

\* Division by the size of a shard.
LEMMA Divides ==
  ASSUME NEW n \in Nat, NEW size \in Nat \ {0}
  PROVE  /\ n \div size \in Nat
         /\ (n \div size) * size <= n
         /\ n < (n \div size) * size + size
  OBVIOUS

LEMMA Multiples ==
  ASSUME NEW i \in Nat, NEW j \in Nat, i < j, NEW size \in Nat \ {0}
  PROVE  i * size + size <= j * size
<1>1. PICK d \in Nat : j = i + 1 + d
  <2>1. j - i - 1 \in Nat /\ j = i + 1 + (j - i - 1)
    OBVIOUS
  <2> QED
    BY <2>1
<1>2. (i + 1 + d) * size = i * size + size + d * size
  OBVIOUS
<1>3. d * size \in Nat
  OBVIOUS
<1> QED
  BY <1>1, <1>2, <1>3

\* The shards of a range cut it into pieces.
LEMMA ShardsCut ==
  ASSUME NEW r \in PathRange, NEW size \in Nat \ {0}
  PROVE  LET shards == Shards(r, size)
         IN /\ shards \in Seq([role : Range(Roles), first : Nat, last : Nat])
            /\ shards # << >>
            /\ \A i \in DOMAIN shards : /\ shards[i].role = r.role
                                        /\ Paths(shards[i]) \subseteq Paths(r)
                                        /\ shards[i].first \in Paths(shards[i])
            /\ \A p \in Paths(r) : \E i \in DOMAIN shards : p \in Paths(shards[i])
            /\ \A i, j \in DOMAIN shards :
                 i # j => Paths(shards[i]) \cap Paths(shards[j]) = {}
<1> DEFINE shards == Shards(r, size)
           a == r.first
           b == r.last
           N == (b - a) \div size + 1
           first(i) == a + (i - 1) * size
<1>1. a \in Nat /\ b \in Nat /\ a <= b /\ b - a \in Nat /\ r.role \in Range(Roles)
  BY DEF PathRange
<1>2. /\ N \in Nat \ {0} /\ (N - 1) * size <= b - a /\ b - a < (N - 1) * size + size
      /\ N - 1 = (b - a) \div size
  <2> DEFINE q == (b - a) \div size
  <2>1. q \in Nat /\ q * size <= b - a /\ b - a < q * size + size
    BY <1>1, Divides
  <2>2. N = q + 1
    OBVIOUS
  <2> HIDE DEF q, N
  <2>3. N - 1 = q
    BY <2>1, <2>2
  <2> QED
    BY <2>1, <2>2, <2>3 DEF q
<1>3. /\ DOMAIN shards = 1..N
      /\ \A i \in 1..N :
           shards[i] = [role |-> r.role, first |-> first(i),
                        last |-> IF first(i) + size - 1 < b THEN first(i) + size - 1 ELSE b]
  BY DEF Shards
<1>4. \A i \in 1..N : first(i) \in Nat /\ a <= first(i) /\ first(i) <= b
  <2> TAKE i \in 1..N
  <2>1. (i - 1) * size \in Nat
    BY <1>2
  <2>2. (i - 1) * size <= (N - 1) * size
    <3>1. CASE i = N
      BY <3>1, <2>1
    <3>2. CASE i # N
      <4>1. i - 1 \in Nat /\ N - 1 \in Nat /\ i - 1 < N - 1
        BY <1>2, <3>2
      <4>2. (i - 1) * size + size <= (N - 1) * size
        BY <4>1, Multiples
      <4>3. (N - 1) * size \in Nat
        BY <4>1
      <4> QED
        BY <2>1, <4>2, <4>3
    <3> QED
      BY <3>1, <3>2
  <2>3. (N - 1) * size \in Nat
    BY <1>2
  <2> QED
    BY <1>1, <1>2, <2>1, <2>2, <2>3
<1>5. \A i, j \in 1..N : i < j => first(i) + size <= first(j)
  <2> SUFFICES ASSUME NEW i \in 1..N, NEW j \in 1..N, i < j
               PROVE  first(i) + size <= first(j)
    OBVIOUS
  <2>1. i - 1 \in Nat /\ j - 1 \in Nat /\ i - 1 < j - 1
    BY <1>2
  <2>2. (i - 1) * size + size <= (j - 1) * size
    BY <2>1, Multiples
  <2>3. (i - 1) * size \in Nat /\ (j - 1) * size \in Nat
    BY <2>1
  <2> QED
    BY <1>1, <2>2, <2>3
<1>6. ASSUME NEW p \in a..b PROVE \E i \in 1..N : first(i) <= p /\ p <= first(i) + size - 1
  <2> DEFINE q == (p - a) \div size
  <2>1. p - a \in Nat /\ q \in Nat /\ q * size <= p - a /\ p - a < q * size + size
    BY <1>1, Divides
  <2>2. q + 1 \in 1..N
    <3> SUFFICES ASSUME N - 1 < q PROVE FALSE
      BY <1>2, <2>1
    <3>1. N - 1 \in Nat /\ (N - 1) * size + size <= q * size
      BY <1>2, <2>1, Multiples
    <3>2. (N - 1) * size \in Nat /\ q * size \in Nat
      BY <2>1, <3>1
    <3> QED
      BY <1>1, <1>2, <2>1, <3>1, <3>2
  <2>3. first(q + 1) = a + q * size /\ q * size \in Nat
    BY <2>1
  <2>4. first(q + 1) <= p /\ p <= first(q + 1) + size - 1
    BY <1>1, <2>1, <2>3
  <2> QED
    BY <2>2, <2>4
<1> HIDE DEF first, N, shards
<1>7. N \in Nat
  BY <1>2
<1>8. \A i \in 1..N : /\ shards[i].role = r.role /\ shards[i].first = first(i)
                      /\ shards[i].last \in Nat
                      /\ shards[i].last = IF first(i) + size - 1 < b
                                          THEN first(i) + size - 1 ELSE b
                      /\ shards[i] \in [role : Range(Roles), first : Nat, last : Nat]
  BY <1>1, <1>3, <1>4
<1>9. shards \in Seq([role : Range(Roles), first : Nat, last : Nat]) /\ shards # << >>
  <2>1. shards = [i \in 1..N |-> shards[i]]
    BY <1>3 DEF shards, Shards, N
  <2>2. shards \in [1..N -> [role : Range(Roles), first : Nat, last : Nat]]
    BY <1>8, <2>1
  <2>3. shards \in Seq([role : Range(Roles), first : Nat, last : Nat])
    BY <1>7, <2>2, IsSeq
  <2>4. 1 \in DOMAIN shards /\ DOMAIN << >> = {}
    BY <1>2, <1>3
  <2> QED
    BY <2>3, <2>4
<1>10. \A i \in 1..N : /\ Paths(shards[i]) \subseteq Paths(r)
                       /\ shards[i].first \in Paths(shards[i])
  BY <1>1, <1>4, <1>8 DEF Paths
<1>11. \A p \in Paths(r) : \E i \in 1..N : p \in Paths(shards[i])
  <2> TAKE p \in Paths(r)
  <2>1. p \in a..b
    BY DEF Paths
  <2>2. PICK i \in 1..N : first(i) <= p /\ p <= first(i) + size - 1
    BY <1>6, <2>1
  <2>3. p \in Paths(shards[i])
    BY <1>1, <1>4, <1>8, <2>1, <2>2 DEF Paths
  <2> QED
    BY <2>3
<1>12. \A i, j \in 1..N : i < j => Paths(shards[i]) \cap Paths(shards[j]) = {}
  BY <1>1, <1>4, <1>5, <1>8 DEF Paths
<1>13. \A i, j \in 1..N : i # j => Paths(shards[i]) \cap Paths(shards[j]) = {}
  <2> SUFFICES ASSUME NEW i \in 1..N, NEW j \in 1..N, i # j
               PROVE  Paths(shards[i]) \cap Paths(shards[j]) = {}
    OBVIOUS
  <2>1. i < j \/ j < i
    BY <1>7
  <2> QED
    BY <1>12, <2>1
<1> QED
  BY <1>3, <1>8, <1>9, <1>10, <1>11, <1>13 DEF shards

\* The work units of a plan cut its ranges into pieces, each of its own number.
LEMMA UnitsCut ==
  ASSUME NEW ranges, Legal(ranges), NEW size \in Nat \ {0}
  PROVE  LET units == WorkUnits(ranges, size)
         IN /\ Len(units) \in Nat \ {0} /\ DOMAIN units = 1..Len(units)
            /\ \A T : (\A i \in DOMAIN units : units[i] \in T) => units \in Seq(T)
            /\ \A i \in DOMAIN units : \E m \in DOMAIN ranges :
                 units[i].role = ranges[m].role /\ Paths(units[i]) \subseteq Paths(ranges[m])
            /\ \A m \in DOMAIN ranges : \A p \in Paths(ranges[m]) :
                 \E i \in DOMAIN units : p \in Paths(units[i])
            /\ \A i, j \in DOMAIN units : i # j =>
                 units[i] # units[j] /\ Paths(units[i]) \cap Paths(units[j]) = {}
<1> DEFINE s == [m \in DOMAIN ranges |-> Shards(ranges[m], size)]
           F == FlattenSeq(s)
           units == WorkUnits(ranges, size)
           Shard == [role : Range(Roles), first : Nat, last : Nat]
<1>1. /\ ranges \in Seq(PathRange) /\ ranges # << >>
      /\ \A i, j \in DOMAIN ranges : i < j => Paths(ranges[i]) \cap Paths(ranges[j]) = {}
  BY DEF Legal
<1>2. Len(ranges) \in Nat \ {0} /\ DOMAIN ranges = 1..Len(ranges)
      /\ \A m \in DOMAIN ranges : ranges[m] \in PathRange
  BY <1>1
<1>3. ASSUME NEW m \in DOMAIN ranges
      PROVE  /\ s[m] \in Seq(Shard) /\ s[m] # << >>
             /\ \A n \in DOMAIN s[m] : /\ s[m][n].role = ranges[m].role
                                       /\ Paths(s[m][n]) \subseteq Paths(ranges[m])
                                       /\ s[m][n].first \in Paths(s[m][n])
             /\ \A p \in Paths(ranges[m]) : \E n \in DOMAIN s[m] : p \in Paths(s[m][n])
             /\ \A n, l \in DOMAIN s[m] : n # l => Paths(s[m][n]) \cap Paths(s[m][l]) = {}
  BY <1>2, ShardsCut
<1>4. s \in Seq(Seq(Shard)) /\ s # << >> /\ Len(s) = Len(ranges) /\ DOMAIN s = DOMAIN ranges
  <2>1. DOMAIN s = 1..Len(ranges) /\ s \in [1..Len(ranges) -> Seq(Shard)]
    BY <1>2, <1>3
  <2>2. s \in Seq(Seq(Shard))
    <3> HIDE DEF s, Shard
    <3>1. Len(ranges) \in Nat
      BY <1>2
    <3> QED
      BY <2>1, <3>1, IsSeq
  <2>3. 1 \in DOMAIN s /\ DOMAIN << >> = {}
    BY <1>2, <2>1
  <2> HIDE DEF s
  <2>4. Len(s) \in Nat /\ DOMAIN s = 1..Len(s)
    BY <2>2
  <2>5. Len(s) = Len(ranges)
    BY <1>2, <2>1, <2>4
  <2> QED
    BY <1>2, <2>1, <2>2, <2>3, <2>5
<1>5. F \in Seq(Shard) /\ \E seg, off : Lays(s, Len(s), F, seg, off)
  <2> HIDE DEF s, Shard
  <2> QED
    BY <1>4, FlattenLays
<1>6. PICK seg, off : Lays(s, Len(s), F, seg, off)
  BY <1>5
<1>7. units = [i \in DOMAIN F |-> [role |-> F[i].role, shard |-> i - 1,
                                   first |-> F[i].first, last |-> F[i].last]]
  BY DEF WorkUnits
<1> HIDE DEF s, F, units
<1>8. \A i \in DOMAIN F :
        /\ seg[i] \in DOMAIN ranges /\ off[i] \in DOMAIN s[seg[i]]
        /\ F[i] = s[seg[i]][off[i]]
  BY <1>2, <1>4, <1>6 DEF Lays
<1>9. Len(F) \in Nat \ {0} /\ DOMAIN F = 1..Len(F)
  <2>1. Len(F) \in Nat /\ DOMAIN F = 1..Len(F)
    BY <1>5
  <2>2. 1 \in DOMAIN ranges /\ 1 \in 1..Len(s)
    BY <1>2, <1>4
  <2>5. s[1] \in Seq(Shard) /\ s[1] # << >>
    BY <1>3, <2>2
  <2>3. 1 \in DOMAIN s[1]
    BY <2>5
  <2>4. \E i \in DOMAIN F : seg[i] = 1 /\ off[i] = 1
    BY <1>6, <2>2, <2>3 DEF Lays
  <2> QED
    BY <2>1, <2>4
<1>10. /\ DOMAIN units = DOMAIN F /\ Len(units) = Len(F)
       /\ \A i \in DOMAIN F : /\ units[i].role = F[i].role /\ units[i].shard = i - 1
                              /\ Paths(units[i]) = Paths(F[i])
  BY <1>7, <1>9 DEF Paths
<1>11. \A T : (\A i \in DOMAIN units : units[i] \in T) => units \in Seq(T)
  <2> SUFFICES ASSUME NEW T, \A i \in DOMAIN units : units[i] \in T PROVE units \in Seq(T)
    OBVIOUS
  <2>1. units \in [1..Len(F) -> T]
    BY <1>7, <1>9, <1>10
  <2> QED
    BY <1>9, <2>1, IsSeq
<1>12. \A i \in DOMAIN units : \E m \in DOMAIN ranges :
         units[i].role = ranges[m].role /\ Paths(units[i]) \subseteq Paths(ranges[m])
  BY <1>3, <1>8, <1>10
<1>13. \A m \in DOMAIN ranges : \A p \in Paths(ranges[m]) :
         \E i \in DOMAIN units : p \in Paths(units[i])
  <2> TAKE m \in DOMAIN ranges
  <2> TAKE p \in Paths(ranges[m])
  <2>1. PICK n \in DOMAIN s[m] : p \in Paths(s[m][n])
    BY <1>3
  <2>2. PICK i \in DOMAIN F : seg[i] = m /\ off[i] = n
    BY <1>2, <1>4, <1>6 DEF Lays
  <2>3. F[i] = s[m][n]
    BY <1>8, <2>2
  <2> QED
    BY <1>10, <2>1, <2>3
<1>14. ASSUME NEW i \in DOMAIN units, NEW j \in DOMAIN units, i # j
       PROVE  units[i] # units[j] /\ Paths(units[i]) \cap Paths(units[j]) = {}
  <2>1. units[i] # units[j]
    BY <1>9, <1>10, <1>14
  <2>2. i \in DOMAIN F /\ j \in DOMAIN F
    BY <1>10
  <2>3. CASE seg[i] = seg[j]
    <3>1. off[i] # off[j]
      BY <1>6, <1>14, <2>2, <2>3 DEF Lays
    <3>2. Paths(F[i]) \cap Paths(F[j]) = {}
      <4>1. /\ seg[i] \in DOMAIN ranges /\ off[i] \in DOMAIN s[seg[i]]
            /\ off[j] \in DOMAIN s[seg[i]]
            /\ F[i] = s[seg[i]][off[i]] /\ F[j] = s[seg[i]][off[j]]
        BY <1>8, <2>2, <2>3
      <4>2. \A n, l \in DOMAIN s[seg[i]] :
              n # l => Paths(s[seg[i]][n]) \cap Paths(s[seg[i]][l]) = {}
        BY <1>3, <4>1
      <4> QED
        BY <3>1, <4>1, <4>2
    <3> QED
      BY <1>10, <2>1, <2>2, <3>2
  <2>4. CASE seg[i] # seg[j]
    <3>1. seg[i] < seg[j] \/ seg[j] < seg[i]
      BY <1>2, <1>8, <2>2, <2>4
    <3>2. Paths(ranges[seg[i]]) \cap Paths(ranges[seg[j]]) = {}
      BY <1>1, <1>8, <2>2, <3>1
    <3>3. Paths(F[i]) \subseteq Paths(ranges[seg[i]]) /\ Paths(F[j]) \subseteq Paths(ranges[seg[j]])
      BY <1>3, <1>8, <2>2
    <3> QED
      BY <1>10, <2>1, <2>2, <3>2, <3>3
  <2> QED
    BY <2>3, <2>4
<1> QED
  BY <1>9, <1>10, <1>11, <1>12, <1>13, <1>14 DEF units

-----------------------------------------------------------------------------
(* The inductive invariant *)

\* A name under the root is of one file.
UniqueNames == \A c, d \in csv : c.unit = d.unit /\ c.freq = d.freq => c = d

\* A file is of a work unit that its call has in its plan.
OfPlan == \A c \in csv : c.unit \in Range(Units(c.call))

\* The files of a unit that is rehashed already stay until the call ends.
Rehashed(k) ==
    /\ pc[k] = "verify" =>
        \A i \in DOMAIN Units(k), f \in DOMAIN Frequencies :
            i < at[k] => Temp(k, i, f) \in csv
    /\ pc[k] \in {"create", "fill", "sync"} => Listed(k) \subseteq csv

\* A call finds the finals as it has left them.
OwnFinals(k) ==
    /\ pc[k] = "fill" => final[Finals[at[k]]] = [call |-> k, whole |-> FALSE]
    /\ pc[k] = "sync" => final[Finals[at[k]]] = [call |-> k, whole |-> TRUE]
    /\ pc[k] \in {"create", "fill", "sync"} /\ at[k] = 2 =>
        final["checksums"] = [call |-> k, whole |-> TRUE]

IInv ==
    /\ TypeOK
    /\ UniqueNames
    /\ OfPlan
    /\ \A k \in Call : Rehashed(k) /\ OwnFinals(k)
    /\ ManifestIsTrue

-----------------------------------------------------------------------------
(* Type correctness *)

\* The geometry of the plan that a call is given.
LEMMA GeometryFacts ==
    ASSUME TypeOK, NEW k \in Call
    PROVE  \E g \in Geometries[k] :
              /\ plan[k].ranges = g.ranges
              /\ Units(k) = WorkUnits(g.ranges, g.size)
              /\ g.size \in Nat \ {0} /\ Legal(g.ranges)
              /\ \A m \in DOMAIN g.ranges : Within(g.ranges[m])
<1>1. plan[k] \in Plans[k]
  BY DEF TypeOK
<1>2. PICK g \in Geometries[k] : plan[k] = Plan(g.ranges, g.size)
  BY <1>1 DEF Plans
<1>3. QED
  BY <1>2, V5Assumption DEF Plan, Units

\* What a call is given to generate.
LEMMA PlanFacts ==
    ASSUME TypeOK, NEW k \in Call
    PROVE  /\ Units(k) \in Seq(Unit)
           /\ Len(Units(k)) \in Nat \ {0}
           /\ DOMAIN Units(k) = 1..Len(Units(k))
           /\ \A i \in DOMAIN Units(k) : Units(k)[i] \in Unit
<1>1. plan[k] \in Plans[k]
  BY DEF TypeOK
<1>2. \A i \in DOMAIN Units(k) : Units(k)[i] \in Unit
  BY <1>1 DEF Unit, Units, Range
<1>3. PICK g \in Geometries[k] :
        Units(k) = WorkUnits(g.ranges, g.size) /\ g.size \in Nat \ {0} /\ Legal(g.ranges)
  BY GeometryFacts
<1>4. /\ Len(Units(k)) \in Nat \ {0} /\ DOMAIN Units(k) = 1..Len(Units(k))
      /\ \A T : (\A i \in DOMAIN Units(k) : Units(k)[i] \in T) => Units(k) \in Seq(T)
  BY <1>3, UnitsCut
<1>5. QED
  BY <1>2, <1>4

\* The siblings and the finals.
LEMMA SiblingFacts ==
    /\ Len(Frequencies) \in Nat \ {0}
    /\ DOMAIN Frequencies = 1..Len(Frequencies)
    /\ Len(Finals) = 2 /\ DOMAIN Finals = {1, 2}
    /\ Finals[1] = "checksums" /\ Finals[2] = "manifest"
<1>1. Frequencies \in Seq(STRING) /\ Frequencies # <<>>
  BY V5Assumption
<1>2. QED
  BY <1>1 DEF Finals

\* A temporary file has the type of a file.
LEMMA TempType ==
    ASSUME TypeOK, NEW k \in Call, NEW i \in DOMAIN Units(k), NEW f \in DOMAIN Frequencies
    PROVE  Temp(k, i, f) \in Files
BY PlanFacts DEF Temp, Files

\* A step of one job leaves the types.
LEMMA JobType ==
    ASSUME TypeOK, NEW k \in Call, NEW i \in DOMAIN Units(k), NEW step \in Jobs,
           NEW f \in DOMAIN Frequencies, Set(k, i, step, f), plan' = plan
    PROVE  /\ DOMAIN job' = Call
           /\ \A h \in Call :
                job'[h] \in [DOMAIN Units(h)' -> [step : Jobs, f : DOMAIN Frequencies]]
<1>1. /\ DOMAIN job = Call
      /\ \A h \in Call : job[h] \in [DOMAIN Units(h) -> [step : Jobs, f : DOMAIN Frequencies]]
  BY DEF TypeOK
<1>2. \A h \in Call : Units(h)' = Units(h)
  BY DEF Units
<1>3. [job[k] EXCEPT ![i] = [step |-> step, f |-> f]]
        \in [DOMAIN Units(k) -> [step : Jobs, f : DOMAIN Frequencies]]
  BY <1>1
<1>4. job' = [job EXCEPT ![k] = [job[k] EXCEPT ![i] = [step |-> step, f |-> f]]]
  BY DEF Set
<1>5. QED
  BY <1>1, <1>2, <1>3, <1>4

\* A step of one job keeps every type, if it keeps those of the tree.
LEMMA WorkerType ==
    ASSUME TypeOK, NEW k \in Call, NEW i \in DOMAIN Units(k), NEW step \in Jobs,
           NEW f \in DOMAIN Frequencies, Set(k, i, step, f),
           pc' \in [Call -> Busy \cup {"idle", "done", "failed", "dead"}],
           \A h \in Call : pc'[h] # pc[h] => pc'[h] = "broken",
           temps' \subseteq Files, csv' \subseteq Files, faults' \in 0..MaxFaults,
           UNCHANGED <<plan, at, root, final, reader, clears>>
    PROVE  TypeOK'
<1>1. /\ DOMAIN job' = Call
      /\ \A h \in Call :
           job'[h] \in [DOMAIN Units(h)' -> [step : Jobs, f : DOMAIN Frequencies]]
  BY JobType
<1>2. \A h \in Call : Units(h)' = Units(h)
  BY DEF Units
<1>3. \A h \in Call :
        /\ pc'[h] = "verify" => at'[h] \in DOMAIN Units(h)'
        /\ pc'[h] \in {"create", "fill", "sync"} => at'[h] \in DOMAIN Finals
  BY <1>2 DEF TypeOK
<1>4. QED
  BY <1>1, <1>3 DEF TypeOK

\* A step of a parent keeps every type, if it keeps those of what it writes.
LEMMA ParentType ==
    ASSUME TypeOK, NEW k \in Call, NEW step \in Busy \cup {"done", "failed", "dead"},
           GoTo(k, step), at' \in [Call -> Nat],
           \A h \in Call \ {k} : at'[h] = at[h],
           step = "verify" => at'[k] \in DOMAIN Units(k),
           step \in {"create", "fill", "sync"} => at'[k] \in DOMAIN Finals,
           DOMAIN job' = Call,
           \A h \in Call :
              job'[h] \in [DOMAIN Units(h) -> [step : Jobs, f : DOMAIN Frequencies]],
           root' \in BOOLEAN,
           final' \in [{"checksums", "manifest"} ->
                          {None} \cup [call : Call, whole : BOOLEAN]],
           faults' \in 0..MaxFaults,
           UNCHANGED <<plan, temps, csv, reader, clears>>
    PROVE  TypeOK'
<1>1. \A h \in Call : Units(h)' = Units(h)
  BY DEF Units
<1>2. \A h \in Call :
        /\ pc'[h] = "verify" => at'[h] \in DOMAIN Units(h)'
        /\ pc'[h] \in {"create", "fill", "sync"} => at'[h] \in DOMAIN Finals
  BY <1>1 DEF TypeOK, GoTo
<1>3. pc' \in [Call -> Busy \cup {"idle", "done", "failed", "dead"}]
  BY DEF TypeOK, GoTo
<1>4. QED
  BY <1>1, <1>2, <1>3 DEF TypeOK

\* The jobs that are killed with their process keep the types.
LEMMA GoneType ==
    ASSUME TypeOK, NEW k \in Call,
           job' = [job EXCEPT ![k] = [i \in DOMAIN @ |->
                     IF @[i].step \in Active THEN [@[i] EXCEPT !.step = "gone"] ELSE @[i]]]
    PROVE  /\ DOMAIN job' = Call
           /\ \A h \in Call :
                job'[h] \in [DOMAIN Units(h) -> [step : Jobs, f : DOMAIN Frequencies]]
<1> DEFINE new == [i \in DOMAIN job[k] |->
             IF job[k][i].step \in Active THEN [job[k][i] EXCEPT !.step = "gone"]
             ELSE job[k][i]]
<1>1. new \in [DOMAIN Units(k) -> [step : Jobs, f : DOMAIN Frequencies]]
  <2>1. job[k] \in [DOMAIN Units(k) -> [step : Jobs, f : DOMAIN Frequencies]]
    BY DEF TypeOK
  <2>2. ASSUME NEW i \in DOMAIN Units(k) PROVE new[i] \in [step : Jobs, f : DOMAIN Frequencies]
    <3>1. job[k][i] \in [step : Jobs, f : DOMAIN Frequencies]
      BY <2>1
    <3>2. [job[k][i] EXCEPT !.step = "gone"] \in [step : Jobs, f : DOMAIN Frequencies]
      BY <3>1 DEF Jobs
    <3>3. QED
      BY <2>1, <3>1, <3>2
  <2>3. QED
    BY <2>1, <2>2
<1>2. job' = [job EXCEPT ![k] = new]
  OBVIOUS
<1> HIDE DEF new
<1>3. QED
  BY <1>1, <1>2 DEF TypeOK

\* The job of a worker is of its call.
LEMMA JobFacts ==
    ASSUME TypeOK, NEW k \in Call
    PROVE  /\ DOMAIN job[k] = DOMAIN Units(k)
           /\ job[k] \in [DOMAIN Units(k) -> [step : Jobs, f : DOMAIN Frequencies]]
           /\ \A i \in DOMAIN Units(k) : job[k][i].f \in DOMAIN Frequencies
BY DEF TypeOK

\* What the workers do is well typed.
LEMMA WorkerStepType ==
    ASSUME TypeOK, NEW k \in Call, NEW i \in DOMAIN Units(k),
           Start(k, i) \/ Work(k, i) \/ FailJob(k, i) \/ KillWorker(k, i) \/ Drop(k, i)
    PROVE  TypeOK'
<1> DEFINE f == job[k][i].f
<1>1. f \in DOMAIN Frequencies /\ 1 \in DOMAIN Frequencies
  BY JobFacts, SiblingFacts
<1>2. f # Len(Frequencies) => f + 1 \in DOMAIN Frequencies
  BY <1>1, SiblingFacts
<1>3. /\ pc \in [Call -> Busy \cup {"idle", "done", "failed", "dead"}]
      /\ temps \subseteq Files /\ csv \subseteq Files /\ faults \in 0..MaxFaults
      /\ Temp(k, i, f) \in Files
  BY <1>1, TempType DEF TypeOK
<1> HIDE DEF f
<1>4. ASSUME UNCHANGED <<plan, at, root, final, reader, clears>>,
             temps' \subseteq Files, csv' \subseteq Files, UNCHANGED <<pc, faults>>,
             NEW step \in Jobs, NEW g \in DOMAIN Frequencies, Set(k, i, step, g)
      PROVE  TypeOK'
  BY <1>3, <1>4, WorkerType
<1>5. CASE Start(k, i)
  BY <1>1, <1>3, <1>4, <1>5 DEF Start, parents, tree, counters, Jobs, Active
<1>6. CASE Open(k, i)
  <2>1. UNCHANGED <<plan, at, root, final, reader, clears, csv, pc, faults>>
    BY <1>6 DEF Open, parents, counters
  <2>2. temps' \in {temps, temps \cup {Temp(k, i, f)}}
    BY <1>6 DEF Open, f
  <2>3. Set(k, i, "abort", f) \/ Set(k, i, "write", 1) \/ (f # Len(Frequencies) /\ Set(k, i, "open", f + 1))
    BY <1>6 DEF Open, f
  <2>4. QED
    BY <1>1, <1>2, <1>3, <1>4, <2>1, <2>2, <2>3 DEF Jobs, Active
<1>7. CASE Rows(k, i)
  BY <1>1, <1>3, <1>4, <1>7 DEF Rows, parents, tree, counters, Jobs, Active
<1>8. CASE Link(k, i)
  <2>1. UNCHANGED <<plan, at, root, final, reader, clears, temps, pc, faults>>
    BY <1>8 DEF Link, parents, counters
  <2>2. csv' \in {csv, csv \cup {Temp(k, i, f)}}
    BY <1>8 DEF Link, f
  <2>3. Set(k, i, "abort", f) \/ Set(k, i, "unlink", f)
    BY <1>8 DEF Link, f
  <2>4. QED
    BY <1>1, <1>3, <1>4, <2>1, <2>2, <2>3 DEF Jobs, Active
<1>9. CASE Unlink(k, i)
  <2>1. UNCHANGED <<plan, at, root, final, reader, clears, csv, pc, faults>>
    BY <1>9 DEF Unlink, parents, counters
  <2>2. temps' \in {temps, temps \ {Temp(k, i, f)}}
    BY <1>9 DEF Unlink, f
  <2>3. Set(k, i, "abort", f) \/ Set(k, i, "done", f)
          \/ (f # Len(Frequencies) /\ Set(k, i, "link", f + 1))
    BY <1>9 DEF Unlink, AfterSibling, f
  <2>4. QED
    BY <1>1, <1>2, <1>3, <1>4, <2>1, <2>2, <2>3 DEF Jobs, Active
<1>10. CASE Abort(k, i)
  <2>1. UNCHANGED <<plan, at, root, final, reader, clears, csv, pc, faults>>
        /\ temps' \subseteq temps /\ Set(k, i, "failed", f)
    BY <1>10 DEF Abort, parents, counters, f
  <2>2. QED
    BY <1>1, <1>3, <1>4, <2>1 DEF Jobs, Active
<1>11. CASE FailJob(k, i)
  <2>1. UNCHANGED <<plan, at, root, final, reader, clears, csv, pc, temps>>
        /\ Set(k, i, "abort", f) /\ faults' = faults + 1 /\ faults < MaxFaults
    BY <1>11 DEF FailJob, parents, tree, f
  <2>2. faults' \in 0..MaxFaults
    BY <1>3, <2>1, V5Assumption
  <2>3. QED
    BY <1>1, <1>3, <2>1, <2>2, WorkerType DEF Jobs, Active
<1>12. CASE KillWorker(k, i)
  <2>1. UNCHANGED <<plan, at, root, final, reader, clears, csv, temps>>
        /\ Set(k, i, "gone", f) /\ faults' = faults + 1 /\ faults < MaxFaults
        /\ pc' = [pc EXCEPT ![k] = IF @ = "map" THEN "broken" ELSE @]
    BY <1>12 DEF KillWorker, tree, f
  <2>2. faults' \in 0..MaxFaults
    BY <1>3, <2>1, V5Assumption
  <2>3. pc' \in [Call -> Busy \cup {"idle", "done", "failed", "dead"}]
        /\ \A h \in Call : pc'[h] # pc[h] => pc'[h] = "broken"
    BY <1>3, <2>1 DEF Busy
  <2>4. QED
    BY <1>1, <1>3, <2>1, <2>2, <2>3, WorkerType DEF Jobs, Active
<1>13. CASE Drop(k, i)
  BY <1>1, <1>3, <1>4, <1>13 DEF Drop, parents, tree, counters, Jobs, Active
<1>14. QED
  BY <1>5, <1>6, <1>7, <1>8, <1>9, <1>10, <1>11, <1>12, <1>13 DEF Work

\* What the parents do is well typed.
LEMMA ParentStepType ==
    ASSUME TypeOK, NEW k \in Call, OwnFinals(k),
           Begin(k) \/ Parent(k) \/ FailParent(k) \/ KillParent(k)
    PROVE  TypeOK'
<1>1. /\ pc \in [Call -> Busy \cup {"idle", "done", "failed", "dead"}]
      /\ at \in [Call -> Nat] /\ root \in BOOLEAN /\ faults \in 0..MaxFaults
      /\ DOMAIN job = Call
      /\ \A h \in Call : job[h] \in [DOMAIN Units(h) -> [step : Jobs, f : DOMAIN Frequencies]]
      /\ final \in [{"checksums", "manifest"} -> {None} \cup [call : Call, whole : BOOLEAN]]
  BY DEF TypeOK
<1>2. ASSUME UNCHANGED <<plan, temps, csv, reader, clears>>, UNCHANGED <<at, job, final>>,
             root' \in BOOLEAN, faults' \in 0..MaxFaults,
             NEW step \in (Busy \ {"verify", "create", "fill", "sync"})
                            \cup {"done", "failed", "dead"},
             GoTo(k, step)
      PROVE  TypeOK'
  BY <1>1, <1>2, ParentType DEF Busy
<1>3. CASE Begin(k)
  BY <1>1, <1>2, <1>3 DEF Begin, tree, counters, Busy
<1>4. CASE CheckRoot(k)
  BY <1>1, <1>2, <1>4 DEF CheckRoot, tree, counters, Busy
<1>5. CASE MakeRoot(k)
  BY <1>1, <1>2, <1>5 DEF MakeRoot, tree, counters, Busy
<1>6. CASE Collect(k)
  <2>1. UNCHANGED <<plan, temps, csv, reader, clears, job, final, root, faults>>
        /\ GoTo(k, "verify") /\ at' = [at EXCEPT ![k] = 1]
    BY <1>6 DEF Collect, tree, counters
  <2>2. at' \in [Call -> Nat] /\ at'[k] = 1 /\ \A h \in Call \ {k} : at'[h] = at[h]
    BY <1>1, <2>1
  <2>3. 1 \in DOMAIN Units(k)
    BY PlanFacts
  <2>4. QED
    BY <1>1, <2>1, <2>2, <2>3, ParentType DEF Busy
<1>7. CASE Surface(k)
  BY <1>1, <1>2, <1>7 DEF Surface, tree, counters, Busy
<1>8. CASE Reap(k)
  <2>1. UNCHANGED <<plan, temps, csv, reader, clears, at, final, root, faults>>
        /\ GoTo(k, "failed")
    BY <1>8 DEF Reap, tree, counters
  <2>2. /\ DOMAIN job' = Call
        /\ \A h \in Call :
             job'[h] \in [DOMAIN Units(h) -> [step : Jobs, f : DOMAIN Frequencies]]
    BY <1>8, GoneType DEF Reap
  <2>3. QED
    BY <1>1, <2>1, <2>2, ParentType DEF Busy
<1>9. CASE VerifyUnit(k)
  <2>1. UNCHANGED <<plan, temps, csv, reader, clears, job, final, root, faults>>
    BY <1>9 DEF VerifyUnit, tree, counters
  <2>2. at[k] \in DOMAIN Units(k)
    BY <1>9 DEF VerifyUnit, TypeOK
  <2>3. \/ GoTo(k, "failed") /\ at' = at
        \/ at[k] = Len(Units(k)) /\ GoTo(k, "create") /\ at' = [at EXCEPT ![k] = 1]
        \/ at[k] # Len(Units(k)) /\ GoTo(k, "verify") /\ at' = [at EXCEPT ![k] = at[k] + 1]
    BY <1>9 DEF VerifyUnit
  <2>4. CASE GoTo(k, "failed") /\ at' = at
    BY <1>1, <2>1, <2>4, ParentType DEF Busy
  <2>5. CASE at[k] = Len(Units(k)) /\ GoTo(k, "create") /\ at' = [at EXCEPT ![k] = 1]
    <3>1. at' \in [Call -> Nat] /\ at'[k] = 1 /\ \A h \in Call \ {k} : at'[h] = at[h]
      BY <1>1, <2>5
    <3>2. QED
      BY <1>1, <2>1, <2>5, <3>1, SiblingFacts, ParentType DEF Busy
  <2>6. CASE at[k] # Len(Units(k)) /\ GoTo(k, "verify") /\ at' = [at EXCEPT ![k] = at[k] + 1]
    <3>1. at' \in [Call -> Nat] /\ at'[k] = at[k] + 1 /\ \A h \in Call \ {k} : at'[h] = at[h]
      BY <1>1, <2>6
    <3>2. at'[k] \in DOMAIN Units(k)
      BY <2>2, <2>6, <3>1, PlanFacts
    <3>3. QED
      BY <1>1, <2>1, <2>6, <3>1, <3>2, ParentType DEF Busy
  <2>7. QED
    BY <2>3, <2>4, <2>5, <2>6
<1>10. CASE Create(k)
  <2>1. at[k] \in {1, 2}
    BY <1>10, SiblingFacts DEF Create, TypeOK
  <2>2. UNCHANGED <<plan, temps, csv, reader, clears, job, at, root, faults>>
        /\ (GoTo(k, "failed") \/ GoTo(k, "fill"))
        /\ final' \in {final, [final EXCEPT ![Finals[at[k]]] = [call |-> k, whole |-> FALSE]]}
    BY <1>10 DEF Create, counters
  <2>3. final' \in [{"checksums", "manifest"} -> {None} \cup [call : Call, whole : BOOLEAN]]
    <3>1. [call |-> k, whole |-> FALSE] \in [call : Call, whole : BOOLEAN]
      OBVIOUS
    <3>2. Finals[at[k]] \in {"checksums", "manifest"}
      BY <2>1, SiblingFacts
    <3>3. QED
      BY <1>1, <2>2, <3>1, <3>2
  <2>4. QED
    BY <1>1, <2>1, <2>2, <2>3, SiblingFacts, ParentType DEF Busy
<1>11. CASE Fill(k)
  <2>1. at[k] \in {1, 2}
    BY <1>11, SiblingFacts DEF Fill, TypeOK
  <2>2. UNCHANGED <<plan, temps, csv, reader, clears, job, at, root, faults>>
        /\ GoTo(k, "sync")
        /\ final' = [final EXCEPT ![Finals[at[k]]] = [final[Finals[at[k]]] EXCEPT !.whole = TRUE]]
    BY <1>11 DEF Fill, counters
  <2>3. ASSUME final[Finals[at[k]]] \in [call : Call, whole : BOOLEAN]
        PROVE  TypeOK'
    <3>1. [final[Finals[at[k]]] EXCEPT !.whole = TRUE] \in [call : Call, whole : BOOLEAN]
      BY <2>3
    <3>2. final' \in [{"checksums", "manifest"} -> {None} \cup [call : Call, whole : BOOLEAN]]
      BY <1>1, <2>1, <2>2, <3>1, SiblingFacts
    <3>3. QED
      BY <1>1, <2>1, <2>2, <3>2, SiblingFacts, ParentType DEF Busy
  <2>4. final[Finals[at[k]]] = [call |-> k, whole |-> FALSE]
    BY <1>11 DEF Fill, OwnFinals
  <2>5. QED
    BY <2>3, <2>4
<1>12. CASE Sync(k)
  <2>1. at[k] \in {1, 2}
    BY <1>12, SiblingFacts DEF Sync, TypeOK
  <2>2. UNCHANGED <<plan, temps, csv, reader, clears, job, final, root, faults>>
        /\ (GoTo(k, "done") \/ GoTo(k, "create"))
        /\ at' = [at EXCEPT ![k] = IF at[k] = 2 THEN at[k] ELSE at[k] + 1]
    BY <1>12, SiblingFacts DEF Sync, tree, counters
  <2>3. at' \in [Call -> Nat] /\ at'[k] \in {1, 2} /\ \A h \in Call \ {k} : at'[h] = at[h]
    BY <1>1, <2>1, <2>2
  <2>4. QED
    BY <1>1, <2>2, <2>3, SiblingFacts, ParentType DEF Busy
<1>13. CASE FailParent(k)
  <2>1. faults' \in 0..MaxFaults
    BY <1>1, <1>13, V5Assumption DEF FailParent
  <2>2. QED
    BY <1>1, <1>2, <1>13, <2>1 DEF FailParent, tree
<1>14. CASE KillParent(k)
  <2>1. faults' \in 0..MaxFaults
    BY <1>1, <1>14, V5Assumption DEF KillParent
  <2>2. UNCHANGED <<plan, temps, csv, reader, clears, at, final, root>> /\ GoTo(k, "dead")
    BY <1>14 DEF KillParent, tree
  <2>3. /\ DOMAIN job' = Call
        /\ \A h \in Call :
             job'[h] \in [DOMAIN Units(h) -> [step : Jobs, f : DOMAIN Frequencies]]
    BY <1>1, <1>14, GoneType DEF KillParent
  <2>4. QED
    BY <1>1, <2>1, <2>2, <2>3, ParentType
<1>15. QED
  BY <1>3, <1>4, <1>5, <1>6, <1>7, <1>8, <1>9, <1>10, <1>11, <1>12, <1>13, <1>14 DEF Parent

\* What the operator and the validator do is well typed.
LEMMA OutsideStepType ==
    ASSUME TypeOK, Clear \/ Reader PROVE TypeOK'
<1>1. \A h \in Call : Units(h)' = Units(h)
  BY DEF Clear, Reader, ReadManifest, ReadOn, Units
<1>2. CASE Clear
  <2>1. clears' \in 0..MaxClears
    BY <1>2, V5Assumption DEF Clear, TypeOK
  <2>2. QED
    BY <1>1, <1>2, <2>1 DEF Clear, TypeOK, parents
<1>3. CASE Reader
  <2>1. reader' \in [step : Reads, call : Call \cup {"nobody"}]
    <3>1. CASE ReadManifest
      <4>1. Whole("manifest") => final["manifest"].call \in Call
        BY DEF Whole, TypeOK, None
      <4>2. QED
        BY <3>1, <4>1 DEF ReadManifest, Reads
    <3>2. CASE ReadOn
      <4>1. \E step \in Reads : reader' = [reader EXCEPT !.step = step]
        BY <3>2 DEF ReadOn, Passes, Reads
      <4>2. QED
        BY <4>1 DEF TypeOK
    <3>3. QED
      BY <1>3, <3>1, <3>2 DEF Reader
  <2>2. UNCHANGED <<plan, parents, job, tree, counters>>
    BY <1>3 DEF Reader, ReadManifest, ReadOn
  <2>3. QED
    BY <1>1, <2>1, <2>2 DEF TypeOK, parents, tree, counters
<1>4. QED
  BY <1>2, <1>3

\* No step leaves the types.
LEMMA TypeStep ==
    ASSUME IInv, [Next]_vars PROVE TypeOK'
<1>1. TypeOK /\ \A k \in Call : OwnFinals(k)
  BY DEF IInv
<1>2. CASE UNCHANGED vars
  <2>1. \A h \in Call : Units(h)' = Units(h)
    BY <1>2 DEF vars, Units
  <2>2. QED
    BY <1>1, <1>2, <2>1 DEF vars, parents, tree, counters, TypeOK
<1>3. CASE Next
  <2>1. \A k \in Call : DOMAIN job[k] = DOMAIN Units(k)
    BY <1>1, JobFacts
  <2>2. QED
    BY <1>1, <1>3, <2>1, WorkerStepType, ParentStepType, OutsideStepType DEF Next
<1>4. QED
  BY <1>2, <1>3

-----------------------------------------------------------------------------
(* The tree *)

\* Under the root files appear, with new names, until the operator removes it.
LEMMA TreeStep ==
    ASSUME IInv, [Next]_vars
    PROVE  /\ plan' = plan
           /\ UniqueNames' /\ OfPlan'
           /\ Clear \/ csv \subseteq csv'
<1> USE DEF IInv
<1>1. ASSUME NEW k \in Call, NEW i \in DOMAIN job[k], Link(k, i)
      PROVE  plan' = plan /\ UniqueNames' /\ OfPlan' /\ csv \subseteq csv'
  <2>0. plan' = plan /\ Units(k)[i] \in Range(Units(k)) /\ \A h : Units(h)' = Units(h)
    BY <1>1, JobFacts DEF Link, Units, Range
  <2>1. CASE csv' = csv
    BY <2>0, <2>1 DEF UniqueNames, OfPlan
  <2>2. CASE csv' = csv \cup {Temp(k, i, job[k][i].f)} /\ ~Taken(Units(k)[i], job[k][i].f)
    BY <2>0, <2>2 DEF UniqueNames, OfPlan, Temp, Taken
  <2>3. QED
    BY <1>1, <2>1, <2>2 DEF Link
<1>2. CASE plan' = plan /\ csv' = csv
  BY <1>2 DEF UniqueNames, OfPlan, Units
<1>3. CASE Clear
  BY <1>3 DEF Clear, UniqueNames, OfPlan
<1>4. ASSUME NEW k \in Call, NEW i \in DOMAIN job[k],
             Start(k, i) \/ Open(k, i) \/ Rows(k, i) \/ Unlink(k, i) \/ Abort(k, i)
               \/ FailJob(k, i) \/ KillWorker(k, i) \/ Drop(k, i)
      PROVE  plan' = plan /\ csv' = csv
  BY <1>4 DEF Start, Open, Rows, Unlink, Abort, FailJob, KillWorker, Drop, tree
<1>5. ASSUME NEW k \in Call, Begin(k) \/ Parent(k) \/ FailParent(k) \/ KillParent(k)
      PROVE  plan' = plan /\ csv' = csv
  BY <1>5 DEF Begin, Parent, FailParent, KillParent, CheckRoot, MakeRoot, Collect, Surface,
     Reap, VerifyUnit, Create, Fill, Sync, tree
<1>6. CASE Reader
  BY <1>2, <1>6 DEF Reader, ReadManifest, ReadOn, tree
<1>7. CASE UNCHANGED vars
  BY <1>2, <1>7 DEF vars, tree
<1>8. QED
  BY <1>1, <1>2, <1>3, <1>4, <1>5, <1>6, <1>7 DEF Next, Work

\* The operator waits for every call.
LEMMA ClearedAlone ==
    ASSUME Clear, NEW k \in Call
    PROVE  pc[k] \notin Busy /\ pc' = pc /\ ~Whole("manifest")' /\ final'["checksums"] = None
BY DEF Clear, parents, Whole, None

\* A call that neither ends nor goes on keeps what it has rehashed.
LEMMA RehashedStays ==
    ASSUME IInv, [Next]_vars, NEW k \in Call, pc'[k] = pc[k], at'[k] = at[k]
    PROVE  Rehashed(k)'
<1>1. plan' = plan /\ (Clear \/ csv \subseteq csv')
  BY TreeStep
<1>2. CASE Clear
  BY <1>2, ClearedAlone DEF Rehashed, Busy
<1>3. CASE csv \subseteq csv'
  <2>1. /\ Units(k)' = Units(k) /\ Listed(k)' = Listed(k)
        /\ \A i \in DOMAIN Units(k), f \in DOMAIN Frequencies : Temp(k, i, f)' = Temp(k, i, f)
    BY <1>1 DEF Units, Listed, Temp
  <2>2. Rehashed(k)
    BY DEF IInv
  <2>3. QED
    BY <1>3, <2>1, <2>2 DEF Rehashed
<1>4. QED
  BY <1>1, <1>2, <1>3

\* A call that begins, ends or is broken promises nothing.
LEMMA NothingPromised ==
    ASSUME NEW k \in Call, pc'[k] \notin {"verify", "create", "fill", "sync"}
    PROVE  Rehashed(k)' /\ OwnFinals(k)'
BY DEF Rehashed, OwnFinals

\* The parent rehashes one unit after the other.
LEMMA VerifyStep ==
    ASSUME IInv, NEW k \in Call, VerifyUnit(k)
    PROVE  Rehashed(k)' /\ OwnFinals(k)'
<1> USE DEF IInv
<1>1. pc[k] = "verify" /\ csv' = csv /\ plan' = plan /\ final' = final
  BY DEF VerifyUnit, tree
<1>2. /\ Units(k)' = Units(k) /\ Listed(k)' = Listed(k)
      /\ \A i \in DOMAIN Units(k), f \in DOMAIN Frequencies : Temp(k, i, f)' = Temp(k, i, f)
  BY <1>1 DEF Units, Listed, Temp
<1>3. at[k] \in DOMAIN Units(k) /\ pc \in [Call -> Busy \cup {"idle", "done", "failed", "dead"}]
      /\ at \in [Call -> Nat]
  BY <1>1 DEF TypeOK
<1>4. Rehashed(k)
  OBVIOUS
<1>5. CASE \E f \in DOMAIN Frequencies : Temp(k, at[k], f) \notin csv
  <2>1. pc'[k] = "failed"
    BY <1>3, <1>5 DEF VerifyUnit, GoTo
  <2>2. QED
    BY <2>1, NothingPromised
<1>6. CASE \A f \in DOMAIN Frequencies : Temp(k, at[k], f) \in csv
  <2>1. CASE at[k] = Len(Units(k))
    <3>1. pc'[k] = "create" /\ at'[k] = 1
      BY <1>3, <1>6, <2>1 DEF VerifyUnit, GoTo
    <3>2. \A i \in DOMAIN Units(k), f \in DOMAIN Frequencies : Temp(k, i, f) \in csv
      BY <1>1, <1>3, <1>4, <1>6, <2>1, PlanFacts DEF Rehashed
    <3>3. Listed(k) \subseteq csv
      BY <3>2 DEF Listed, Temp
    <3>4. QED
      BY <1>1, <1>2, <3>1, <3>3 DEF Rehashed, OwnFinals
  <2>2. CASE at[k] # Len(Units(k))
    <3>1. pc'[k] = "verify" /\ at'[k] = at[k] + 1
      BY <1>3, <1>6, <2>2 DEF VerifyUnit, GoTo
    <3>2. \A i \in DOMAIN Units(k), f \in DOMAIN Frequencies :
             i < at[k] + 1 => Temp(k, i, f) \in csv
      BY <1>1, <1>3, <1>4, <1>6, PlanFacts DEF Rehashed
    <3>3. QED
      BY <1>1, <1>2, <3>1, <3>2 DEF Rehashed, OwnFinals
  <2>3. QED
    BY <2>1, <2>2
<1>7. QED
  BY <1>5, <1>6

\* What one call writes of the finals, another call does not rest on.
LEMMA FinalsStay ==
    ASSUME IInv, NEW k \in Call, NEW h \in Call \ {k}, Create(k) \/ Fill(k),
           pc'[h] = pc[h], at'[h] = at[h]
    PROVE  OwnFinals(h)'
<1> USE DEF IInv
<1>1. /\ OwnFinals(h) /\ OwnFinals(k)
      /\ final \in [{"checksums", "manifest"} -> {None} \cup [call : Call, whole : BOOLEAN]]
  BY DEF TypeOK
<1>2. at[k] \in {1, 2} /\ Finals[at[k]] \in {"checksums", "manifest"}
  BY SiblingFacts DEF Create, Fill, TypeOK
<1>3. pc[h] \in {"create", "fill", "sync"} => Finals[at[h]] \in {"checksums", "manifest"}
  BY SiblingFacts DEF TypeOK
<1>4. ASSUME NEW d \in {"checksums", "manifest"}, final[d] \in [call : {h}, whole : BOOLEAN]
      PROVE  final'[d] = final[d]
  <2>1. final[d].call = h
    BY <1>4
  <2>2. CASE Create(k)
    <3>1. d = Finals[at[k]] => final[d] # None
      BY <2>1, V5Assumption DEF None
    <3>2. QED
      BY <1>1, <1>2, <2>2, <3>1 DEF Create
  <2>3. CASE Fill(k)
    <3>1. final[Finals[at[k]]] = [call |-> k, whole |-> FALSE]
      BY <1>1, <2>3 DEF Fill, OwnFinals
    <3>2. d # Finals[at[k]]
      BY <2>1, <3>1
    <3>3. QED
      BY <1>1, <1>2, <2>3, <3>2 DEF Fill
  <2>4. QED
    BY <2>2, <2>3
<1>5. \A b \in BOOLEAN : [call |-> h, whole |-> b] \in [call : {h}, whole : BOOLEAN]
  OBVIOUS
<1>6. CASE pc[h] = "fill"
  BY <1>1, <1>3, <1>4, <1>5, <1>6 DEF OwnFinals
<1>7. CASE pc[h] = "sync"
  BY <1>1, <1>3, <1>4, <1>5, <1>7 DEF OwnFinals
<1>8. CASE pc[h] = "create"
  BY <1>1, <1>4, <1>5, <1>8 DEF OwnFinals
<1>9. QED
  BY <1>6, <1>7, <1>8 DEF OwnFinals

\* Filling a final.
LEMMA Filled ==
    ASSUME NEW k, NEW r, r = [call |-> k, whole |-> FALSE]
    PROVE  [r EXCEPT !.whole = TRUE] = [call |-> k, whole |-> TRUE]
<1> DEFINE new == [r EXCEPT !.whole = TRUE]
<1>1. new \in [call : {k}, whole : {TRUE}]
  OBVIOUS
<1> HIDE DEF new
<1>2. new = [call |-> k, whole |-> TRUE]
  BY <1>1
<1>3. QED
  BY <1>2 DEF new

\* The finals are written one after the other.
LEMMA FinalsStep ==
    ASSUME IInv, [Next]_vars, NEW k \in Call, Create(k) \/ Fill(k) \/ Sync(k)
    PROVE  Rehashed(k)' /\ OwnFinals(k)'
<1> USE DEF IInv
<1>1. /\ OwnFinals(k) /\ Rehashed(k)
      /\ final \in [{"checksums", "manifest"} -> {None} \cup [call : Call, whole : BOOLEAN]]
      /\ pc \in [Call -> Busy \cup {"idle", "done", "failed", "dead"}]
      /\ at \in [Call -> Nat]
  BY DEF TypeOK
<1>2. \/ at[k] = 1 /\ Finals[at[k]] = "checksums"
      \/ at[k] = 2 /\ Finals[at[k]] = "manifest"
  BY SiblingFacts DEF Create, Fill, Sync, TypeOK
<1>3. plan' = plan /\ csv' = csv
  BY DEF Create, Fill, Sync, tree
<1>4. Listed(k) \subseteq csv /\ Listed(k)' = Listed(k)
  BY <1>1, <1>3 DEF Create, Fill, Sync, Rehashed, Listed, Units
<1>5. pc'[k] # "verify"
  BY <1>1 DEF Create, Fill, Sync, GoTo
<1>6. Rehashed(k)'
  BY <1>3, <1>4, <1>5 DEF Rehashed
<1>7. CASE Create(k)
  <2>1. CASE final[Finals[at[k]]] # None
    BY <1>1, <1>7, <2>1, NothingPromised DEF Create, GoTo
  <2>2. CASE final[Finals[at[k]]] = None
    <3>1. /\ pc'[k] = "fill" /\ at' = at /\ pc[k] = "create"
          /\ final' = [final EXCEPT ![Finals[at[k]]] = [call |-> k, whole |-> FALSE]]
      BY <1>1, <1>7, <2>2 DEF Create, GoTo
    <3>2. CASE at[k] = 1
      BY <1>1, <1>2, <1>6, <3>1, <3>2 DEF OwnFinals
    <3>3. CASE at[k] = 2
      <4>1. final["checksums"] = [call |-> k, whole |-> TRUE]
        BY <1>1, <3>1, <3>3 DEF OwnFinals
      <4>2. QED
        BY <1>1, <1>2, <1>6, <3>1, <3>3, <4>1 DEF OwnFinals
    <3>4. QED
      BY <1>2, <3>2, <3>3
  <2>3. QED
    BY <2>1, <2>2
<1>8. CASE Fill(k)
  <2>1. /\ pc'[k] = "sync" /\ at' = at /\ pc[k] = "fill"
        /\ final' = [final EXCEPT ![Finals[at[k]]] = [final[Finals[at[k]]] EXCEPT !.whole = TRUE]]
    BY <1>1, <1>8 DEF Fill, GoTo
  <2>2. final[Finals[at[k]]] = [call |-> k, whole |-> FALSE]
    BY <1>1, <2>1 DEF OwnFinals
  <2>3. final' = [final EXCEPT ![Finals[at[k]]] = [call |-> k, whole |-> TRUE]]
    BY <2>1, <2>2, Filled
  <2>4. QED
    BY <1>1, <1>2, <1>6, <2>1, <2>3 DEF OwnFinals
<1>9. CASE Sync(k)
  <2>1. final' = final /\ pc[k] = "sync"
    BY <1>9 DEF Sync, tree
  <2>2. CASE at[k] = 2
    BY <1>1, <1>9, <2>2, SiblingFacts, NothingPromised DEF Sync, GoTo
  <2>3. CASE at[k] = 1
    <3>1. pc'[k] = "create" /\ at'[k] = 2
      BY <1>1, <1>9, <2>3, SiblingFacts DEF Sync, GoTo
    <3>2. QED
      BY <1>1, <1>2, <1>6, <2>1, <2>3, <3>1 DEF OwnFinals
  <2>4. QED
    BY <1>2, <2>2, <2>3
<1>10. QED
  BY <1>7, <1>8, <1>9

\* A call whose finals nobody touches keeps them.
LEMMA FinalsKept ==
    ASSUME NEW h \in Call, OwnFinals(h), final' = final, pc'[h] = pc[h], at'[h] = at[h]
    PROVE  OwnFinals(h)'
BY DEF OwnFinals

\* A manifest that is whole keeps what it stands on.
LEMMA ManifestStays ==
    ASSUME IInv, [Next]_vars, Whole("manifest"), final' = final
    PROVE  ManifestIsTrue'
<1> USE DEF IInv
<1>1. plan' = plan /\ UniqueNames' /\ (Clear \/ csv \subseteq csv')
  BY TreeStep
<1>2. ~Clear
  BY DEF Clear
<1>3. Listed(final["manifest"].call)' = Listed(final["manifest"].call)
  BY <1>1 DEF Listed, Units
<1>4. QED
  BY <1>1, <1>2, <1>3 DEF ManifestIsTrue, UniqueNames

\* A manifest becomes whole at the end of the call it is of.
LEMMA ManifestStep ==
    ASSUME IInv, [Next]_vars PROVE ManifestIsTrue'
<1> USE DEF IInv
<1>0. /\ UniqueNames'
      /\ final \in [{"checksums", "manifest"} -> {None} \cup [call : Call, whole : BOOLEAN]]
  BY TreeStep DEF TypeOK
<1>1. CASE final' = final
  <2>1. CASE Whole("manifest")
    BY <1>1, <2>1, ManifestStays
  <2>2. CASE ~Whole("manifest")
    BY <1>1, <2>2 DEF ManifestIsTrue, Whole
  <2>3. QED
    BY <2>1, <2>2
<1>2. CASE Clear
  BY <1>2 DEF Clear, ManifestIsTrue, Whole, None
<1>3. ASSUME NEW k \in Call, Create(k) PROVE ManifestIsTrue'
  <2>1. Finals[at[k]] \in {"checksums", "manifest"}
    BY <1>3, SiblingFacts DEF Create, TypeOK
  <2>2. CASE final[Finals[at[k]]] = None
    <3>2. ~Whole("manifest")
      BY <2>1, <2>2, V5Assumption DEF ManifestIsTrue, Whole, None
    <3>3. final'["manifest"] \in {final["manifest"], [call |-> k, whole |-> FALSE]}
      BY <1>0, <1>3, <2>1, <2>2 DEF Create
    <3>4. QED
      BY <3>2, <3>3 DEF ManifestIsTrue, Whole
  <2>3. CASE final[Finals[at[k]]] # None
    BY <1>1, <1>3, <2>3 DEF Create
  <2>4. QED
    BY <2>2, <2>3
<1>4. ASSUME NEW k \in Call, Fill(k) PROVE ManifestIsTrue'
  <2>1. /\ pc[k] = "fill" /\ csv' = csv /\ plan' = plan
        /\ final' = [final EXCEPT ![Finals[at[k]]] = [final[Finals[at[k]]] EXCEPT !.whole = TRUE]]
    BY <1>4 DEF Fill
  <2>2. final[Finals[at[k]]] = [call |-> k, whole |-> FALSE]
    BY <2>1 DEF OwnFinals
  <2>3. CASE at[k] = 1
    <3>1. Finals[at[k]] = "checksums"
      BY <2>3, SiblingFacts
    <3>2. ~Whole("manifest")
      BY <2>2, <3>1 DEF ManifestIsTrue
    <3>3. final'["manifest"] = final["manifest"]
      BY <1>0, <2>1, <3>1
    <3>4. QED
      BY <3>2, <3>3 DEF ManifestIsTrue, Whole
  <2>4. CASE at[k] = 2
    <3>1. Finals[at[k]] = "manifest"
      BY <2>4, SiblingFacts
    <3>2. final["checksums"] = [call |-> k, whole |-> TRUE] /\ Listed(k) \subseteq csv
      BY <2>1, <2>4 DEF OwnFinals, Rehashed
    <3>3. final'["checksums"] = final["checksums"] /\ final'["manifest"].call = k
      BY <1>0, <2>1, <2>2, <3>1
    <3>4. Listed(k)' = Listed(k)
      BY <2>1 DEF Listed, Units
    <3>5. \A c, d \in csv' : c.unit = d.unit /\ c.freq = d.freq => c = d
      BY <1>0 DEF UniqueNames
    <3>6. /\ final'["checksums"] = [call |-> final'["manifest"].call, whole |-> TRUE]
          /\ Listed(final["manifest"].call)' \subseteq csv'
      BY <2>1, <3>2, <3>3, <3>4
    <3>7. QED
      BY <3>5, <3>6 DEF ManifestIsTrue
  <2>5. QED
    BY <2>1, <2>3, <2>4, SiblingFacts DEF TypeOK
<1>5. ASSUME NEW k \in Call, NEW i \in DOMAIN job[k],
             Start(k, i) \/ Work(k, i) \/ FailJob(k, i) \/ KillWorker(k, i) \/ Drop(k, i)
      PROVE  final' = final
  BY <1>5 DEF Work, Start, Open, Rows, Link, Unlink, Abort, FailJob, KillWorker, Drop, tree
<1>6. ASSUME NEW k \in Call, ~Create(k), ~Fill(k),
             Begin(k) \/ Parent(k) \/ FailParent(k) \/ KillParent(k)
      PROVE  final' = final
  BY <1>6 DEF Begin, Parent, FailParent, KillParent, CheckRoot, MakeRoot, Collect, Surface,
     Reap, VerifyUnit, Sync, tree
<1>7. CASE Reader \/ UNCHANGED vars
  BY <1>1, <1>7 DEF Reader, ReadManifest, ReadOn, tree, vars
<1>8. QED
  BY <1>1, <1>2, <1>3, <1>4, <1>5, <1>6, <1>7 DEF Next

\* What a call rests on, it keeps, whoever takes a step.
LEMMA CallStep ==
    ASSUME IInv, [Next]_vars, NEW h \in Call PROVE Rehashed(h)' /\ OwnFinals(h)'
<1> USE DEF IInv
<1>1. /\ OwnFinals(h)
      /\ pc \in [Call -> Busy \cup {"idle", "done", "failed", "dead"}]
      /\ at \in [Call -> Nat]
  BY DEF TypeOK
<1>2. ASSUME final' = final, pc'[h] = pc[h], at'[h] = at[h]
      PROVE  Rehashed(h)' /\ OwnFinals(h)'
  BY <1>1, <1>2, RehashedStays, FinalsKept
<1>3. CASE Clear
  BY <1>3, ClearedAlone DEF Rehashed, OwnFinals, Busy
<1>4. CASE Reader \/ UNCHANGED vars
  BY <1>2, <1>4 DEF Reader, ReadManifest, ReadOn, tree, parents, vars
<1>5. ASSUME NEW k \in Call, NEW i \in DOMAIN job[k],
             Start(k, i) \/ Work(k, i) \/ FailJob(k, i) \/ Drop(k, i)
      PROVE  Rehashed(h)' /\ OwnFinals(h)'
  BY <1>2, <1>5 DEF Work, Start, Open, Rows, Link, Unlink, Abort, FailJob, Drop, tree, parents
<1>6. ASSUME NEW k \in Call, NEW i \in DOMAIN job[k], KillWorker(k, i)
      PROVE  Rehashed(h)' /\ OwnFinals(h)'
  <2>1. final' = final /\ at' = at /\ pc'[h] \in {pc[h], "broken"}
    BY <1>1, <1>6 DEF KillWorker, tree
  <2>2. QED
    BY <1>2, <2>1, NothingPromised
<1>7. ASSUME NEW k \in Call, k # h,
             Begin(k) \/ Parent(k) \/ FailParent(k) \/ KillParent(k)
      PROVE  Rehashed(h)' /\ OwnFinals(h)'
  <2>1. pc'[h] = pc[h] /\ at'[h] = at[h]
    BY <1>1, <1>7 DEF Begin, Parent, FailParent, KillParent, CheckRoot, MakeRoot, Collect,
       Surface, Reap, VerifyUnit, Create, Fill, Sync, GoTo
  <2>2. final' = final \/ Create(k) \/ Fill(k)
    BY <1>7 DEF Begin, Parent, FailParent, KillParent, CheckRoot, MakeRoot, Collect, Surface,
       Reap, VerifyUnit, Sync, tree
  <2>3. QED
    BY <1>2, <1>7, <2>1, <2>2, RehashedStays, FinalsStay
<1>8. CASE Begin(h) \/ CheckRoot(h) \/ MakeRoot(h) \/ Surface(h) \/ Reap(h)
           \/ FailParent(h) \/ KillParent(h)
  <2>1. pc'[h] \in {"check", "mkdir", "map", "failed", "dead"}
    BY <1>1, <1>8 DEF Begin, CheckRoot, MakeRoot, Surface, Reap, FailParent, KillParent, GoTo
  <2>2. QED
    BY <2>1, NothingPromised
<1>9. CASE Collect(h)
  <2>1. pc'[h] = "verify" /\ at'[h] = 1
    BY <1>1, <1>9 DEF Collect, GoTo
  <2>2. DOMAIN Units(h) = 1..Len(Units(h)) /\ plan' = plan
    BY PlanFacts, TreeStep
  <2>3. \A i \in DOMAIN Units(h)' : ~(i < 1)
    BY <2>2 DEF Units
  <2>4. QED
    BY <2>1, <2>3 DEF Rehashed, OwnFinals
<1>10. CASE VerifyUnit(h)
  BY <1>10, VerifyStep
<1>11. CASE Create(h) \/ Fill(h) \/ Sync(h)
  BY <1>11, FinalsStep
<1>12. QED
  BY <1>3, <1>4, <1>5, <1>6, <1>7, <1>8, <1>9, <1>10, <1>11 DEF Next, Parent

-----------------------------------------------------------------------------
(* What the files under a manifest hold *)

\* The work units of a plan cut its ranges, and the files are of work units.
LEMMA ManifestCovers ==
    ASSUME IInv PROVE EveryPathOnce
<1> USE DEF IInv
<1> SUFFICES ASSUME Whole("manifest") PROVE EveryPathOnce
  BY DEF EveryPathOnce
<1> DEFINE k == final["manifest"].call
           selected == UNION {Paths(r) : r \in Range(plan[k].ranges)}
           Holding(p, q) == {c \in csv : c.call = k /\ c.freq = q /\ p \in Paths(c.unit)}
<1>1. k \in Call
  BY DEF Whole, TypeOK, None
<1>2. Listed(k) \subseteq csv /\ UniqueNames
  BY DEF ManifestIsTrue
<1> HIDE DEF k
<1>3. PICK g \in Geometries[k] :
        /\ plan[k].ranges = g.ranges
        /\ Units(k) = WorkUnits(g.ranges, g.size)
        /\ g.size \in Nat \ {0} /\ Legal(g.ranges)
        /\ \A m \in DOMAIN g.ranges : Within(g.ranges[m])
  BY <1>1, GeometryFacts
<1>4. /\ \A i \in DOMAIN Units(k) : \E m \in DOMAIN g.ranges :
           Units(k)[i].role = g.ranges[m].role /\ Paths(Units(k)[i]) \subseteq Paths(g.ranges[m])
      /\ \A m \in DOMAIN g.ranges : \A p \in Paths(g.ranges[m]) :
           \E i \in DOMAIN Units(k) : p \in Paths(Units(k)[i])
      /\ \A i, j \in DOMAIN Units(k) :
           i # j => Paths(Units(k)[i]) \cap Paths(Units(k)[j]) = {}
  BY <1>3, UnitsCut
<1>5. \A c \in csv : c.call = k => \E i \in DOMAIN Units(k) : c.unit = Units(k)[i]
  BY DEF OfPlan, Range
<1>6. ASSUME NEW p \in selected, NEW q \in Range(Frequencies)
      PROVE  Cardinality(Holding(p, q)) = 1
  <2>1. PICK m \in DOMAIN g.ranges : p \in Paths(g.ranges[m])
    BY <1>3, <1>6 DEF Range
  <2>2. PICK i \in DOMAIN Units(k) : p \in Paths(Units(k)[i])
    BY <1>4, <2>1
  <2>3. PICK f \in DOMAIN Frequencies : q = Frequencies[f]
    BY <1>6 DEF Range
  <2> DEFINE c == [call |-> k, unit |-> Units(k)[i], freq |-> q]
  <2>4. c \in csv
    BY <1>2, <2>3 DEF Listed
  <2>5. c \in Holding(p, q)
    BY <2>2, <2>4
  <2>6. ASSUME NEW d \in Holding(p, q) PROVE d = c
    <3>1. PICK j \in DOMAIN Units(k) : d.unit = Units(k)[j]
      BY <1>5
    <3>2. p \in Paths(Units(k)[j])
      BY <3>1
    <3>3. i = j
      BY <1>4, <2>2, <3>2
    <3>4. QED
      BY <1>2, <2>4, <3>1, <3>3 DEF UniqueNames
  <2>7. Holding(p, q) = {c}
    BY <2>5, <2>6
  <2>8. QED
    BY <2>7, FS_Singleton
<1>7. ASSUME NEW c \in csv, c.call = k
      PROVE  Paths(c.unit) \subseteq
                selected \cap FirstOf(c.unit.role)..LastOf(c.unit.role)
  <2>1. PICK i \in DOMAIN Units(k) : c.unit = Units(k)[i]
    BY <1>5, <1>7
  <2>2. PICK m \in DOMAIN g.ranges :
          c.unit.role = g.ranges[m].role /\ Paths(c.unit) \subseteq Paths(g.ranges[m])
    BY <1>4, <2>1
  <2>3. Paths(g.ranges[m]) \subseteq selected
    BY <1>3 DEF Range
  <2>4. Paths(g.ranges[m]) \subseteq FirstOf(c.unit.role)..LastOf(c.unit.role)
    BY <1>3, <2>2 DEF Within
  <2>5. QED
    BY <2>2, <2>3, <2>4
<1>8. QED
  BY <1>6, <1>7 DEF EveryPathOnce, k

-----------------------------------------------------------------------------
(* The theorems *)

\* The invariant holds before the first call ...
LEMMA InitInv == Init => IInv
<1> SUFFICES ASSUME Init PROVE IInv
  OBVIOUS
<1>1. DOMAIN plan = Call /\ \A k \in Call : plan[k] \in Plans[k]
  BY DEF Init
<1>2. DOMAIN job = Call /\ \A k \in Call :
        job[k] \in [DOMAIN Units(k) -> [step : Jobs, f : DOMAIN Frequencies]]
  BY SiblingFacts DEF Init, Units, Jobs
<1>3. TypeOK
  <2>1. /\ pc \in [Call -> Busy \cup {"idle", "done", "failed", "dead"}]
        /\ at \in [Call -> Nat] /\ root \in BOOLEAN
        /\ temps \subseteq Files /\ csv \subseteq Files
        /\ faults \in 0..MaxFaults /\ clears \in 0..MaxClears
    <3>1. MaxFaults \in Nat /\ MaxClears \in Nat
      BY V5Assumption
    <3>2. /\ pc = [k \in Call |-> "idle"] /\ at = [k \in Call |-> 1] /\ root = FALSE
          /\ temps = {} /\ csv = {} /\ faults = 0 /\ clears = 0
      BY DEF Init
    <3>3. pc \in [Call -> Busy \cup {"idle", "done", "failed", "dead"}] /\ at \in [Call -> Nat]
      BY <3>2
    <3>4. QED
      <4>1. root \in BOOLEAN
        BY <3>2
      <4>2. faults \in 0..MaxFaults /\ clears \in 0..MaxClears
        BY <3>1, <3>2
      <4>3. temps \subseteq Files /\ csv \subseteq Files
        BY <3>2
      <4>4. QED
        BY <3>3, <4>1, <4>2, <4>3
  <2>2. final \in [{"checksums", "manifest"} -> {None} \cup [call : Call, whole : BOOLEAN]]
    BY DEF Init
  <2>3. reader \in [step : Reads, call : Call \cup {"nobody"}]
    BY DEF Init, Reads
  <2>4. \A k \in Call : pc[k] = "idle"
    BY DEF Init
  <2>5. QED
    BY <1>1, <1>2, <2>1, <2>2, <2>3, <2>4 DEF TypeOK
<1>4. QED
  BY <1>3 DEF Init, IInv, UniqueNames, OfPlan, Rehashed, OwnFinals, ManifestIsTrue, Whole, None

\* ... and after each step.
LEMMA InvStep == IInv /\ [Next]_vars => IInv'
<1> SUFFICES ASSUME IInv, [Next]_vars PROVE IInv'
  OBVIOUS
<1>1. TypeOK' /\ UniqueNames' /\ OfPlan' /\ ManifestIsTrue'
  BY TypeStep, TreeStep, ManifestStep
<1>2. \A h \in Call : Rehashed(h)' /\ OwnFinals(h)'
  BY CallStep
<1>3. QED
  BY <1>1, <1>2 DEF IInv

\* For any plans, pools, calls, faults and removals.
THEOREM Invariance == Spec => []IInv
BY InitInv, InvStep, PTL DEF Spec

\* Type correctness.
THEOREM TypeCorrect == Spec => []TypeOK
BY Invariance, PTL DEF IInv

\* A manifest that is whole stands on the whole checksums and on every sibling of
\* its call, whichever workers outlive a killed parent, and nothing takes them
\* away again.
THEOREM ManifestTrue == Spec => []ManifestIsTrue
BY Invariance, PTL DEF IInv

\* Under a manifest that is whole every selected path has one file of each
\* frequency, and no file holds a path that is not selected or of another role,
\* for any ranges that a plan may select and any size of its shards.
THEOREM EveryPathCovered == Spec => []EveryPathOnce
<1>1. IInv => EveryPathOnce
  BY ManifestCovers
<1>2. QED
  BY <1>1, Invariance, PTL
=============================================================================
