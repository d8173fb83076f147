------------------------ MODULE CompactStatusProofs ------------------------
(* The registry of running compactions keeps them apart: proofs for any     *)
(* number of compactors, tables and levels.                                 *)
EXTENDS CompactStatus, FiniteSetTheorems, WellFoundedInduction, TLAPS

-----------------------------------------------------------------------------
(* A nonempty set of naturals has a least member.                           *)
LEMMA NatMin ==
  ASSUME NEW T \in SUBSET Nat, T # {}
  PROVE  \E m \in T : \A n \in T : m <= n
<1> DEFINE R == {p \in Nat \X Nat : p[1] < p[2]}
<1>1. IsWellFoundedOn(R, Nat)
  BY NatLessThanWellFounded DEF OpToRel
<1> HIDE DEF R
<1>2. PICK m \in T : \A n \in T : <<n, m>> \notin R
  BY <1>1, WFMin
<1>3. \A n \in T : n < m => <<n, m>> \in R
  BY DEF R
<1>4. m \in Nat /\ \A n \in T : n \in Nat
  OBVIOUS
<1>5. \A n \in T : ~(n < m)
  BY <1>2, <1>3
<1> QED
  BY <1>4, <1>5

(* A bounded nonempty set of naturals has a greatest member.                *)
LEMMA NatMax ==
  ASSUME NEW N \in Nat, NEW T \in SUBSET (0..N), T # {}
  PROVE  \E m \in T : \A n \in T : n <= m
<1> DEFINE U == {N - n : n \in T}
<1>1. U \in SUBSET Nat /\ U # {}
  <2>1. \A n \in T : n \in Nat /\ N - n \in Nat
    OBVIOUS
  <2> QED
    BY <2>1
<1>2. PICK u \in U : \A n \in U : u <= n
  BY <1>1, NatMin
<1>3. PICK m \in T : u = N - m
  OBVIOUS
<1>4. \A n \in T : N - m <= N - n
  BY <1>2, <1>3
<1> QED
  BY <1>4

(* The sum of f over the subsets of S, taken in an order that CHOOSE fixes.  *)
Any(s) == CHOOSE x \in s : TRUE

SumsUp(g, f, S) ==
  \A s \in SUBSET S : g[s] = IF s = {} THEN 0 ELSE f[Any(s)] + g[s \ {Any(s)}]

IsSum(g, f, S) == g \in [SUBSET S -> Nat] /\ SumsUp(g, f, S)

(* Proofs about the subsets of a finite set go by their size.                *)
LEMMA SmallestSubset ==
  ASSUME NEW S, IsFiniteSet(S), NEW B \in SUBSET SUBSET S, B # {}
  PROVE  \E s \in B : \A x \in s : s \ {x} \notin B
<1> DEFINE T == {Cardinality(s) : s \in B}
<1>1. \A s \in SUBSET S : IsFiniteSet(s) /\ Cardinality(s) \in Nat
  BY FS_Subset, FS_CardinalityType
<1>2. T \in SUBSET Nat /\ T # {}
  BY <1>1
<1>3. PICK c \in T : \A d \in T : c <= d
  BY <1>2, NatMin
<1>4. PICK s \in B : c = Cardinality(s)
  OBVIOUS
<1>5. ASSUME NEW x \in s, s \ {x} \in B PROVE FALSE
  <2>1. Cardinality(s \ {x}) = Cardinality(s) - 1
    BY <1>1, FS_RemoveElement
  <2>2. c <= Cardinality(s \ {x})
    BY <1>3, <1>5
  <2>3. Cardinality(s) \in Nat
    BY <1>1
  <2> QED
    BY <1>4, <2>1, <2>2, <2>3
<1> QED
  BY <1>5

LEMMA AnyIn ==
  ASSUME NEW s, s # {}
  PROVE  Any(s) \in s
BY DEF Any

(* A finite set has sums.                                                    *)
LEMMA SumExists ==
  ASSUME NEW S, IsFiniteSet(S), NEW f \in [S -> Nat]
  PROVE  \E g : IsSum(g, f, S)
<1> DEFINE N == Cardinality(S)
           D(k) == {s \in SUBSET S : Cardinality(s) <= k}
           Upto(k) == \E g \in [D(k) -> Nat] :
                         \A s \in D(k) : g[s] = IF s = {} THEN 0 ELSE f[Any(s)] + g[s \ {Any(s)}]
           T == {k \in Nat : ~Upto(k)}
<1>0. \A s \in SUBSET S : IsFiniteSet(s) /\ Cardinality(s) \in Nat /\ Cardinality(s) <= N
  BY FS_Subset, FS_CardinalityType
<1>1. \A s \in SUBSET S : s # {} => /\ Any(s) \in S /\ s \ {Any(s)} \in SUBSET S
                                    /\ Cardinality(s \ {Any(s)}) = Cardinality(s) - 1
  BY <1>0, AnyIn, FS_RemoveElement
<1> HIDE DEF Upto, D
<1>2. ASSUME T # {} PROVE FALSE
  <2>1. PICK k \in T : \A n \in T : k <= n
    <3>1. T \in SUBSET Nat
      OBVIOUS
    <3> QED
      BY <1>2, <3>1, NatMin
  <2>2. k # 0
    <3> DEFINE h == [s \in D(0) |-> 0]
    <3>1. \A s \in D(0) : s = {}
      <4> SUFFICES ASSUME NEW s \in D(0), s # {} PROVE FALSE
        OBVIOUS
      <4>1. s \in SUBSET S /\ Cardinality(s) <= 0
        BY DEF D
      <4>2. Cardinality(s \ {Any(s)}) = Cardinality(s) - 1 /\ Cardinality(s \ {Any(s)}) \in Nat
        BY <1>0, <1>1, <4>1
      <4> QED
        BY <1>0, <4>1, <4>2
    <3>2. h \in [D(0) -> Nat] /\ \A s \in D(0) : h[s] = 0
      OBVIOUS
    <3>3. Upto(0)
      BY <3>1, <3>2 DEF Upto
    <3> QED
      BY <3>3
  <2>3. k - 1 \in Nat /\ Upto(k - 1)
    BY <2>1, <2>2
  <2>4. PICK g \in [D(k - 1) -> Nat] :
           \A s \in D(k - 1) : g[s] = IF s = {} THEN 0 ELSE f[Any(s)] + g[s \ {Any(s)}]
    BY <2>3 DEF Upto
  <2> DEFINE h == [s \in D(k) |-> IF s = {} THEN 0 ELSE f[Any(s)] + g[s \ {Any(s)}]]
  <2>5. \A s \in D(k) : s # {} => s \ {Any(s)} \in D(k - 1) /\ s \ {Any(s)} \in D(k) /\ Any(s) \in S
    <3> SUFFICES ASSUME NEW s \in D(k), s # {}
                 PROVE  s \ {Any(s)} \in D(k - 1) /\ s \ {Any(s)} \in D(k) /\ Any(s) \in S
      OBVIOUS
    <3>1. s \in SUBSET S /\ Cardinality(s) <= k
      BY DEF D
    <3>2. /\ Any(s) \in S /\ s \ {Any(s)} \in SUBSET S
          /\ Cardinality(s \ {Any(s)}) = Cardinality(s) - 1 /\ Cardinality(s) \in Nat
      BY <1>0, <1>1, <3>1
    <3> QED
      BY <2>3, <3>1, <3>2 DEF D
  <2>6. h \in [D(k) -> Nat]
    <3>1. \A s \in D(k) : s # {} => f[Any(s)] \in Nat /\ g[s \ {Any(s)}] \in Nat
      BY <2>4, <2>5
    <3> QED
      BY <3>1
  <2>7. \A s \in D(k) : s # {} => h[s \ {Any(s)}] = g[s \ {Any(s)}]
    <3> SUFFICES ASSUME NEW s \in D(k), s # {} PROVE h[s \ {Any(s)}] = g[s \ {Any(s)}]
      OBVIOUS
    <3>1. PICK r : r = s \ {Any(s)}
      OBVIOUS
    <3>2. r \in D(k - 1) /\ r \in D(k)
      BY <2>5, <3>1
    <3>3. h[r] = IF r = {} THEN 0 ELSE f[Any(r)] + g[r \ {Any(r)}]
      BY <3>2
    <3>4. g[r] = IF r = {} THEN 0 ELSE f[Any(r)] + g[r \ {Any(r)}]
      BY <2>4, <3>2
    <3> QED
      BY <3>1, <3>3, <3>4
  <2>8. \A s \in D(k) : h[s] = IF s = {} THEN 0 ELSE f[Any(s)] + h[s \ {Any(s)}]
    BY <2>7
  <2> HIDE DEF h
  <2>9. Upto(k)
    BY <2>6, <2>8 DEF Upto
  <2> QED
    BY <2>1, <2>9
<1>3. N \in Nat /\ Upto(N)
  BY <1>0, <1>2, FS_CardinalityType
<1>4. D(N) = SUBSET S
  BY <1>0 DEF D
<1> QED
  BY <1>3, <1>4 DEF Upto, IsSum, SumsUp

(* Functions that sum up the same numbers agree.                             *)
LEMMA SumsAgree ==
  ASSUME NEW S, IsFiniteSet(S), NEW f, NEW e, NEW g, NEW h, SumsUp(g, f, S), SumsUp(h, e, S),
         \A x \in S : f[x] = e[x]
  PROVE  \A s \in SUBSET S : g[s] = h[s]
<1> DEFINE B == {s \in SUBSET S : g[s] # h[s]}
<1>1. ASSUME B # {} PROVE FALSE
  <2>1. PICK s \in B : \A x \in s : s \ {x} \notin B
    <3>1. B \in SUBSET SUBSET S
      OBVIOUS
    <3> QED
      BY <1>1, <3>1, SmallestSubset
  <2>2. s # {}
    BY DEF SumsUp
  <2>3. PICK x \in s : x = Any(s)
    BY <2>2, AnyIn
  <2>4. g[s \ {x}] = h[s \ {x}] /\ f[x] = e[x]
    BY <2>1
  <2>5. g[s] = f[x] + g[s \ {x}] /\ h[s] = e[x] + h[s \ {x}]
    BY <2>2, <2>3 DEF SumsUp
  <2> QED
    BY <2>4, <2>5
<1> QED
  BY <1>1

(* The order does not matter: any element can be taken out first.            *)
LEMMA SumWithout ==
  ASSUME NEW S, IsFiniteSet(S), NEW f \in [S -> Nat], NEW g, IsSum(g, f, S)
  PROVE  \A s \in SUBSET S : \A c \in s : g[s] = f[c] + g[s \ {c}]
<1> DEFINE B == {s \in SUBSET S : \E c \in s : g[s] # f[c] + g[s \ {c}]}
<1>0. \A s \in SUBSET S : g[s] \in Nat
  BY DEF IsSum
<1>1. ASSUME B # {} PROVE FALSE
  <2>1. PICK s \in B : \A x \in s : s \ {x} \notin B
    <3>1. B \in SUBSET SUBSET S
      OBVIOUS
    <3> QED
      BY <1>1, <3>1, SmallestSubset
  <2>2. PICK c \in s : g[s] # f[c] + g[s \ {c}]
    OBVIOUS
  <2>3. PICK x \in s : x = Any(s)
    BY AnyIn
  <2>4. g[s] = f[x] + g[s \ {x}]
    BY <2>3 DEF IsSum, SumsUp
  <2>5. x # c
    BY <2>2, <2>4
  <2>6. PICK r : r = (s \ {x}) \ {c}
    OBVIOUS
  <2>7. r = (s \ {c}) \ {x} /\ r \in SUBSET S /\ s \ {x} \in SUBSET S /\ s \ {c} \in SUBSET S
    BY <2>6
  <2>8. g[s \ {x}] = f[c] + g[r]
    BY <2>1, <2>5, <2>6, <2>7
  <2>9. g[s \ {c}] = f[x] + g[r]
    BY <2>1, <2>5, <2>7
  <2>10. f[c] \in Nat /\ f[x] \in Nat /\ g[r] \in Nat
    BY <1>0, <2>7
  <2> QED
    BY <2>2, <2>4, <2>8, <2>9, <2>10
<1> QED
  BY <1>1

-----------------------------------------------------------------------------
(* What encoded keys, and the first and last version of one, look like.     *)
LEMMA KeyLessOrder ==
  /\ \A a, b \in EncodedKeys : a[1] \in Nat /\ a[2] \in Nat /\ a = <<a[1], a[2]>>
  /\ \A u \in UserKeys : KeyWithTsFirst(u) \in EncodedKeys /\ KeyWithTsLast(u) \in EncodedKeys
  /\ \A u \in UserKeys : KeyWithTsFirst(u) = <<u, 0>> /\ KeyWithTsLast(u) = <<u, MaxTs>>
  /\ \A a \in EncodedKeys : UserKeyOf(a) \in UserKeys /\ UserKeyOf(a) \in Nat
BY MaxTsAssumption, MaxUserKeyAssumption
DEF EncodedKeys, UserKeys, Timestamps, KeyWithTsFirst, KeyWithTsLast, KeyWithTs, UserKeyOf

(* A nonempty set of encoded keys has a first and a last key.               *)
LEMMA FirstKey ==
  ASSUME NEW K \in SUBSET EncodedKeys, K # {}
  PROVE  \E k \in K : \A m \in K : ~KeyLess(m, k)
<1> DEFINE U == {k[1] : k \in K}
<1>1. U \in SUBSET Nat /\ U # {}
  BY KeyLessOrder
<1>2. PICK u \in U : \A n \in U : u <= n
  BY <1>1, NatMin
<1> DEFINE V == {k[2] : k \in {m \in K : m[1] = u}}
<1>3. V \in SUBSET Nat /\ V # {}
  BY KeyLessOrder
<1>4. PICK v \in V : \A n \in V : v <= n
  BY <1>3, NatMin
<1>5. PICK k \in K : k[1] = u /\ k[2] = v
  OBVIOUS
<1>6. ASSUME NEW m \in K PROVE ~KeyLess(m, k)
  <2>1. u <= m[1] /\ (m[1] = u => v <= m[2])
    BY <1>2, <1>4
  <2>2. m[1] \in Nat /\ m[2] \in Nat /\ u \in Nat /\ v \in Nat
    BY KeyLessOrder, <1>5
  <2> QED
    BY <2>1, <2>2, <1>5 DEF KeyLess
<1> QED
  BY <1>6

(* The last key, by the same argument from above.                           *)
LEMMA LastKey ==
  ASSUME NEW K \in SUBSET EncodedKeys, K # {}
  PROVE  \E k \in K : \A m \in K : ~KeyLess(k, m)
<1> DEFINE U == {k[1] : k \in K}
<1>1. U \in SUBSET (0..MaxUserKey) /\ U # {}
  BY MaxUserKeyAssumption DEF EncodedKeys, UserKeys
<1>2. PICK u \in U : \A n \in U : n <= u
  BY <1>1, NatMax, MaxUserKeyAssumption
<1> DEFINE V == {k[2] : k \in {m \in K : m[1] = u}}
<1>3. V \in SUBSET (0..MaxTs) /\ V # {}
  BY DEF EncodedKeys, Timestamps
<1>4. PICK v \in V : \A n \in V : n <= v
  BY <1>3, NatMax, MaxTsAssumption
<1>5. PICK k \in K : k[1] = u /\ k[2] = v
  OBVIOUS
<1>6. ASSUME NEW m \in K PROVE ~KeyLess(k, m)
  <2>1. m[1] <= u /\ (m[1] = u => m[2] <= v)
    BY <1>2, <1>4
  <2>2. m[1] \in Nat /\ m[2] \in Nat /\ u \in Nat /\ v \in Nat
    BY KeyLessOrder, <1>5
  <2> QED
    BY <2>1, <2>2, <1>5 DEF KeyLess
<1> QED
  BY <1>6

(* The range of some tables reaches from the first version of a user key to *)
(* the last version of one, and spans each of the tables.                   *)
LEMMA KeyRangeSpans ==
  ASSUME NEW S \in SUBSET Tables, S # {}
  PROVE  \E u, w \in UserKeys :
            /\ GetKeyRange(S) = Between(<<u, 0>>, <<w, MaxTs>>)
            /\ u <= w
            /\ \A s \in S : u <= UserKeyOf(Smallest[s]) /\ UserKeyOf(Biggest[s]) <= w
<1>1. /\ {Smallest[s] : s \in S} \in SUBSET EncodedKeys /\ {Smallest[s] : s \in S} # {}
      /\ {Biggest[s] : s \in S} \in SUBSET EncodedKeys /\ {Biggest[s] : s \in S} # {}
  BY TablesAssumption
<1>2. /\ SmallestOf(S) \in EncodedKeys
      /\ \A s \in S : ~KeyLess(Smallest[s], SmallestOf(S))
  <2>1. PICK k \in {Smallest[s] : s \in S} : \A m \in {Smallest[s] : s \in S} : ~KeyLess(m, k)
    BY <1>1, FirstKey
  <2>2. \A s \in S : ~KeyLess(Smallest[s], k)
    BY <2>1
  <2> QED
    BY <1>1, <2>2 DEF SmallestOf
<1>3. /\ BiggestOf(S) \in EncodedKeys
      /\ \A s \in S : ~KeyLess(BiggestOf(S), Biggest[s])
  <2>1. PICK k \in {Biggest[s] : s \in S} : \A m \in {Biggest[s] : s \in S} : ~KeyLess(k, m)
    BY <1>1, LastKey
  <2>2. \A s \in S : ~KeyLess(k, Biggest[s])
    BY <2>1
  <2> QED
    BY <1>1, <2>2 DEF BiggestOf
<1> DEFINE u == UserKeyOf(SmallestOf(S))
           w == UserKeyOf(BiggestOf(S))
<1>4. u \in UserKeys /\ w \in UserKeys /\ u \in Nat /\ w \in Nat
  BY <1>2, <1>3, KeyLessOrder
<1>5. GetKeyRange(S) = Between(<<u, 0>>, <<w, MaxTs>>)
  BY <1>4, KeyLessOrder DEF GetKeyRange
<1>6. ASSUME NEW s \in S PROVE u <= UserKeyOf(Smallest[s]) /\ UserKeyOf(Biggest[s]) <= w
  <2>1. Smallest[s] \in EncodedKeys /\ Biggest[s] \in EncodedKeys
    BY TablesAssumption
  <2>2. /\ UserKeyOf(Smallest[s]) \in Nat /\ UserKeyOf(Biggest[s]) \in Nat
        /\ ~(UserKeyOf(Smallest[s]) < u) /\ ~(w < UserKeyOf(Biggest[s]))
    BY <1>2, <1>3, <2>1, KeyLessOrder DEF KeyLess, UserKeyOf
  <2> QED
    BY <1>4, <2>2
<1>7. u <= w
  <2>1. PICK s \in S : TRUE
    OBVIOUS
  <2>2. Smallest[s] \in EncodedKeys /\ Biggest[s] \in EncodedKeys /\ ~KeyLess(Biggest[s], Smallest[s])
    BY TablesAssumption
  <2>3. /\ UserKeyOf(Smallest[s]) \in Nat /\ UserKeyOf(Biggest[s]) \in Nat
        /\ ~(UserKeyOf(Biggest[s]) < UserKeyOf(Smallest[s]))
    BY <2>2, KeyLessOrder DEF KeyLess, UserKeyOf
  <2> QED
    BY <1>4, <1>6, <2>3
<1> QED
  BY <1>4, <1>5, <1>6, <1>7

-----------------------------------------------------------------------------
(* What a CompactDef can look like.                                         *)
LEMMA DefFacts ==
  ASSUME NEW d \in CompactDefs
  PROVE  /\ d # Nothing
         /\ d.this \in LevelIds /\ NextLevel(d) \in LevelIds /\ NextLevel(d) # d.this
         /\ d.top \in SUBSET Tables /\ d.bot \in SUBSET Tables
         /\ ~IsEmpty(d.thisRange)
         /\ d.bot # {} => ~IsEmpty(d.nextRange)
         /\ \A s \in d.top : LevelOf[s] = d.this
         /\ \A s \in d.bot : LevelOf[s] = NextLevel(d)
<1>1. /\ d.top # {} /\ d.top \in SUBSET Tables /\ d.bot \in SUBSET Tables
      /\ d.this \in 0..(NumLevels - 2)
      /\ \A s \in d.top : LevelOf[s] = d.this
      /\ \A s \in d.bot : LevelOf[s] = d.this + 1
      /\ d.thisRange \in {GetKeyRange(d.top), Inf}
      /\ d.bot # {} => d.nextRange = GetKeyRange(d.bot)
  BY DEF CompactDefs
<1>2. d # Nothing
  BY <1>1 DEF Nothing
<1>3. d.this \in LevelIds /\ NextLevel(d) \in LevelIds /\ NextLevel(d) # d.this
  BY <1>1, TablesAssumption DEF LevelIds, NextLevel
<1>4. \A S \in SUBSET Tables : S # {} => ~IsEmpty(GetKeyRange(S))
  BY DEF IsEmpty, GetKeyRange, Between
<1>5. ~IsEmpty(Inf)
  BY DEF IsEmpty, Inf
<1> QED
  BY <1>1, <1>2, <1>3, <1>4, <1>5 DEF NextLevel

(* A range is the default one, or it is not empty.                          *)
LEMMA KeyRangeKinds == \A r \in KeyRanges : r = Empty \/ ~IsEmpty(r)
<1>1. ~IsEmpty(Inf) /\ \A a, b : ~IsEmpty(Between(a, b))
  BY DEF IsEmpty, Between, Inf
<1> QED
  BY <1>1 DEF KeyRanges

(* get_key_range returns a range of encoded keys.                           *)
LEMMA RangeTypes ==
  /\ ClaimRanges \subseteq KeyRanges
  /\ \A d \in CompactDefs : d.thisRange \in KeyRanges /\ d.nextRange \in KeyRanges
<1>1. ASSUME NEW S \in SUBSET Tables PROVE GetKeyRange(S) \in KeyRanges
  <2>1. CASE S = {}
    BY <2>1 DEF GetKeyRange, KeyRanges
  <2>2. CASE S # {}
    <3>1. PICK u, w \in UserKeys : GetKeyRange(S) = Between(<<u, 0>>, <<w, MaxTs>>) /\ u <= w
      BY <2>2, KeyRangeSpans
    <3>2. <<u, 0>> \in EncodedKeys /\ <<w, MaxTs>> \in EncodedKeys /\ ~KeyLess(<<w, MaxTs>>, <<u, 0>>)
      BY <3>1, MaxTsAssumption, MaxUserKeyAssumption DEF EncodedKeys, UserKeys, Timestamps, KeyLess
    <3> DEFINE p == << <<u, 0>>, <<w, MaxTs>> >>
    <3>3. p \in {q \in EncodedKeys \X EncodedKeys : ~KeyLess(q[2], q[1])}
      BY <3>2
    <3>4. GetKeyRange(S) = Between(p[1], p[2])
      BY <3>1
    <3> QED
      BY <3>3, <3>4 DEF KeyRanges
  <2> QED
    BY <2>1, <2>2
<1>2. ClaimRanges \subseteq KeyRanges
  BY <1>1 DEF ClaimRanges, KeyRanges
<1> QED
  BY <1>2 DEF CompactDefs

(* Overlap of nonempty ranges is symmetric, and no range is apart from      *)
(* itself unless it is empty.                                               *)
LEMMA OverlapFacts ==
  /\ \A p, q : Apart(p, q) <=> Apart(q, p)
  /\ \A p \in KeyRanges : ~IsEmpty(p) => OverlapsWith(p, p)
  /\ \A q : OverlapsWith(Empty, q)
<1>1. \A p, q : Apart(p, q) <=> Apart(q, p)
  BY DEF Apart, OverlapsWith
<1>2. ASSUME NEW p \in KeyRanges, ~IsEmpty(p) PROVE OverlapsWith(p, p)
  <2>1. CASE p = Inf
    BY <2>1 DEF OverlapsWith, Inf, IsInf, IsEmpty
  <2>2. CASE p # Inf
    <3>1. PICK k \in EncodedKeys \X EncodedKeys : p = Between(k[1], k[2]) /\ ~KeyLess(k[2], k[1])
      BY <1>2, <2>2 DEF KeyRanges, IsEmpty, Empty
    <3>2. p.left = k[1] /\ p.right = k[2]
      BY <3>1 DEF Between
    <3> QED
      BY <1>2, <3>1, <3>2 DEF OverlapsWith
  <2> QED
    BY <2>1, <2>2
<1>3. \A q : OverlapsWith(Empty, q)
  BY DEF OverlapsWith, IsEmpty, Empty
<1> QED
  BY <1>1, <1>2, <1>3

(* A table of a compaction is spanned by the range claimed on its level.    *)
LEMMA TableInRange ==
  ASSUME NEW d \in CompactDefs, NEW s \in AllTables(d)
  PROVE  /\ s \in Tables /\ LevelOf[s] \in LevelIds
         /\ On(d, LevelOf[s])
         /\ ~IsEmpty(RangeAt(d, LevelOf[s]))
         /\ \/ RangeAt(d, LevelOf[s]) = Inf
            \/ \E u, w \in UserKeys :
                 /\ RangeAt(d, LevelOf[s]) = Between(<<u, 0>>, <<w, MaxTs>>)
                 /\ u <= UserKeyOf(Smallest[s]) /\ UserKeyOf(Biggest[s]) <= w
<1>1. s \in Tables /\ LevelOf[s] \in LevelIds
  BY DefFacts, TablesAssumption DEF AllTables
<1>2. CASE s \in d.top
  <2>1. LevelOf[s] = d.this /\ RangeAt(d, LevelOf[s]) = d.thisRange
    BY <1>2, DefFacts DEF RangeAt
  <2>2. d.thisRange \in {GetKeyRange(d.top), Inf}
    BY DEF CompactDefs
  <2>3. d.top \in SUBSET Tables /\ d.top # {} /\ ~IsEmpty(d.thisRange)
    BY DefFacts, <1>2
  <2>4. PICK u, w \in UserKeys :
           /\ GetKeyRange(d.top) = Between(<<u, 0>>, <<w, MaxTs>>)
           /\ u <= UserKeyOf(Smallest[s]) /\ UserKeyOf(Biggest[s]) <= w
    BY <2>3, <1>2, KeyRangeSpans
  <2> QED
    BY <1>1, <2>1, <2>2, <2>3, <2>4 DEF On
<1>3. CASE s \in d.bot
  <2>1. LevelOf[s] = NextLevel(d) /\ RangeAt(d, LevelOf[s]) = d.nextRange
    BY <1>3, DefFacts DEF RangeAt
  <2>2. d.nextRange = GetKeyRange(d.bot)
    BY <1>3 DEF CompactDefs
  <2>3. d.bot \in SUBSET Tables /\ d.bot # {} /\ ~IsEmpty(d.nextRange)
    BY DefFacts, <1>3
  <2>4. PICK u, w \in UserKeys :
           /\ GetKeyRange(d.bot) = Between(<<u, 0>>, <<w, MaxTs>>)
           /\ u <= UserKeyOf(Smallest[s]) /\ UserKeyOf(Biggest[s]) <= w
    BY <2>3, <1>3, KeyRangeSpans
  <2> QED
    BY <1>1, <2>1, <2>2, <2>3, <2>4 DEF On
<1> QED
  BY <1>2, <1>3 DEF AllTables

(* Compactions whose ranges on a level are apart hold no tables there with  *)
(* versions of the same user key.                                           *)
LEMMA ApartTables ==
  ASSUME NEW d \in CompactDefs, NEW e \in CompactDefs,
         NEW s \in AllTables(d), NEW z \in AllTables(e), LevelOf[s] = LevelOf[z],
         Apart(RangeAt(d, LevelOf[s]), RangeAt(e, LevelOf[s])),
         NEW u \in UserKeys, Spans(s, u), Spans(z, u)
  PROVE  FALSE
<1> DEFINE p == RangeAt(d, LevelOf[s])
           q == RangeAt(e, LevelOf[s])
<1>1. ~IsEmpty(p) /\ ~IsEmpty(q) /\ s \in Tables /\ z \in Tables
  BY TableInRange
<1>2. ~IsInf(p) /\ ~IsInf(q) /\ (KeyLess(q.right, p.left) \/ KeyLess(p.right, q.left))
  BY <1>1 DEF Apart, OverlapsWith
<1>3. p # Inf /\ q # Inf
  BY <1>2 DEF IsInf, Inf
<1>4. PICK a, b \in UserKeys : /\ p = Between(<<a, 0>>, <<b, MaxTs>>)
                               /\ a <= UserKeyOf(Smallest[s]) /\ UserKeyOf(Biggest[s]) <= b
  BY <1>3, TableInRange
<1>5. PICK f, g \in UserKeys : /\ q = Between(<<f, 0>>, <<g, MaxTs>>)
                               /\ f <= UserKeyOf(Smallest[z]) /\ UserKeyOf(Biggest[z]) <= g
  BY <1>3, TableInRange
<1>6. /\ u \in Nat /\ a \in Nat /\ b \in Nat /\ f \in Nat /\ g \in Nat
      /\ UserKeyOf(Smallest[s]) \in Nat /\ UserKeyOf(Biggest[s]) \in Nat
      /\ UserKeyOf(Smallest[z]) \in Nat /\ UserKeyOf(Biggest[z]) \in Nat
  BY <1>1, TablesAssumption, KeyLessOrder, MaxUserKeyAssumption DEF UserKeys
<1>7. a <= u /\ u <= b /\ f <= u /\ u <= g
  BY <1>4, <1>5, <1>6 DEF Spans
<1>8. KeyLess(<<g, MaxTs>>, <<a, 0>>) \/ KeyLess(<<b, MaxTs>>, <<f, 0>>)
  BY <1>2, <1>4, <1>5 DEF Between
<1> QED
  BY <1>6, <1>7, <1>8, MaxTsAssumption DEF KeyLess

(* A table spans the user key it starts with.                               *)
LEMMA OwnSpan == \A s \in Tables : UserKeyOf(Smallest[s]) \in UserKeys /\ Spans(s, UserKeyOf(Smallest[s]))
<1> SUFFICES ASSUME NEW s \in Tables
             PROVE  UserKeyOf(Smallest[s]) \in UserKeys /\ Spans(s, UserKeyOf(Smallest[s]))
  OBVIOUS
<1>1. Smallest[s] \in EncodedKeys /\ Biggest[s] \in EncodedKeys /\ ~KeyLess(Biggest[s], Smallest[s])
  BY TablesAssumption
<1> QED
  BY <1>1, KeyLessOrder DEF Spans, KeyLess, UserKeyOf

(* The nonempty ranges of a level are those of the running compactions.     *)
LEMMA RangesOnLevel ==
  ASSUME TypeRegistry, NEW l \in LevelIds
  PROVE  \A r : r \in RangesOn(l) <=>
            \E c \in Compactors : Running(c) /\ On(running[c], l) /\ r = RangeAt(running[c], l)
<1>1. \A c \in Compactors : Running(c) => running[c] \in CompactDefs
  BY DEF TypeRegistry, Running
<1>2. \A c \in Compactors : Running(c) => NextLevel(running[c]) # running[c].this
  BY <1>1, DefFacts
<1> QED
  BY <1>2 DEF RangesOn, On, RangeAt

(* The same in the next state.                                              *)
LEMMA RangesOnLevelNext ==
  ASSUME TypeRegistry', NEW l \in LevelIds
  PROVE  \A r : r \in RangesOn(l)' <=>
            \E c \in Compactors : running'[c] # Nothing /\ On(running'[c], l) /\ r = RangeAt(running'[c], l)
<1>1. \A c \in Compactors : running'[c] # Nothing => running'[c] \in CompactDefs
  BY DEF TypeRegistry
<1>2. \A c \in Compactors : running'[c] # Nothing => NextLevel(running'[c]) # running'[c].this
  BY <1>1, DefFacts
<1> QED
  BY <1>2 DEF RangesOn, On, RangeAt, Running, NextLevel

(* All versions of a user key are compacted together.                       *)
LEMMA InvVersions == IInv => VersionsTogether
<1> SUFFICES ASSUME IInv, NEW b \in Compactors, NEW c \in Compactors, b # c,
                    NEW s \in AllTables(running[b]), NEW z \in AllTables(running[c]),
                    LevelOf[s] = LevelOf[z], NEW u \in UserKeys, Spans(s, u), Spans(z, u)
             PROVE  FALSE
  BY DEF VersionsTogether
<1>1. AllTables(Nothing) = {}
  BY DEF AllTables, Nothing
<1>2. Running(b) /\ Running(c)
  BY <1>1 DEF Running
<1>3. running[b] \in CompactDefs /\ running[c] \in CompactDefs
  BY <1>2 DEF IInv, TypeRegistry, Running
<1>4. LevelOf[s] \in LevelIds /\ On(running[b], LevelOf[s]) /\ On(running[c], LevelOf[s])
  BY <1>3, TableInRange
<1>5. Apart(RangeAt(running[b], LevelOf[s]), RangeAt(running[c], LevelOf[s]))
  BY <1>2, <1>4 DEF IInv, DisjointClaims
<1> QED
  BY <1>3, <1>5, ApartTables

-----------------------------------------------------------------------------
(* An empty registry satisfies the invariant.                               *)
LEMMA InitIInv == Init => IInv
<1> SUFFICES ASSUME Init PROVE IInv
  OBVIOUS
<1>1. TypeRegistry
  BY DEF Init, TypeRegistry
<1>2. \A c \in Compactors : ~Running(c) /\ AllTables(running[c]) = {}
  BY DEF Init, Running, AllTables, Nothing
<1>3. RegistryExact
  BY <1>2 DEF Init, RegistryExact, RangesOn
<1>4. NoPanic /\ DisjointClaims
  BY <1>2 DEF Init, NoPanic, DisjointClaims
<1> QED
  BY <1>1, <1>3, <1>4 DEF IInv

(* A compaction that is accepted is apart from all that are running.        *)
LEMMA AcceptedApart ==
  ASSUME IInv, NEW d \in CompactDefs, NEW c \in Compactors, Running(c),
         ~LevelOverlaps(d.this, d.thisRange), ~LevelOverlaps(NextLevel(d), d.nextRange),
         NEW l \in LevelIds, On(d, l), On(running[c], l)
  PROVE  Apart(RangeAt(running[c], l), RangeAt(d, l))
<1> DEFINE r == RangeAt(running[c], l)
<1>1. TypeRegistry /\ RegistryExact
  BY DEF IInv
<1>2. r \in RangesOn(l)
  BY <1>1, RangesOnLevel
<1>3. CASE r = Empty
  BY <1>3 DEF Apart, IsEmpty, Empty
<1>4. CASE r # Empty
  <2>1. r \in ranges[l]
    BY <1>1, <1>2, <1>4 DEF RegistryExact
  <2>2. ~LevelOverlaps(l, RangeAt(d, l))
    BY DEF On, RangeAt
  <2> QED
    BY <2>1, <2>2 DEF LevelOverlaps, Apart
<1> QED
  BY <1>3, <1>4

(* compare_and_add keeps the invariant, whether it accepts or refuses.      *)
LEMMA CompareAndAddStep ==
  ASSUME IInv, NEW c \in Compactors, NEW d \in CompactDefs, CompareAndAdd(c, d)
  PROVE  IInv'
<1>1. TypeRegistry /\ NoPanic /\ RegistryExact /\ DisjointClaims
  BY DEF IInv
<1>2. /\ ~Running(c)
      /\ ~LevelOverlaps(d.this, d.thisRange) /\ ~LevelOverlaps(NextLevel(d), d.nextRange)
      /\ claimed' = claimed \cup AllTables(d)
      /\ panicked' = (AllTables(d) \cap claimed # {})
      /\ answer' = [answer EXCEPT ![c] = "Ok"]
  BY DEF CompareAndAdd
<1>3. running'[c] = d /\ \A b \in Compactors : b # c => running'[b] = running[b]
  BY <1>1 DEF CompareAndAdd, TypeRegistry
<1>4. /\ d # Nothing /\ d.this \in LevelIds /\ NextLevel(d) \in LevelIds /\ NextLevel(d) # d.this
      /\ AllTables(d) \subseteq Tables
      /\ d.thisRange \in KeyRanges /\ d.nextRange \in KeyRanges
  BY DefFacts, RangeTypes DEF AllTables
<1>5. \A l \in LevelIds :
         ranges'[l] = IF On(d, l) THEN ranges[l] \cup {RangeAt(d, l)} ELSE ranges[l]
  BY <1>1, <1>4 DEF CompareAndAdd, TypeRegistry, On, RangeAt
<1>6. AllTables(d) \cap claimed = {}
  <2> SUFFICES ASSUME NEW s \in AllTables(d), s \in claimed PROVE FALSE
    OBVIOUS
  <2>1. PICK b \in Compactors : s \in AllTables(running[b])
    BY <1>1 DEF RegistryExact
  <2>2. Running(b) /\ running[b] \in CompactDefs
    BY <2>1, <1>1 DEF Running, AllTables, Nothing, TypeRegistry
  <2>3. s \in Tables /\ LevelOf[s] \in LevelIds /\ On(d, LevelOf[s]) /\ On(running[b], LevelOf[s])
    BY <2>1, <2>2, TableInRange
  <2>4. Apart(RangeAt(running[b], LevelOf[s]), RangeAt(d, LevelOf[s]))
    BY <1>2, <2>2, <2>3, AcceptedApart
  <2>5. UserKeyOf(Smallest[s]) \in UserKeys /\ Spans(s, UserKeyOf(Smallest[s]))
    BY <2>3, OwnSpan
  <2> QED
    BY <2>1, <2>2, <2>4, <2>5, ApartTables
<1>7. TypeRegistry'
  <2>1. ranges' \in [LevelIds -> SUBSET KeyRanges]
    BY <1>1, <1>4 DEF CompareAndAdd, TypeRegistry
  <2>2. claimed' \in SUBSET Tables
    BY <1>1, <1>2, <1>4 DEF TypeRegistry
  <2>3. running' \in [Compactors -> CompactDefs \cup {Nothing}]
    BY <1>1 DEF CompareAndAdd, TypeRegistry
  <2>4. answer' \in [Compactors -> {"none", "Ok", "Err"}] /\ panicked' \in BOOLEAN
    BY <1>1, <1>2 DEF TypeRegistry
  <2> QED
    BY <2>1, <2>2, <2>3, <2>4 DEF TypeRegistry
<1>8. NoPanic'
  BY <1>2, <1>6 DEF NoPanic
<1>9. RegistryExact'
  <2>1. claimed' = UNION {AllTables(running'[b]) : b \in Compactors}
    <3>1. AllTables(running[c]) = {}
      BY <1>2 DEF Running, AllTables, Nothing
    <3>2. claimed = UNION {AllTables(running[b]) : b \in Compactors}
      BY <1>1 DEF RegistryExact
    <3> QED
      BY <1>2, <1>3, <3>1, <3>2
  <2>2. ASSUME NEW l \in LevelIds PROVE ranges'[l] \ {Empty} = RangesOn(l)' \ {Empty}
    <3>1. \A r : r \in RangesOn(l)' <=>
             \E b \in Compactors : running'[b] # Nothing /\ On(running'[b], l) /\ r = RangeAt(running'[b], l)
      BY <1>7, RangesOnLevelNext
    <3>2. \A r : r \in RangesOn(l) <=>
             \E b \in Compactors : running[b] # Nothing /\ On(running[b], l) /\ r = RangeAt(running[b], l)
      BY <1>1, RangesOnLevel DEF Running
    <3>3. running[c] = Nothing
      BY <1>2 DEF Running
    <3>4. \A r : r \in RangesOn(l)' <=> r \in RangesOn(l) \/ (On(d, l) /\ r = RangeAt(d, l))
      BY <1>3, <1>4, <3>1, <3>2, <3>3
    <3>5. ranges[l] \ {Empty} = RangesOn(l) \ {Empty}
      BY <1>1 DEF RegistryExact
    <3> QED
      BY <1>5, <3>4, <3>5
  <2> QED
    BY <2>1, <2>2 DEF RegistryExact, AllTables
<1>10. DisjointClaims'
  <2> SUFFICES ASSUME NEW a \in Compactors, NEW b \in Compactors, a # b,
                      running'[a] # Nothing, running'[b] # Nothing,
                      NEW l \in LevelIds, On(running'[a], l), On(running'[b], l)
               PROVE  Apart(RangeAt(running'[a], l), RangeAt(running'[b], l))
    BY DEF DisjointClaims, Running, On, RangeAt, Apart, NextLevel
  <2>1. CASE a = c
    BY <2>1, <1>2, <1>3, AcceptedApart, OverlapFacts DEF Running
  <2>2. CASE b = c
    BY <2>2, <1>2, <1>3, AcceptedApart DEF Running
  <2>3. CASE a # c /\ b # c
    BY <2>3, <1>1, <1>3 DEF DisjointClaims, Running
  <2> QED
    BY <2>1, <2>2, <2>3
<1> QED
  BY <1>7, <1>8, <1>9, <1>10 DEF IInv

(* delete keeps the invariant: it removes what its compaction claimed, and  *)
(* the empty ranges stay.                                                   *)
LEMMA DeleteStep ==
  ASSUME IInv, NEW c \in Compactors, Delete(c)
  PROVE  IInv'
<1> DEFINE d == running[c]
<1>1. TypeRegistry /\ NoPanic /\ RegistryExact /\ DisjointClaims /\ VersionsTogether
  BY InvVersions DEF IInv
<1>2. Running(c) /\ d \in CompactDefs
  BY <1>1 DEF Delete, Running, TypeRegistry
<1>3. running'[c] = Nothing /\ \A b \in Compactors : b # c => running'[b] = running[b]
  BY <1>1 DEF Delete, TypeRegistry
<1>4. /\ d.this \in LevelIds /\ NextLevel(d) \in LevelIds /\ NextLevel(d) # d.this
      /\ ~IsEmpty(d.thisRange)
  BY <1>2, DefFacts
<1>5. \A l \in LevelIds :
         ranges'[l] = IF On(d, l) /\ ~IsEmpty(RangeAt(d, l)) THEN ranges[l] \ {RangeAt(d, l)} ELSE ranges[l]
  <2> HIDE DEF d
  <2>1. ranges' = [ranges EXCEPT ![d.this] = @ \ {d.thisRange},
                     ![NextLevel(d)] = IF IsEmpty(d.nextRange) THEN @ ELSE @ \ {d.nextRange}]
    BY DEF Delete, d
  <2> QED
    BY <2>1, <1>1, <1>4 DEF TypeRegistry, On, RangeAt
<1>6. claimed' = claimed \ AllTables(d) /\ answer' = [answer EXCEPT ![c] = "none"]
  BY DEF Delete
<1>7. \A l \in LevelIds : On(d, l) /\ ~IsEmpty(RangeAt(d, l)) => RangeAt(d, l) \in ranges[l]
  <2> SUFFICES ASSUME NEW l \in LevelIds, On(d, l), ~IsEmpty(RangeAt(d, l)) PROVE RangeAt(d, l) \in ranges[l]
    OBVIOUS
  <2>1. RangeAt(d, l) \in RangesOn(l)
    BY <1>1, <1>2, RangesOnLevel
  <2>2. RangeAt(d, l) # Empty
    BY DEF IsEmpty, Empty
  <2> QED
    BY <2>1, <2>2, <1>1 DEF RegistryExact
<1>8. d.thisRange \in ranges[d.this] /\ (~IsEmpty(d.nextRange) => d.nextRange \in ranges[NextLevel(d)])
  BY <1>4, <1>7 DEF On, RangeAt
<1>9. AllTables(d) \subseteq claimed
  BY <1>1 DEF RegistryExact
<1>10. panicked' = FALSE
  BY <1>8, <1>9 DEF Delete
<1>11. TypeRegistry'
  <2>1. ranges' \in [LevelIds -> SUBSET KeyRanges]
    <3>1. ranges' = [ranges EXCEPT ![d.this] = @ \ {d.thisRange},
                       ![NextLevel(d)] = IF IsEmpty(d.nextRange) THEN @ ELSE @ \ {d.nextRange}]
      BY DEF Delete
    <3> HIDE DEF d
    <3>2. ranges[d.this] \ {d.thisRange} \in SUBSET KeyRanges
      BY <1>1, <1>4 DEF TypeRegistry
    <3>3. ranges[NextLevel(d)] \in SUBSET KeyRanges /\ ranges[NextLevel(d)] \ {d.nextRange} \in SUBSET KeyRanges
      BY <1>1, <1>4 DEF TypeRegistry
    <3> QED
      BY <1>1, <1>4, <3>1, <3>2, <3>3 DEF TypeRegistry
  <2>2. claimed' \in SUBSET Tables /\ answer' \in [Compactors -> {"none", "Ok", "Err"}]
    BY <1>1, <1>6 DEF TypeRegistry
  <2>3. running' \in [Compactors -> CompactDefs \cup {Nothing}]
    BY <1>1 DEF Delete, TypeRegistry
  <2> QED
    BY <2>1, <2>2, <2>3, <1>10 DEF TypeRegistry
<1>12. RegistryExact'
  <2>1. claimed' = UNION {AllTables(running'[b]) : b \in Compactors}
    <3>1. AllTables(running'[c]) = {}
      BY <1>3 DEF AllTables, Nothing
    <3>2. claimed = UNION {AllTables(running[b]) : b \in Compactors}
      BY <1>1 DEF RegistryExact
    <3>3. ASSUME NEW b \in Compactors, b # c, NEW s \in AllTables(running[b]), s \in AllTables(d)
          PROVE  FALSE
      <4>1. s \in Tables
        BY <1>1, <3>2, <3>3 DEF TypeRegistry
      <4>2. UserKeyOf(Smallest[s]) \in UserKeys /\ Spans(s, UserKeyOf(Smallest[s]))
        BY <4>1, OwnSpan
      <4> QED
        BY <1>1, <3>3, <4>2 DEF VersionsTogether
    <3>4. ASSUME NEW s \in claimed' PROVE s \in UNION {AllTables(running'[b]) : b \in Compactors}
      BY <1>3, <1>6, <3>2, <3>4
    <3>5. ASSUME NEW b \in Compactors, NEW s \in AllTables(running'[b]) PROVE s \in claimed'
      BY <1>3, <1>6, <3>1, <3>2, <3>3, <3>5
    <3> QED
      BY <3>4, <3>5
  <2>2. ASSUME NEW l \in LevelIds PROVE ranges'[l] \ {Empty} = RangesOn(l)' \ {Empty}
    <3>1. \A r : r \in RangesOn(l)' <=>
             \E b \in Compactors : running'[b] # Nothing /\ On(running'[b], l) /\ r = RangeAt(running'[b], l)
      BY <1>11, RangesOnLevelNext
    <3>2. \A r : r \in RangesOn(l) <=>
             \E b \in Compactors : running[b] # Nothing /\ On(running[b], l) /\ r = RangeAt(running[b], l)
      BY <1>1, RangesOnLevel DEF Running
    <3>3. ranges[l] \ {Empty} = RangesOn(l) \ {Empty}
      BY <1>1 DEF RegistryExact
    <3>4. ASSUME NEW b \in Compactors, b # c, running[b] # Nothing, On(running[b], l), On(d, l),
                 ~IsEmpty(RangeAt(d, l))
          PROVE  RangeAt(running[b], l) # RangeAt(d, l)
      <4>1. Apart(RangeAt(running[b], l), RangeAt(d, l))
        BY <1>1, <1>2, <3>4 DEF DisjointClaims, Running
      <4>2. RangeAt(d, l) \in KeyRanges
        BY <1>2, RangeTypes DEF RangeAt
      <4> QED
        BY <3>4, <4>1, <4>2, OverlapFacts DEF Apart
    <3>5. RangeAt(d, l) = Empty \/ ~IsEmpty(RangeAt(d, l))
      <4>1. RangeAt(d, l) \in KeyRanges
        BY <1>2, RangeTypes DEF RangeAt
      <4> QED
        BY <4>1, KeyRangeKinds
    <3>6. \A r : r # Empty =>
             (r \in RangesOn(l)' <=> r \in RangesOn(l) /\ ~(On(d, l) /\ r = RangeAt(d, l)))
      <4> SUFFICES ASSUME NEW r, r # Empty
                   PROVE  r \in RangesOn(l)' <=> r \in RangesOn(l) /\ ~(On(d, l) /\ r = RangeAt(d, l))
        OBVIOUS
      <4>1. ASSUME r \in RangesOn(l)' PROVE r \in RangesOn(l) /\ ~(On(d, l) /\ r = RangeAt(d, l))
        <5>1. PICK b \in Compactors : running'[b] # Nothing /\ On(running'[b], l) /\ r = RangeAt(running'[b], l)
          BY <3>1, <4>1
        <5>2. b # c /\ running'[b] = running[b]
          BY <5>1, <1>3
        <5> QED
          BY <5>1, <5>2, <3>2, <3>4, <3>5
      <4>2. ASSUME r \in RangesOn(l), ~(On(d, l) /\ r = RangeAt(d, l)) PROVE r \in RangesOn(l)'
        <5>1. PICK b \in Compactors : running[b] # Nothing /\ On(running[b], l) /\ r = RangeAt(running[b], l)
          BY <3>2, <4>2
        <5>2. b # c /\ running'[b] = running[b]
          BY <5>1, <4>2, <1>3
        <5> QED
          BY <5>1, <5>2, <3>1
      <4> QED
        BY <4>1, <4>2
    <3> HIDE DEF d
    <3>7. ASSUME NEW r, r # Empty PROVE r \in ranges'[l] <=> r \in RangesOn(l)'
      BY <1>5, <3>3, <3>5, <3>6, <3>7
    <3> QED
      BY <3>7
  <2> QED
    BY <2>1, <2>2 DEF RegistryExact, AllTables
<1>13. DisjointClaims'
  BY <1>1, <1>3 DEF DisjointClaims, Running, On, RangeAt, Apart, NextLevel
<1> QED
  BY <1>10, <1>11, <1>12, <1>13 DEF IInv, NoPanic

(* However compactions start and end, the registry is exact and the ranges  *)
(* of the running ones are apart: the inductive invariant of the module.    *)
THEOREM RegistryInvariant == Spec => []IInv
<1>1. ASSUME IInv, [Next]_vars PROVE IInv'
  <2>1. ASSUME NEW c \in Compactors, NEW d \in CompactDefs, Refuse(c, d) PROVE IInv'
    BY <1>1, <2>1
    DEF Refuse, IInv, TypeRegistry, NoPanic, RegistryExact, RangesOn, DisjointClaims, Running,
        AllTables, NextLevel, On, RangeAt, Apart
  <2>2. CASE UNCHANGED vars
    BY <1>1, <2>2
    DEF vars, IInv, TypeRegistry, NoPanic, RegistryExact, RangesOn, DisjointClaims, Running,
        AllTables, NextLevel, On, RangeAt, Apart
  <2> QED
    BY <1>1, <2>1, <2>2, CompareAndAddStep, DeleteStep DEF Next, Start
<1> QED
  BY <1>1, InitIInv, PTL DEF Spec

(* Neither the table assertions of compare_and_add and delete nor the panic *)
(* of delete is ever reached.                                               *)
THEOREM CompactionsNeverPanic == Spec => []NoPanic
<1>1. IInv => NoPanic
  BY DEF IInv
<1> QED
  BY <1>1, RegistryInvariant, PTL

(* The registry always is what the running compactions claimed.             *)
THEOREM RegistryStaysExact == Spec => []RegistryExact
<1>1. IInv => RegistryExact
  BY DEF IInv
<1> QED
  BY <1>1, RegistryInvariant, PTL

(* Two running compactions never hold versions of the same user key on the  *)
(* same level, whatever get_key_range is given.                             *)
THEOREM VersionsStayTogether == Spec => []VersionsTogether
BY InvVersions, RegistryInvariant, PTL

(* An empty next_range is never given up, and its level is never compacted  *)
(* again.                                                                   *)
THEOREM EmptyRangeIsForever == Spec => EmptyRangeLocksLevel
<1> DEFINE Locks(l) == Empty \in ranges[l] =>
             /\ Empty \in ranges'[l]
             /\ \A c \in Compactors : running'[c] \notin {running[c], Nothing} =>
                   l \notin {running'[c].this, NextLevel(running'[c])}
<1>1. ASSUME IInv, Next, NEW l \in LevelIds PROVE Locks(l)
  <2> SUFFICES ASSUME Empty \in ranges[l]
               PROVE  /\ Empty \in ranges'[l]
                      /\ \A c \in Compactors : running'[c] \notin {running[c], Nothing} =>
                            l \notin {running'[c].this, NextLevel(running'[c])}
    OBVIOUS
  <2>1. TypeRegistry
    BY <1>1 DEF IInv
  <2>2. ASSUME NEW c \in Compactors, NEW d \in CompactDefs, CompareAndAdd(c, d)
        PROVE  /\ Empty \in ranges'[l]
               /\ \A b \in Compactors : running'[b] \notin {running[b], Nothing} =>
                     l \notin {running'[b].this, NextLevel(running'[b])}
    <3>1. ~LevelOverlaps(d.this, d.thisRange) /\ ~LevelOverlaps(NextLevel(d), d.nextRange)
      BY <2>2 DEF CompareAndAdd
    <3>2. l # d.this /\ l # NextLevel(d)
      BY <3>1, OverlapFacts DEF LevelOverlaps
    <3>3. ranges'[l] = ranges[l]
      BY <2>1, <2>2, <3>2 DEF CompareAndAdd, TypeRegistry
    <3>4. running'[c] = d /\ \A b \in Compactors : b # c => running'[b] = running[b]
      BY <2>1, <2>2 DEF CompareAndAdd, TypeRegistry
    <3> QED
      BY <3>2, <3>3, <3>4
  <2>3. ASSUME NEW c \in Compactors, NEW d \in CompactDefs, Refuse(c, d)
        PROVE  Empty \in ranges'[l] /\ running' = running
    BY <2>3 DEF Refuse
  <2>4. ASSUME NEW c \in Compactors, Delete(c)
        PROVE  /\ Empty \in ranges'[l]
               /\ \A b \in Compactors : running'[b] \in {running[b], Nothing}
    <3>1. running[c] \in CompactDefs
      BY <2>1, <2>4 DEF Delete, Running, TypeRegistry
    <3>2. \A b \in Compactors : running'[b] \in {running[b], Nothing}
      BY <2>1, <2>4 DEF Delete, TypeRegistry
    <3>3. ~IsEmpty(running[c].thisRange) /\ running[c].this \in LevelIds /\ NextLevel(running[c]) \in LevelIds
      BY <3>1, DefFacts
    <3>4. running[c].thisRange # Empty
      BY <3>3 DEF IsEmpty, Empty
    <3>5. IsEmpty(Empty)
      BY DEF IsEmpty, Empty
    <3>6. Empty \in ranges'[l]
      BY <2>1, <2>4, <3>3, <3>4, <3>5 DEF Delete, TypeRegistry
    <3> QED
      BY <3>2, <3>6
  <2> QED
    BY <1>1, <2>2, <2>3, <2>4 DEF Next, Start
<1>2. ASSUME IInv, [Next]_vars PROVE [\A l \in LevelIds : Locks(l)]_vars
  BY <1>1, <1>2
<1> QED
  BY <1>2, RegistryInvariant, PTL DEF Spec, EmptyRangeLocksLevel

(* A range that was extended overlaps with everything that either of its    *)
(* parts overlaps with, unless that part was empty.                         *)
THEOREM ExtendCovers ==
  ASSUME NEW a \in KeyRanges, NEW b \in KeyRanges, NEW q \in KeyRanges,
         (~IsEmpty(a) /\ OverlapsWith(a, q)) \/ (~IsEmpty(b) /\ OverlapsWith(b, q))
  PROVE  Extend(a, b) \in KeyRanges /\ OverlapsWith(Extend(a, b), q)
<1>1. /\ ~IsEmpty(Inf) /\ IsInf(Inf) /\ IsEmpty(Empty) /\ Inf \in KeyRanges
      /\ \A l, r : Between(l, r).left = l /\ Between(l, r).right = r
      /\ \A l, r : ~IsEmpty(Between(l, r)) /\ ~IsInf(Between(l, r))
  BY DEF IsEmpty, IsInf, Between, Inf, Empty, KeyRanges
<1>2. ASSUME NEW r \in KeyRanges, ~IsEmpty(r), ~IsInf(r)
      PROVE  /\ r.left \in EncodedKeys /\ r.right \in EncodedKeys /\ ~KeyLess(r.right, r.left)
             /\ r = Between(r.left, r.right)
  <2>1. PICK k \in EncodedKeys \X EncodedKeys : r = Between(k[1], k[2]) /\ ~KeyLess(k[2], k[1])
    BY <1>1, <1>2 DEF KeyRanges
  <2> QED
    BY <1>1, <2>1
<1>3. CASE IsEmpty(a) \/ IsEmpty(b)
  BY <1>1, <1>3 DEF Extend
<1>4. CASE ~IsEmpty(a) /\ ~IsEmpty(b) /\ (IsInf(a) \/ IsInf(b))
  BY <1>1, <1>4 DEF Extend, OverlapsWith
<1>5. CASE ~IsEmpty(a) /\ ~IsEmpty(b) /\ ~IsInf(a) /\ ~IsInf(b)
  <2> DEFINE l == IF KeyLess(b.left, a.left) THEN b.left ELSE a.left
             r == IF KeyLess(a.right, b.right) THEN b.right ELSE a.right
  <2>1. Extend(a, b) = Between(l, r)
    BY <1>5 DEF Extend
  <2>2. \A j, k, m \in EncodedKeys : ~KeyLess(j, k) /\ ~KeyLess(k, m) => ~KeyLess(j, m)
    BY KeyLessOrder DEF KeyLess
  <2>3. \A j, k \in EncodedKeys : KeyLess(j, k) => ~KeyLess(k, j)
    BY KeyLessOrder DEF KeyLess
  <2>4. /\ a.left \in EncodedKeys /\ a.right \in EncodedKeys /\ ~KeyLess(a.right, a.left)
        /\ b.left \in EncodedKeys /\ b.right \in EncodedKeys /\ ~KeyLess(b.right, b.left)
    BY <1>2, <1>5
  <2>5. /\ l \in EncodedKeys /\ r \in EncodedKeys
        /\ ~KeyLess(a.left, l) /\ ~KeyLess(b.left, l)
        /\ ~KeyLess(r, a.right) /\ ~KeyLess(r, b.right)
    BY <2>2, <2>3, <2>4 DEF KeyLess
  <2> HIDE DEF l, r
  <2>6. ~KeyLess(r, l)
    BY <2>2, <2>4, <2>5
  <2>7. Extend(a, b) \in KeyRanges
    <3> DEFINE p == <<l, r>>
    <3>1. p \in {k \in EncodedKeys \X EncodedKeys : ~KeyLess(k[2], k[1])}
      BY <2>5, <2>6
    <3>2. Extend(a, b) = Between(p[1], p[2])
      BY <2>1
    <3> QED
      BY <3>1, <3>2 DEF KeyRanges
  <2>8. CASE IsInf(q)
    BY <1>1, <2>1, <2>7, <2>8, <1>5 DEF OverlapsWith, IsEmpty, IsInf
  <2>9. CASE ~IsInf(q)
    <3>1. ~IsEmpty(q)
      BY <1>5 DEF OverlapsWith
    <3>2. q.left \in EncodedKeys /\ q.right \in EncodedKeys
      BY <1>2, <2>9, <3>1
    <3>3. \/ ~KeyLess(q.right, a.left) /\ ~KeyLess(a.right, q.left)
          \/ ~KeyLess(q.right, b.left) /\ ~KeyLess(b.right, q.left)
      BY <1>5, <2>9, <3>1 DEF OverlapsWith
    <3>4. ~KeyLess(q.right, l) /\ ~KeyLess(r, q.left)
      BY <2>2, <2>4, <2>5, <3>2, <3>3
    <3> QED
      BY <1>1, <2>1, <2>7, <3>1, <3>4 DEF OverlapsWith
  <2> QED
    BY <2>8, <2>9
<1> QED
  BY <1>3, <1>4, <1>5

-----------------------------------------------------------------------------
(* The running compactions of a level, and the sum of their sizes.           *)
Busy(l) == {c \in Compactors : Running(c) /\ running[c].this = l}

TotalSize(run, S) == MapThenSumSet(LAMBDA c : run[c].thisSize, S)

LEMMA FoldIsSum ==
  ASSUME NEW run, NEW S, IsFiniteSet(S), NEW f, NEW g, IsSum(g, f, S),
         \A c \in S : f[c] = run[c].thisSize
  PROVE  TotalSize(run, S) = g[S]
<1> DEFINE IsFold(i) == i = [s \in SUBSET S |-> IF s = {} THEN 0
                                               ELSE run[CHOOSE x \in s : TRUE].thisSize +
                                                    i[s \ {CHOOSE x \in s : TRUE}]]
           fold == CHOOSE i : IsFold(i)
<1>1. TotalSize(run, S) = fold[S]
  BY Zenon DEF TotalSize, MapThenSumSet, MapThenFoldSet
<1>2. IsFold(g)
  <2>1. \A s \in SUBSET S : g[s] = IF s = {} THEN 0 ELSE run[Any(s)].thisSize + g[s \ {Any(s)}]
    BY AnyIn DEF IsSum, SumsUp
  <2>2. g = [s \in SUBSET S |-> g[s]]
    BY DEF IsSum
  <2> QED
    BY <2>1, <2>2 DEF Any
<1>3. IsFold(fold)
  BY <1>2, Zenon
<1> HIDE DEF fold
<1>4. SumsUp(fold, f, S)
  <2>1. \A s \in SUBSET S : fold[s] = IF s = {} THEN 0 ELSE run[Any(s)].thisSize + fold[s \ {Any(s)}]
    BY <1>3 DEF Any
  <2> QED
    BY <2>1, AnyIn DEF SumsUp
<1>5. fold[S] = g[S]
  BY <1>4, SumsAgree DEF IsSum
<1> QED
  BY <1>1, <1>5

(* One compaction more adds its size to the sum.                             *)
LEMMA SumWithOneMore ==
  ASSUME NEW run, NEW new, NEW S, IsFiniteSet(S), NEW c, c \notin S,
         \A b \in S \cup {c} : new[b].thisSize \in Nat,
         \A b \in S : run[b] = new[b]
  PROVE  /\ TotalSize(new, S \cup {c}) = TotalSize(run, S) + new[c].thisSize
         /\ TotalSize(run, S) \in Nat
<1> DEFINE T == S \cup {c}
           f == [b \in T |-> new[b].thisSize]
           e == [b \in S |-> run[b].thisSize]
<1>1. IsFiniteSet(T)
  BY FS_AddElement
<1>2. f \in [T -> Nat] /\ e \in [S -> Nat] /\ \A x \in S : e[x] = f[x]
  OBVIOUS
<1>3. (\A b \in T : f[b] = new[b].thisSize) /\ (\A b \in S : e[b] = run[b].thisSize) /\ f[c] = new[c].thisSize
  OBVIOUS
<1>4. S = T \ {c} /\ S \in SUBSET T /\ T \in SUBSET T /\ c \in T
  OBVIOUS
<1> HIDE DEF T, f, e
<1>5. PICK g : IsSum(g, f, T)
  BY <1>1, <1>2, SumExists
<1>6. PICK h : IsSum(h, e, S)
  BY <1>2, SumExists
<1>7. g[T] = f[c] + g[S]
  BY <1>1, <1>2, <1>4, <1>5, SumWithout
<1>8. h[S] = g[S]
  <2>1. SumsUp(h, e, S)
    BY <1>6 DEF IsSum
  <2>2. SumsUp(g, f, S)
    BY <1>4, <1>5 DEF IsSum, SumsUp
  <2>3. \A s \in SUBSET S : h[s] = g[s]
    BY <1>2, <2>1, <2>2, SumsAgree
  <2> QED
    BY <2>3
<1>9. TotalSize(new, T) = g[T]
  BY <1>1, <1>3, <1>5, FoldIsSum
<1>10. TotalSize(run, S) = h[S]
  BY <1>3, <1>6, FoldIsSum
<1>11. g[S] \in Nat /\ f[c] \in Nat
  BY <1>2, <1>4, <1>5 DEF IsSum
<1> QED
  BY <1>3, <1>7, <1>8, <1>9, <1>10, <1>11 DEF T

LEMMA TotalSame ==
  ASSUME NEW run, NEW new, NEW S, IsFiniteSet(S),
         \A b \in S : new[b].thisSize \in Nat /\ run[b] = new[b]
  PROVE  TotalSize(new, S) = TotalSize(run, S) /\ TotalSize(run, S) \in Nat
<1> DEFINE f == [b \in S |-> new[b].thisSize]
<1>1. f \in [S -> Nat] /\ \A b \in S : f[b] = new[b].thisSize /\ f[b] = run[b].thisSize
  OBVIOUS
<1> HIDE DEF f
<1>2. PICK g : IsSum(g, f, S)
  BY <1>1, SumExists
<1>3. TotalSize(new, S) = g[S] /\ TotalSize(run, S) = g[S]
  BY <1>1, <1>2, FoldIsSum
<1>4. g[S] \in Nat
  BY <1>2 DEF IsSum
<1> QED
  BY <1>3, <1>4

(* del_size is exact; only finitely many compactions are running.            *)
SizeInv ==
  /\ delSize \in [LevelIds -> Nat]
  /\ \A l \in LevelIds : IsFiniteSet(Busy(l)) /\ delSize[l] = TotalSize(running, Busy(l))

LEMMA SizeInvExact == SizeInv => DelSizeExact
BY DEF SizeInv, DelSizeExact, Busy, TotalSize

LEMMA BusySizes ==
  ASSUME TypeRegistry
  PROVE  \A l \in LevelIds : \A b \in Busy(l) : running[b].thisSize \in Nat
<1>1. \A d \in CompactDefs : d.thisSize \in Nat
  BY SizesAssumption DEF CompactDefs
<1> QED
  BY <1>1 DEF TypeRegistry, Busy, Running

LEMMA InitSize == Init => SizeInv
<1> SUFFICES ASSUME Init PROVE SizeInv
  OBVIOUS
<1>1. \A l \in LevelIds : Busy(l) = {}
  BY DEF Init, Busy, Running
<1>2. IsFiniteSet({}) /\ TotalSize(running, {}) = 0
  <2>1. IsFiniteSet({})
    BY FS_EmptySet
  <2> DEFINE f == [b \in {} |-> 0]
  <2>2. f \in [{} -> Nat] /\ \A b \in {} : f[b] = running[b].thisSize
    OBVIOUS
  <2> HIDE DEF f
  <2>3. PICK g : IsSum(g, f, {})
    BY <2>1, <2>2, SumExists
  <2>4. g[{}] = 0
    BY <2>3 DEF IsSum, SumsUp
  <2> QED
    BY <2>1, <2>2, <2>3, <2>4, FoldIsSum
<1> QED
  BY <1>1, <1>2 DEF Init, SizeInv

(* A level on which no compaction starts or ends keeps its sum.              *)
LEMMA OtherLevel ==
  ASSUME TypeRegistry, SizeInv, NEW l \in LevelIds,
         \A b \in Compactors : \/ running'[b] = running[b]
                               \/ b \notin Busy(l) /\ b \notin Busy(l)'
  PROVE  IsFiniteSet(Busy(l)') /\ TotalSize(running', Busy(l)') = delSize[l]
<1>1. Busy(l)' = Busy(l)
  BY DEF Busy, Running
<1>2. \A b \in Busy(l) : running'[b] = running[b]
  BY <1>1 DEF Busy
<1>3. \A b \in Busy(l) : running[b].thisSize \in Nat
  BY BusySizes
<1>4. IsFiniteSet(Busy(l)) /\ delSize[l] = TotalSize(running, Busy(l))
  BY DEF SizeInv
<1>5. TotalSize(running', Busy(l)) = TotalSize(running, Busy(l))
  BY <1>2, <1>3, <1>4, TotalSame
<1> QED
  BY <1>1, <1>4, <1>5

LEMMA AddSize ==
  ASSUME IInv, SizeInv, NEW c \in Compactors, NEW d \in CompactDefs, CompareAndAdd(c, d)
  PROVE  SizeInv'
<1>0. TypeRegistry /\ d.thisSize \in Nat /\ d # Nothing /\ d.this \in LevelIds
  BY DefFacts, SizesAssumption DEF IInv, CompactDefs
<1>1. running'[c] = d /\ (\A b \in Compactors : b # c => running'[b] = running[b]) /\ ~Running(c)
  BY <1>0 DEF CompareAndAdd, TypeRegistry
<1>2. delSize' = [delSize EXCEPT ![d.this] = delSize[d.this] + d.thisSize] /\ delSize \in [LevelIds -> Nat]
  BY DEF CompareAndAdd, SizeInv
<1>3. delSize' \in [LevelIds -> Nat]
  BY <1>0, <1>2
<1>4. ASSUME NEW l \in LevelIds, l # d.this
      PROVE  IsFiniteSet(Busy(l)') /\ delSize'[l] = TotalSize(running', Busy(l)')
  <2>1. c \notin Busy(l) /\ c \notin Busy(l)'
    BY <1>1, <1>4 DEF Busy, Running
  <2>2. IsFiniteSet(Busy(l)') /\ TotalSize(running', Busy(l)') = delSize[l]
    BY <1>0, <1>1, <2>1, OtherLevel
  <2> QED
    BY <1>2, <1>4, <2>2
<1>5. PICK l \in LevelIds : l = d.this
  BY <1>0
<1>6. IsFiniteSet(Busy(l)') /\ delSize'[l] = TotalSize(running', Busy(l)')
  <2>1. Busy(l)' = Busy(l) \cup {c} /\ c \notin Busy(l)
    BY <1>0, <1>1, <1>5 DEF Busy, Running
  <2>2. IsFiniteSet(Busy(l)) /\ delSize[l] = TotalSize(running, Busy(l))
    BY DEF SizeInv
  <2>3. \A b \in Busy(l) : running[b].thisSize \in Nat /\ running'[b] = running[b]
    BY <1>0, <1>1, <2>1, BusySizes DEF Busy
  <2>4. TotalSize(running', Busy(l) \cup {c}) = TotalSize(running, Busy(l)) + running'[c].thisSize
    BY <1>0, <1>1, <2>1, <2>2, <2>3, SumWithOneMore
  <2>5. IsFiniteSet(Busy(l) \cup {c})
    BY <2>2, FS_AddElement
  <2>6. delSize'[l] = delSize[l] + d.thisSize
    BY <1>2, <1>5
  <2> QED
    BY <1>1, <2>1, <2>2, <2>4, <2>5, <2>6
<1> QED
  BY <1>3, <1>4, <1>5, <1>6 DEF SizeInv

LEMMA DeleteSize ==
  ASSUME IInv, SizeInv, NEW c \in Compactors, Delete(c)
  PROVE  SizeInv'
<1>0. PICK d \in CompactDefs : d = running[c] /\ d # Nothing /\ Running(c)
  BY DEF Delete, IInv, TypeRegistry, Running
<1>1. TypeRegistry /\ d.thisSize \in Nat /\ d.this \in LevelIds
  BY DefFacts, SizesAssumption DEF IInv, CompactDefs
<1>2. running'[c] = Nothing /\ (\A b \in Compactors : b # c => running'[b] = running[b])
  BY <1>1 DEF Delete, TypeRegistry
<1>3. delSize' = [delSize EXCEPT ![d.this] = delSize[d.this] - d.thisSize] /\ delSize \in [LevelIds -> Nat]
  BY <1>0 DEF Delete, SizeInv
<1>4. ASSUME NEW l \in LevelIds, l # d.this
      PROVE  IsFiniteSet(Busy(l)') /\ delSize'[l] = TotalSize(running', Busy(l)') /\ delSize'[l] = delSize[l]
  <2>1. c \notin Busy(l) /\ c \notin Busy(l)'
    BY <1>0, <1>2, <1>4 DEF Busy, Running
  <2>2. IsFiniteSet(Busy(l)') /\ TotalSize(running', Busy(l)') = delSize[l]
    BY <1>1, <1>2, <2>1, OtherLevel
  <2> QED
    BY <1>3, <1>4, <2>2
<1>5. PICK l \in LevelIds : l = d.this
  BY <1>1
<1>6. IsFiniteSet(Busy(l)') /\ delSize'[l] = TotalSize(running', Busy(l)') /\ delSize'[l] \in Nat
  <2> DEFINE S == Busy(l) \ {c}
  <2>1. Busy(l)' = S /\ Busy(l) = S \cup {c} /\ c \notin S
    BY <1>0, <1>2, <1>5 DEF Busy, Running
  <2>2. IsFiniteSet(Busy(l)) /\ delSize[l] = TotalSize(running, Busy(l))
    BY DEF SizeInv
  <2>3. IsFiniteSet(S)
    BY <2>2, FS_Subset
  <2>4. \A b \in S \cup {c} : running[b].thisSize \in Nat
    BY <1>1, <2>1, BusySizes
  <2>5. \A b \in S : running'[b] = running[b]
    BY <1>2 DEF Busy
  <2> HIDE DEF S
  <2>6. /\ TotalSize(running, S \cup {c}) = TotalSize(running', S) + running[c].thisSize
        /\ TotalSize(running', S) \in Nat
    <3>1. PICK run, new : run = running' /\ new = running
      OBVIOUS
    <3>2. c \notin S /\ (\A b \in S \cup {c} : new[b].thisSize \in Nat) /\ \A b \in S : run[b] = new[b]
      BY <2>1, <2>4, <2>5, <3>1
    <3>3. TotalSize(new, S \cup {c}) = TotalSize(run, S) + new[c].thisSize /\ TotalSize(run, S) \in Nat
      BY <2>3, <3>2, SumWithOneMore
    <3> QED
      BY <3>1, <3>3
  <2>7. delSize'[l] = delSize[l] - d.thisSize
    BY <1>3, <1>5
  <2>8. delSize[l] = TotalSize(running', S) + d.thisSize
    BY <1>0, <2>1, <2>2, <2>6
  <2> QED
    BY <1>1, <2>1, <2>3, <2>6, <2>7, <2>8
<1>7. delSize' \in [LevelIds -> Nat]
  <2>1. \A k \in LevelIds : delSize'[k] \in Nat
    BY <1>3, <1>4, <1>5, <1>6
  <2> QED
    BY <1>3, <2>1
<1> QED
  BY <1>4, <1>5, <1>6, <1>7 DEF SizeInv

(* Both invariants together: a subtraction is one of an addition made before. *)
THEOREM SizeInvariant == Spec => []SizeInv
<1>1. ASSUME IInv, SizeInv, [Next]_vars PROVE SizeInv'
  <2>1. ASSUME NEW c \in Compactors, NEW d \in CompactDefs, Refuse(c, d) PROVE SizeInv'
    BY <1>1, <2>1 DEF Refuse, SizeInv, Busy, Running
  <2>2. CASE UNCHANGED vars
    BY <1>1, <2>2 DEF vars, SizeInv, Busy, Running
  <2> QED
    BY <1>1, <2>1, <2>2, AddSize, DeleteSize DEF Next, Start
<1> QED
  BY <1>1, InitSize, RegistryInvariant, PTL DEF Spec

(* del_size of a level is the size its running compactions take out of it:   *)
(* whatever was added is subtracted once, and delete does not underflow.     *)
THEOREM SizesStayExact == Spec => []DelSizeExact
BY SizeInvExact, SizeInvariant, PTL

(* The registry keeps its type; del_size stays a natural number.             *)
THEOREM TypeCorrect == Spec => []TypeOK
<1>1. IInv /\ SizeInv => TypeOK
  BY DEF IInv, SizeInv, TypeOK
<1> QED
  BY <1>1, RegistryInvariant, SizeInvariant, PTL
=============================================================================
